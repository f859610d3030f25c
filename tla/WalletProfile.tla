----------------------------- MODULE WalletProfile -----------------------------
(***************************************************************************)
(* One wallet document and everything that changes it: the requests to     *)
(* verify an e-mail address and to confirm it with the mailed code, the    *)
(* request that switches notifications, the indexers' refresh of the       *)
(* balance, and the nonce that is given out to be signed for the login.    *)
(*                                                                         *)
(* All but the nonce's upsert load the document, change the copy without   *)
(* waiting, and save.  Nothing locks the document in between; Mongoose's   *)
(* save() writes the fields in which the copy differs from what was loaded.*)
(***************************************************************************)
EXTENDS Integers, Sequences, FiniteSets

CONSTANTS
    Requests,   \* handlers under way at a time
    Emails,
    NoEmail,    \* an e-mail field that is unset
    OtpLife,    \* how long a code is good for, five minutes in the code
    MaxTime,    \* bound: the clock stops here
    MaxStarts   \* bound: the requests made in all

ASSUME ProfileAssumption ==
    /\ NoEmail \notin Emails
    /\ OtpLife \in Nat
    /\ MaxTime \in Nat \ {0}
    /\ MaxStarts \in Nat

VARIABLES
    clock,      \* Date.now(), never 0
    doc,        \* the wallet document
    mailed,     \* codes that reached the mailbox they were sent to
    \* the handlers
    pc,
    group,      \* the fields a handler is about: an e-mail, a flag or a balance
    copy,       \* the document as loaded
    draft,      \* ... and as changed
    \* bookkeeping
    starts,
    codes,      \* ghost: address and time of every code generated; a code is its index
    awaited,    \* ghost: the last code saved and not yet used, 0 if none
    uses,       \* ghost: how often an address was saved on each code
    verified,   \* ghost: addresses a code mailed to them was accepted for
    kept,       \* ghost: the flag and the balance saved last
    issued,     \* ghost: the nonce given out last, to whomever
    given,      \* ghost: the nonce the owner received last, 0 if none
    refused,    \* ghost: a login was refused though no nonce was issued after the owner's
    overlapped  \* ghost: groups of which two handlers were between load and save

handlerVars == <<pc, group, copy, draft>>
ghostVars   == <<starts, codes, awaited, uses, verified, kept, issued, given, refused, overlapped>>
vars == <<clock, doc, mailed, handlerVars, ghostVars>>

Groups == {"email", "enabledNoti", "balance", "nonce"}
Codes  == 1..MaxStarts

Documents ==
    [email: Emails \cup {NoEmail}, tmpEmail: Emails \cup {NoEmail},
     otp: 0..MaxStarts, otpCreatedTime: 0..MaxTime,
     enabledNoti: BOOLEAN, balance: 0..1, nonce: 0..MaxStarts]

Blank ==
    [email |-> NoEmail, tmpEmail |-> NoEmail, otp |-> 0, otpCreatedTime |-> 0,
     enabledNoti |-> FALSE, balance |-> 0, nonce |-> 0]

TypeOK ==
    /\ clock \in 1..MaxTime
    /\ doc \in Documents
    /\ mailed \in SUBSET Codes
    /\ pc \in [Requests -> {"idle", "save", "mail", "reply"}]
    /\ group \in [Requests -> Groups]
    /\ copy \in [Requests -> Documents]
    /\ draft \in [Requests -> Documents]
    /\ starts \in 0..MaxStarts
    /\ codes \in Seq([to: Emails, at: 1..MaxTime])
    /\ awaited \in 0..MaxStarts
    /\ uses \in [Codes -> Nat]
    /\ verified \in SUBSET Emails
    /\ kept \in [enabledNoti: BOOLEAN, balance: 0..1]
    /\ issued \in 0..MaxStarts
    /\ given \in 0..MaxStarts
    /\ refused \in BOOLEAN
    /\ overlapped \in SUBSET Groups

Init ==
    /\ clock = 1
    /\ doc = Blank
    /\ mailed = {}
    /\ pc = [r \in Requests |-> "idle"]
    /\ group = [r \in Requests |-> "email"]
    /\ copy = [r \in Requests |-> Blank]
    /\ draft = [r \in Requests |-> Blank]
    /\ starts = 0
    /\ codes = <<>>
    /\ awaited = 0
    /\ uses = [c \in Codes |-> 0]
    /\ verified = {}
    /\ kept = [enabledNoti |-> FALSE, balance |-> 0]
    /\ issued = 0
    /\ given = 0
    /\ refused = FALSE
    /\ overlapped = {}

Tick ==
    /\ clock < MaxTime
    /\ clock' = clock + 1
    /\ UNCHANGED <<doc, mailed, handlerVars, ghostVars>>

-------------------------------------------------------------------------------
(* Loading and changing the document.                                       *)

\* findByWalletAddress, and the synchronous code up to save().
Load(r, g, changed) ==
    /\ pc[r] = "idle"
    /\ starts < MaxStarts
    /\ starts' = starts + 1
    /\ pc' = [pc EXCEPT ![r] = "save"]
    /\ group' = [group EXCEPT ![r] = g]
    /\ copy' = [copy EXCEPT ![r] = doc]
    /\ draft' = [draft EXCEPT ![r] = changed]
    /\ overlapped' = IF \E s \in Requests : pc[s] = "save" /\ group[s] = g
                       THEN overlapped \cup {g}
                       ELSE overlapped
    /\ UNCHANGED <<clock, doc, mailed, awaited, kept, issued, given, refused>>

\* Mutant: the time the code expires is stored, not the time it was made.
VerifyEmail_Expiry(r, email) ==
    /\ Load(r, "email", [doc EXCEPT !.otp = Len(codes) + 1,
                                    !.otpCreatedTime = clock + OtpLife,
                                    !.tmpEmail = email])
    /\ codes' = Append(codes, [to |-> email, at |-> clock])
    /\ UNCHANGED <<uses, verified>>

\* verifyEmail(): a new code for this address.
VerifyEmail(r, email) ==
    /\ Load(r, "email", [doc EXCEPT !.otp = Len(codes) + 1, !.otpCreatedTime = clock,
                                    !.tmpEmail = email])
    /\ codes' = Append(codes, [to |-> email, at |-> clock])
    /\ UNCHANGED <<uses, verified>>

\* validateOtp().
ValidOtp(otp) ==
    /\ doc.otp # 0
    /\ doc.otpCreatedTime # 0
    /\ otp = doc.otp
    /\ clock - doc.otpCreatedTime <= OtpLife

\* Mutant: any address may be confirmed with the code.
UpdateEmail_AnyEmail(r, email, otp) ==
    /\ ValidOtp(otp)
    /\ Load(r, "email", [doc EXCEPT !.otp = 0, !.otpCreatedTime = 0,
                                    !.email = email, !.tmpEmail = NoEmail])
    /\ verified' = verified \cup {codes[otp].to}
    /\ UNCHANGED <<codes, uses>>

\* Mutant: the code is not cleared once it was used.
UpdateEmail_KeepOtp(r, email, otp) ==
    /\ email = doc.tmpEmail
    /\ ValidOtp(otp)
    /\ Load(r, "email", [doc EXCEPT !.email = email])
    /\ verified' = verified \cup {codes[otp].to}
    /\ UNCHANGED <<codes, uses>>

\* updateEmail(): any other address or code is refused and changes nothing.
UpdateEmail(r, email, otp) ==
    /\ email = doc.tmpEmail
    /\ ValidOtp(otp)
    /\ Load(r, "email", [doc EXCEPT !.otp = 0, !.otpCreatedTime = 0,
                                    !.email = email, !.tmpEmail = NoEmail])
    /\ verified' = verified \cup {codes[otp].to}
    /\ UNCHANGED <<codes, uses>>

\* update(): enabledNoti.
Update(r, enabled) ==
    /\ Load(r, "enabledNoti", [doc EXCEPT !.enabledNoti = enabled])
    /\ UNCHANGED <<codes, uses, verified>>

\* updateBalance or syncBalances, with a balance read on chain.
Refresh(r, amount) ==
    /\ Load(r, "balance", [doc EXCEPT !.balance = amount])
    /\ UNCHANGED <<codes, uses, verified>>

-------------------------------------------------------------------------------
(* Signing in.                                                              *)

\* getNonce: a fresh nonce replaces the old one in one update.  The request
\* names the wallet and proves nothing: anybody may make it.
GetNonce(r) ==
    /\ pc[r] = "idle" /\ starts < MaxStarts
    /\ starts' = starts + 1
    /\ pc' = [pc EXCEPT ![r] = "reply"]
    /\ group' = [group EXCEPT ![r] = "nonce"]
    /\ doc' = [doc EXCEPT !.nonce = starts + 1]
    /\ draft' = [draft EXCEPT ![r].nonce = starts + 1]
    /\ issued' = starts + 1
    /\ UNCHANGED <<clock, mailed, copy, codes, awaited, uses, verified, kept, given, refused,
                   overlapped>>

Answered(r) ==
    /\ pc[r] = "reply"
    /\ pc' = [pc EXCEPT ![r] = "idle"]
    /\ draft' = [draft EXCEPT ![r] = Blank]
    /\ UNCHANGED <<clock, doc, mailed, group, copy, starts, codes, awaited, uses, verified,
                   kept, issued, refused, overlapped>>

\* The answer reaches the owner ...
GiveNonce(r) == Answered(r) /\ given' = draft[r].nonce

\* ... or is lost, or somebody else had asked.
LoseNonce(r) == Answered(r) /\ UNCHANGED given

\* loginEVM with the nonce the owner received last, signed.
LoginEVM ==
    /\ given # 0
    /\ refused' = (refused \/ (given = issued /\ given # doc.nonce))
    /\ UNCHANGED <<clock, doc, mailed, handlerVars, starts, codes, awaited, uses, verified,
                   kept, issued, given, overlapped>>

-------------------------------------------------------------------------------
(* Saving it.                                                               *)

End(r, next) ==
    /\ pc' = [pc EXCEPT ![r] = next]
    /\ copy' = [copy EXCEPT ![r] = Blank]
    /\ draft' = [draft EXCEPT ![r] = IF next = "mail" THEN @ ELSE Blank]
    /\ UNCHANGED group

\* Mutant: the whole document is replaced.
Delta_Whole(r) == draft[r]

\* save(): only the fields that differ from the copy are written.
Delta(r) ==
    [f \in DOMAIN doc |-> IF draft[r][f] = copy[r][f] THEN doc[f] ELSE draft[r][f]]

\* This handler is a verifyEmail, with a code of its own ...
Asks(r) == group[r] = "email" /\ draft[r].otp \notin {0, copy[r].otp}

\* ... or an updateEmail, on the code it loaded.
Confirms(r) == group[r] = "email" /\ ~Asks(r)

Save(r) ==
    /\ pc[r] = "save"
    /\ doc' = Delta(r)
    /\ awaited' = IF Asks(r) THEN draft[r].otp ELSE IF Confirms(r) THEN 0 ELSE awaited
    /\ uses' = IF Confirms(r) THEN [uses EXCEPT ![copy[r].otp] = @ + 1] ELSE uses
    /\ kept' = IF group[r] = "email" THEN kept
                 ELSE [kept EXCEPT ![group[r]] = draft[r][group[r]]]
    /\ End(r, IF Asks(r) THEN "mail" ELSE "idle")
    /\ UNCHANGED <<clock, mailed, starts, codes, verified, issued, given, refused, overlapped>>

\* sendEmailOtp: an error of Mailgun is swallowed, and the code never arrives.
SendEmailOtp(r) ==
    /\ pc[r] = "mail"
    /\ mailed' \in {mailed, mailed \cup {draft[r].otp}}
    /\ End(r, "idle")
    /\ UNCHANGED <<clock, doc, ghostVars>>

\* save() throws: the request ends there.
SaveFails(r) ==
    /\ pc[r] = "save"
    /\ End(r, "idle")
    /\ UNCHANGED <<clock, doc, mailed, ghostVars>>

\* The process dies with every handler.
Crash ==
    /\ \E r \in Requests : pc[r] # "idle"
    /\ pc' = [r \in Requests |-> "idle"]
    /\ copy' = [r \in Requests |-> Blank]
    /\ draft' = [r \in Requests |-> Blank]
    /\ UNCHANGED <<clock, doc, mailed, group, ghostVars>>

-------------------------------------------------------------------------------
Next ==
    \/ Tick
    \/ \E r \in Requests :
          \/ \E e \in Emails : VerifyEmail(r, e) \/ \E o \in mailed : UpdateEmail(r, e, o)
          \/ \E b \in BOOLEAN : Update(r, b)
          \/ \E n \in 0..1 : Refresh(r, n)
          \/ GetNonce(r) \/ GiveNonce(r) \/ LoseNonce(r)
          \/ Save(r) \/ SaveFails(r) \/ SendEmailOtp(r)
    \/ LoginEVM
    \/ Crash

Spec == Init /\ [][Next]_vars

-------------------------------------------------------------------------------
(* Properties.                                                              *)

\* "Please verify your email first": the wallet's e-mail address is one that
\* a code mailed to it was presented for.
EmailVerified == doc.email = NoEmail \/ doc.email \in verified

\* That holds as long as no two requests about the e-mail address overlap,
\* whatever else is saved to the document meanwhile.
EmailVerifiedUnlessOverlap == "email" \notin overlapped => EmailVerified

\* A code confirms an address once, never twice, on the same condition.
CodeUsedOnce == "email" \notin overlapped => \A c \in Codes : uses[c] <= 1

\* While no request about the address is under way, the document holds the
\* code asked for last, with the address it was asked for, until it is used.
CodeAwaited ==
    "email" \notin overlapped =>
        /\ doc.otp = awaited
        /\ awaited # 0 => doc.tmpEmail = codes[awaited].to

\* What a request saved last for the flag or the balance is what the
\* document shows, unless two requests for that same field overlapped: a
\* save about one field never undoes a save about another.
SettingsKept ==
    \A f \in {"enabledNoti", "balance"} : f \notin overlapped => doc[f] = kept[f]

\* A login with the owner's nonce is refused for one reason only: another nonce
\* was issued for the wallet since, which anybody can have done.  What other
\* requests load, hold and save meanwhile never brings an older nonce back.
LoginAccepted == ~refused
===============================================================================
