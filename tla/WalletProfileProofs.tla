-------------------------- MODULE WalletProfileProofs --------------------------
(***************************************************************************)
(* Proofs about WalletProfile, for any number of handlers, addresses,      *)
(* codes and any lifetime of a code: types, and what holds of the document *)
(* as long as no two handlers were at the same fields at once.             *)
(*                                                                         *)
(* The inductive invariant says what a handler between load and save has   *)
(* in hand: a draft that differs from its copy in the fields of its own    *)
(* group only (Hands), and a copy that still shows those fields as the     *)
(* document has them, unless another handler of the group overlapped       *)
(* (Fresh, Alone).                                                         *)
(***************************************************************************)
EXTENDS WalletProfile, TLAPS

\* Codes are numbered as they are generated, and only those are in use.
Numbered ==
    /\ Len(codes) <= starts
    /\ mailed \subseteq 1..Len(codes)
    /\ doc.otp <= Len(codes)
    /\ \A c \in Codes : c > Len(codes) => uses[c] = 0

\* A handler of verifyEmail between load and save.
Asking(r) ==
    /\ draft[r].otp \in 1..Len(codes)
    /\ draft[r].otp # copy[r].otp
    /\ draft[r].tmpEmail = codes[draft[r].otp].to
    /\ draft[r].email = copy[r].email

\* A handler of updateEmail between load and save.
Confirming(r) ==
    /\ copy[r].otp \in 1..Len(codes)
    /\ draft[r].otp = 0
    /\ draft[r].email = copy[r].tmpEmail
    /\ codes[copy[r].otp].to \in verified

\* What a handler about to save has in hand.
Held(r) ==
    /\ group[r] # "nonce"
    /\ draft[r].nonce = copy[r].nonce
    /\ group[r] # "balance" => draft[r].balance = copy[r].balance
    /\ group[r] # "enabledNoti" => draft[r].enabledNoti = copy[r].enabledNoti
    /\ group[r] # "email" => /\ draft[r].email = copy[r].email
                             /\ draft[r].tmpEmail = copy[r].tmpEmail
                             /\ draft[r].otp = copy[r].otp
    /\ group[r] = "email" => Asking(r) \/ Confirming(r)

Hands ==
    \A r \in Requests :
        /\ pc[r] = "save" => Held(r)
        /\ pc[r] = "mail" => draft[r].otp \in 1..Len(codes)
        /\ pc[r] = "reply" => group[r] = "nonce"

\* Two handlers at the same fields were counted as overlapping.
Alone ==
    \A r, s \in Requests :
        r # s /\ pc[r] = pc[s] /\ pc[r] = "save" /\ group[r] = group[s]
            => group[r] \in overlapped

\* The fields a handler is about are still as it loaded them.
Fresh ==
    \A r \in Requests :
        pc[r] = "save" /\ group[r] \notin overlapped =>
            /\ group[r] = "email" => /\ copy[r].email = doc.email
                                     /\ copy[r].tmpEmail = doc.tmpEmail
                                     /\ copy[r].otp = doc.otp
            /\ group[r] = "enabledNoti" => copy[r].enabledNoti = doc.enabledNoti
            /\ group[r] = "balance" => copy[r].balance = doc.balance

\* A code still to be used has never been used.
Unused ==
    "email" \notin overlapped =>
        /\ doc.otp # 0 => uses[doc.otp] = 0
        /\ \A r \in Requests : pc[r] = "save" /\ Asks(r) => uses[draft[r].otp] = 0

\* The document has the nonce issued last: no save brings an older one back.
NonceKept == doc.nonce = issued /\ ~refused

Care ==
    /\ Alone /\ Fresh /\ Unused /\ NonceKept
    /\ EmailVerifiedUnlessOverlap /\ CodeUsedOnce /\ CodeAwaited /\ SettingsKept

-------------------------------------------------------------------------------
(* The steps of a handler.                                                  *)

\* The document a save leaves, field by field.
LEMMA DeltaFields ==
  ASSUME TypeOK, NEW r \in Requests
  PROVE  /\ Delta(r) \in Documents
         /\ Delta(r).email = IF draft[r].email = copy[r].email THEN doc.email ELSE draft[r].email
         /\ Delta(r).tmpEmail = IF draft[r].tmpEmail = copy[r].tmpEmail
                                  THEN doc.tmpEmail ELSE draft[r].tmpEmail
         /\ Delta(r).otp = IF draft[r].otp = copy[r].otp THEN doc.otp ELSE draft[r].otp
         /\ Delta(r).enabledNoti = IF draft[r].enabledNoti = copy[r].enabledNoti
                                     THEN doc.enabledNoti ELSE draft[r].enabledNoti
         /\ Delta(r).balance = IF draft[r].balance = copy[r].balance
                                 THEN doc.balance ELSE draft[r].balance
         /\ Delta(r).nonce = IF draft[r].nonce = copy[r].nonce THEN doc.nonce ELSE draft[r].nonce
  BY DEF TypeOK, Delta, Documents

LEMMA BlankTyped == Blank \in Documents /\ Blank.otp = 0 /\ Blank.email = NoEmail
  BY ProfileAssumption DEF Blank, Documents, ProfileAssumption

\* A handler that ends keeps the types of the handlers.
LEMMA EndTyped ==
  ASSUME TypeOK, NEW r \in Requests, NEW next \in {"idle", "mail"}, End(r, next)
  PROVE  /\ pc' \in [Requests -> {"idle", "save", "mail", "reply"}]
         /\ group' \in [Requests -> Groups]
         /\ copy' \in [Requests -> Documents]
         /\ draft' \in [Requests -> Documents]
  BY BlankTyped DEF TypeOK, End

LEMMA Element ==
  ASSUME NEW S, NEW s \in Seq(S), NEW i \in 1..Len(s)
  PROVE  s[i] \in S
  OBVIOUS

\* The mailed codes are among those generated, so an index of one is typed.
LEMMA MailedCode ==
  ASSUME TypeOK, Numbered, NEW o \in mailed
  PROVE  o \in 1..Len(codes) /\ codes[o].to \in Emails
<1>1. o \in 1..Len(codes)
  BY DEF Numbered
<1>2. codes \in Seq([to: Emails, at: 1..MaxTime])
  BY DEF TypeOK
<1>3. codes[o] \in [to: Emails, at: 1..MaxTime]
  BY <1>1, <1>2, Element
<1> QED
  BY <1>1, <1>3

\* A code appended leaves the others where they are.
LEMMA Appended ==
  ASSUME TypeOK, NEW e \in Emails, codes' = Append(codes, [to |-> e, at |-> clock])
  PROVE  /\ codes' \in Seq([to: Emails, at: 1..MaxTime])
         /\ Len(codes') = Len(codes) + 1
         /\ \A i \in 1..Len(codes) : codes'[i] = codes[i]
         /\ codes'[Len(codes) + 1].to = e
<1>1. [to |-> e, at |-> clock] \in [to: Emails, at: 1..MaxTime]
  BY DEF TypeOK
<1>2. codes \in Seq([to: Emails, at: 1..MaxTime])
  BY DEF TypeOK
<1> QED
  BY <1>1, <1>2

\* A load keeps the types, given a typed draft.
LEMMA LoadTyped ==
  ASSUME TypeOK, NEW r \in Requests, NEW g \in Groups, NEW changed \in Documents,
         Load(r, g, changed)
  PROVE  /\ clock' \in 1..MaxTime
         /\ doc' \in Documents
         /\ mailed' \in SUBSET Codes
         /\ pc' \in [Requests -> {"idle", "save", "mail", "reply"}]
         /\ group' \in [Requests -> Groups]
         /\ copy' \in [Requests -> Documents]
         /\ draft' \in [Requests -> Documents]
         /\ starts' \in 0..MaxStarts
         /\ awaited' \in 0..MaxStarts
         /\ kept' \in [enabledNoti: BOOLEAN, balance: 0..1]
         /\ issued' \in 0..MaxStarts /\ given' \in 0..MaxStarts
         /\ refused' \in BOOLEAN
         /\ overlapped' \in SUBSET Groups
  BY ProfileAssumption DEF TypeOK, Load, ProfileAssumption

-------------------------------------------------------------------------------
(* Types and numbering.                                                     *)

Bounded == TypeOK /\ Numbered /\ Hands

LEMMA InitBounded == Init => Bounded
<1> SUFFICES ASSUME Init PROVE Bounded
  OBVIOUS
<1>1. <<>> \in Seq([to: Emails, at: 1..MaxTime]) /\ Len(<<>>) = 0
  OBVIOUS
<1>2. TypeOK
  <2>1. 1 \in 1..MaxTime /\ 0 \in 0..MaxStarts
    BY ProfileAssumption DEF ProfileAssumption
  <2>2. /\ clock \in 1..MaxTime /\ doc \in Documents /\ mailed \in SUBSET Codes
        /\ codes \in Seq([to: Emails, at: 1..MaxTime])
        /\ starts \in 0..MaxStarts /\ awaited \in 0..MaxStarts /\ issued \in 0..MaxStarts /\ given \in 0..MaxStarts
    BY <1>1, <2>1, BlankTyped DEF Init
  <2>3. /\ pc \in [Requests -> {"idle", "save", "mail", "reply"}]
        /\ group \in [Requests -> Groups]
        /\ copy \in [Requests -> Documents] /\ draft \in [Requests -> Documents]
    BY BlankTyped DEF Init, Groups
  <2>4. uses \in [Codes -> Nat] /\ kept \in [enabledNoti: BOOLEAN, balance: 0..1]
    BY DEF Init
  <2>5. verified \in SUBSET Emails /\ refused \in BOOLEAN /\ overlapped \in SUBSET Groups
    BY DEF Init
  <2> QED
    BY <2>2, <2>3, <2>4, <2>5 DEF TypeOK
<1>3. Numbered /\ Hands
  BY <1>1, BlankTyped DEF Init, Numbered, Hands, Codes
<1> QED
  BY <1>2, <1>3 DEF Bounded

\* The drafts of the four requests are documents.
LEMMA Drafts ==
  ASSUME TypeOK, Numbered
  PROVE  /\ \A e \in Emails : starts < MaxStarts =>
               [doc EXCEPT !.otp = Len(codes) + 1, !.otpCreatedTime = clock, !.tmpEmail = e]
                 \in Documents
         /\ \A e \in Emails :
               [doc EXCEPT !.otp = 0, !.otpCreatedTime = 0, !.email = e, !.tmpEmail = NoEmail]
                 \in Documents
         /\ \A b \in BOOLEAN : [doc EXCEPT !.enabledNoti = b] \in Documents
         /\ \A n \in 0..1 : [doc EXCEPT !.balance = n] \in Documents
<1>1. Len(codes) \in Nat /\ clock \in 0..MaxTime /\ starts \in Int /\ MaxStarts \in Int
  BY ProfileAssumption DEF TypeOK, ProfileAssumption
<1>2. ASSUME NEW e \in Emails, starts < MaxStarts
      PROVE  [doc EXCEPT !.otp = Len(codes) + 1, !.otpCreatedTime = clock, !.tmpEmail = e]
               \in Documents
  <2>1. Len(codes) + 1 \in 0..MaxStarts
    BY <1>1, <1>2 DEF Numbered
  <2>2. [doc EXCEPT !.otp = Len(codes) + 1] \in Documents
    BY <2>1 DEF TypeOK, Documents
  <2> QED
    BY <1>1, <2>1, <2>2 DEF TypeOK, Documents
<1>3. ASSUME NEW e \in Emails
      PROVE  [doc EXCEPT !.otp = 0, !.otpCreatedTime = 0, !.email = e, !.tmpEmail = NoEmail]
               \in Documents
  <2>1. 0 \in 0..MaxStarts /\ 0 \in 0..MaxTime
    BY ProfileAssumption DEF ProfileAssumption
  <2> QED
    BY <2>1 DEF TypeOK, Documents
<1>4. ASSUME NEW b \in BOOLEAN
      PROVE  [doc EXCEPT !.enabledNoti = b] \in Documents
  BY DEF TypeOK, Documents
<1>5. ASSUME NEW n \in 0..1
      PROVE  [doc EXCEPT !.balance = n] \in Documents
  BY DEF TypeOK, Documents
<1> QED
  BY <1>2, <1>3, <1>4, <1>5

LEMMA VerifyBounded ==
  ASSUME Bounded, NEW r \in Requests, NEW e \in Emails, VerifyEmail(r, e)
  PROVE  Bounded'
<1> DEFINE new == [doc EXCEPT !.otp = Len(codes) + 1, !.otpCreatedTime = clock, !.tmpEmail = e]
<1> USE DEF Bounded
<1>1. Load(r, "email", new) /\ codes' = Append(codes, [to |-> e, at |-> clock])
        /\ UNCHANGED <<uses, verified>>
  BY DEF VerifyEmail
<1>2. new \in Documents
  BY <1>1, Drafts DEF Load
<1>3. TypeOK'
  BY <1>1, <1>2, LoadTyped, Appended DEF TypeOK, Groups
<1>4. /\ Len(codes) \in Nat /\ Len(codes') = Len(codes) + 1
      /\ \A i \in 1..Len(codes) : codes'[i] = codes[i]
      /\ codes'[Len(codes) + 1].to = e
  BY <1>1, Appended DEF TypeOK
<1>5. Numbered'
  <2>1. /\ starts' = starts + 1 /\ UNCHANGED <<mailed, uses, doc>>
        /\ starts \in Int /\ doc.otp \in Int /\ Codes \subseteq Int
    BY <1>1 DEF Load, TypeOK, Documents, Codes
  <2> QED
    BY <1>4, <2>1 DEF Numbered, Codes
<1>6. Asking(r)'
  <2>1. copy'[r] = doc /\ draft'[r] = new
    BY <1>1 DEF Load, TypeOK
  <2>2. /\ new.otp = Len(codes) + 1 /\ new.tmpEmail = e /\ new.email = doc.email
        /\ doc.otp \in Int
    BY DEF TypeOK, Documents
  <2> QED
    BY <1>4, <2>1, <2>2 DEF Asking, Numbered
<1>7. Held(r)'
  BY <1>1, <1>6 DEF Load, Held, TypeOK, Documents
<1>8. ASSUME NEW s \in Requests \ {r}, Held(s)
      PROVE  Held(s)'
  <2>1. pc'[s] = pc[s] /\ group'[s] = group[s] /\ copy'[s] = copy[s] /\ draft'[s] = draft[s]
    BY <1>1 DEF Load, TypeOK
  <2>2. Asking(s) => Asking(s)'
    BY <2>1, <1>4 DEF Asking
  <2>3. Confirming(s) => Confirming(s)'
    BY <2>1, <1>1, <1>4 DEF Confirming
  <2> QED
    BY <2>1, <2>2, <2>3, <1>8 DEF Held
<1>9. Hands'
  BY <1>1, <1>4, <1>7, <1>8 DEF Load, Hands, TypeOK
<1> QED
  BY <1>3, <1>5, <1>9

\* A load that generates no code.
LEMMA LoadBounded ==
  ASSUME Bounded, NEW r \in Requests, NEW g \in Groups, NEW changed \in Documents,
         Load(r, g, changed), UNCHANGED <<codes, uses>>,
         verified' \in SUBSET Emails, verified \subseteq verified', Held(r)'
  PROVE  Bounded'
<1> USE DEF Bounded
<1>1. TypeOK'
  BY LoadTyped DEF TypeOK
<1>2. Numbered'
  BY DEF Load, Numbered, TypeOK, Codes
<1>3. ASSUME NEW s \in Requests \ {r}, Held(s)
      PROVE  Held(s)'
  <2>1. group'[s] = group[s] /\ copy'[s] = copy[s] /\ draft'[s] = draft[s]
    BY DEF Load, TypeOK
  <2> QED
    BY <1>3, <2>1 DEF Held, Asking, Confirming
<1>4. Hands'
  BY <1>3 DEF Load, Hands, TypeOK
<1> QED
  BY <1>1, <1>2, <1>4

LEMMA UpdateEmailBounded ==
  ASSUME Bounded, NEW r \in Requests, NEW e \in Emails, NEW o \in mailed, UpdateEmail(r, e, o)
  PROVE  Bounded'
<1> DEFINE new == [doc EXCEPT !.otp = 0, !.otpCreatedTime = 0, !.email = e, !.tmpEmail = NoEmail]
<1> USE DEF Bounded
<1>1. /\ Load(r, "email", new) /\ verified' = verified \cup {codes[o].to}
      /\ UNCHANGED <<codes, uses>>
      /\ o = doc.otp /\ e = doc.tmpEmail
  BY DEF UpdateEmail, ValidOtp
<1>2. new \in Documents
  BY Drafts
<1>3. verified' \in SUBSET Emails /\ verified \subseteq verified'
  BY <1>1, MailedCode DEF TypeOK
<1>4. copy'[r] = doc /\ draft'[r] = new /\ group'[r] = "email"
  BY <1>1 DEF Load, TypeOK
<1>5. Confirming(r)'
  BY <1>1, <1>4, MailedCode DEF Confirming, TypeOK, Documents
<1>6. Held(r)'
  BY <1>4, <1>5 DEF Held, TypeOK, Documents
<1> QED
  BY <1>1, <1>2, <1>3, <1>6, LoadBounded DEF Groups

LEMMA UpdateBounded ==
  ASSUME Bounded, NEW r \in Requests, NEW b \in BOOLEAN, Update(r, b)
  PROVE  Bounded'
<1> DEFINE new == [doc EXCEPT !.enabledNoti = b]
<1> USE DEF Bounded
<1>1. Load(r, "enabledNoti", new) /\ UNCHANGED <<codes, uses, verified>>
  BY DEF Update
<1>2. new \in Documents
  BY Drafts
<1>3. copy'[r] = doc /\ draft'[r] = new /\ group'[r] = "enabledNoti"
  BY <1>1 DEF Load, TypeOK
<1>4. Held(r)'
  BY <1>3 DEF Held, TypeOK, Documents
<1> QED
  BY <1>1, <1>2, <1>4, LoadBounded DEF Groups, TypeOK

LEMMA RefreshBounded ==
  ASSUME Bounded, NEW r \in Requests, NEW n \in 0..1, Refresh(r, n)
  PROVE  Bounded'
<1> DEFINE new == [doc EXCEPT !.balance = n]
<1> USE DEF Bounded
<1>1. Load(r, "balance", new) /\ UNCHANGED <<codes, uses, verified>>
  BY DEF Refresh
<1>2. new \in Documents
  BY Drafts
<1>3. copy'[r] = doc /\ draft'[r] = new /\ group'[r] = "balance"
  BY <1>1 DEF Load, TypeOK
<1>4. Held(r)'
  BY <1>3 DEF Held, TypeOK, Documents
<1> QED
  BY <1>1, <1>2, <1>4, LoadBounded DEF Groups, TypeOK

\* What a step makes of a handler: it goes no more about saving ...
Settled(s) ==
    /\ pc'[s] # "save"
    /\ pc'[s] = "mail" => draft'[s].otp \in 1..Len(codes)
    /\ pc'[s] = "reply" => group'[s] = "nonce"

\* ... or the step is not its own.
Untouched(s) ==
    pc'[s] = pc[s] /\ group'[s] = group[s] /\ copy'[s] = copy[s] /\ draft'[s] = draft[s]

\* A step that ends handlers, or none, and brings no new code.
LEMMA SettleBounded ==
  ASSUME Bounded, TypeOK', UNCHANGED <<starts, codes, verified>>,
         mailed' \subseteq 1..Len(codes), doc'.otp \in 0..Len(codes),
         \A c \in Codes : c > Len(codes) => uses'[c] = uses[c],
         \A s \in Requests : Settled(s) \/ Untouched(s)
  PROVE  Bounded'
<1> USE DEF Bounded
<1>0. Len(codes) \in Nat
  BY DEF TypeOK
<1>1. Numbered'
  BY <1>0 DEF Numbered
<1>2. ASSUME NEW s \in Requests, Untouched(s), Held(s)
      PROVE  Held(s)'
  BY <1>2 DEF Held, Asking, Confirming, Untouched
<1>3. Hands'
  BY <1>2 DEF Hands, Settled, Untouched
<1> QED
  BY <1>1, <1>3

\* The document's code is one of those generated.
LEMMA Otp == ASSUME Bounded PROVE Len(codes) \in Nat /\ doc.otp \in 0..Len(codes)
  BY DEF Bounded, TypeOK, Numbered, Documents

LEMMA TickBounded == Bounded /\ Tick => Bounded'
<1> SUFFICES ASSUME Bounded, Tick PROVE Bounded'
  OBVIOUS
<1>1. TypeOK'
  BY ProfileAssumption DEF Bounded, Tick, TypeOK, handlerVars, ghostVars, ProfileAssumption
<1>2. \A s \in Requests : Untouched(s)
  BY DEF Tick, handlerVars, Untouched
<1> QED
  BY <1>1, <1>2, Otp, SettleBounded DEF Bounded, Tick, Numbered, ghostVars

LEMMA GetNonceBounded ==
  ASSUME Bounded, NEW r \in Requests, GetNonce(r)
  PROVE  Bounded'
<1> USE DEF Bounded
<1>1. starts + 1 \in 0..MaxStarts /\ starts \in Int /\ 0 \in 0..MaxStarts
  BY ProfileAssumption DEF GetNonce, TypeOK, ProfileAssumption
<1>2. doc' \in Documents /\ doc'.otp = doc.otp
  BY <1>1 DEF GetNonce, TypeOK, Documents
<1>3. draft' \in [Requests -> Documents]
  <2>1. [draft[r] EXCEPT !.nonce = starts + 1] \in Documents
    BY <1>1 DEF TypeOK, Documents
  <2>2. draft' = [draft EXCEPT ![r] = [draft[r] EXCEPT !.nonce = starts + 1]]
    BY DEF GetNonce
  <2> QED
    BY <2>1, <2>2 DEF TypeOK
<1>4. TypeOK'
  BY <1>1, <1>2, <1>3 DEF GetNonce, TypeOK, Groups
<1>5. Numbered'
  BY <1>1, <1>2 DEF GetNonce, Numbered, TypeOK
<1>6. ASSUME NEW s \in Requests, s # r
      PROVE  pc'[s] = pc[s] /\ group'[s] = group[s] /\ copy'[s] = copy[s] /\ draft'[s] = draft[s]
  BY <1>6 DEF GetNonce, TypeOK
<1>7. ASSUME NEW s \in Requests, s # r, Held(s)
      PROVE  Held(s)'
  BY <1>6, <1>7 DEF GetNonce, Held, Asking, Confirming
<1>8. pc'[r] = "reply" /\ group'[r] = "nonce"
  BY DEF GetNonce, TypeOK
<1>9. Hands'
  BY <1>6, <1>7, <1>8 DEF GetNonce, Hands
<1> QED
  BY <1>4, <1>5, <1>9

LEMMA AnsweredBounded ==
  ASSUME Bounded, NEW r \in Requests, GiveNonce(r) \/ LoseNonce(r)
  PROVE  Bounded'
<1> USE DEF GiveNonce, LoseNonce, Answered
<1>1. TypeOK'
  <2>1. draft[r] \in Documents /\ draft[r].nonce \in 0..MaxStarts
    BY DEF Bounded, TypeOK, Documents
  <2>2. draft' \in [Requests -> Documents] /\ given' \in 0..MaxStarts
    BY <2>1, BlankTyped DEF Bounded, TypeOK
  <2>3. pc' \in [Requests -> {"idle", "save", "mail", "reply"}]
    BY DEF Bounded, TypeOK
  <2> QED
    BY <2>2, <2>3 DEF Bounded, TypeOK
<1>2. Settled(r) /\ \A s \in Requests \ {r} : Untouched(s)
  BY DEF Bounded, TypeOK, Settled, Untouched
<1> QED
  BY <1>1, <1>2, Otp, SettleBounded DEF Bounded, Numbered

LEMMA LoginBounded == Bounded /\ LoginEVM => Bounded'
<1> SUFFICES ASSUME Bounded, LoginEVM PROVE Bounded'
  OBVIOUS
<1>1. TypeOK'
  BY DEF Bounded, LoginEVM, TypeOK, handlerVars
<1>2. \A s \in Requests : Untouched(s)
  BY DEF LoginEVM, handlerVars, Untouched
<1> QED
  BY <1>1, <1>2, Otp, SettleBounded DEF Bounded, LoginEVM, Numbered

\* What End leaves of the handlers.
LEMMA Ended ==
  ASSUME TypeOK, NEW r \in Requests, NEW next, End(r, next)
  PROVE  /\ pc'[r] = next /\ group' = group
         /\ next = "mail" => draft'[r] = draft[r]
         /\ \A s \in Requests \ {r} : /\ pc'[s] = pc[s] /\ copy'[s] = copy[s]
                                       /\ draft'[s] = draft[s]
  BY DEF TypeOK, End

\* A handler that saves either asks for a code or confirms one, if it is
\* about the address at all.
LEMMA Role ==
  ASSUME Bounded, NEW r \in Requests, pc[r] = "save"
  PROVE  /\ Asks(r) <=> group[r] = "email" /\ Asking(r)
         /\ Confirms(r) <=> group[r] = "email" /\ Confirming(r)
         /\ group[r] = "email" => Asks(r) \/ Confirms(r)
         /\ Held(r)
<1>1. Held(r)
  BY DEF Bounded, Hands
<1>2. draft[r] \in Documents /\ copy[r] \in Documents
  BY DEF Bounded, TypeOK
<1>3. draft[r].otp \in Int /\ copy[r].otp \in Int
  BY <1>2 DEF Documents
<1>4. Asking(r) => draft[r].otp \notin {0, copy[r].otp}
  BY <1>3 DEF Asking
<1>5. Confirming(r) => draft[r].otp = 0
  BY DEF Confirming
<1> QED
  BY <1>1, <1>4, <1>5 DEF Held, Asks, Confirms

LEMMA SaveBounded ==
  ASSUME Bounded, NEW r \in Requests, Save(r)
  PROVE  Bounded'
<1> USE DEF Bounded
<1> DEFINE next == IF Asks(r) THEN "mail" ELSE "idle"
<1>1. pc[r] = "save" /\ End(r, next) /\ doc' = Delta(r)
        /\ UNCHANGED <<clock, mailed, starts, codes, verified, issued, given, refused, overlapped>>
  BY DEF Save
<1>2. /\ Asks(r) <=> group[r] = "email" /\ Asking(r)
      /\ Confirms(r) <=> group[r] = "email" /\ Confirming(r)
      /\ Held(r)
  BY <1>1, Role
<1>3. /\ draft[r] \in Documents /\ copy[r] \in Documents /\ group[r] \in Groups
      /\ Len(codes) \in Nat /\ Len(codes) <= MaxStarts
  <2>1. Len(codes) \in Nat /\ starts \in 0..MaxStarts
    BY DEF TypeOK
  <2>2. Len(codes) <= MaxStarts
    BY <2>1, ProfileAssumption DEF Numbered, ProfileAssumption
  <2> QED
    BY <2>1, <2>2 DEF TypeOK
<1>4. doc'.otp \in 0..Len(codes)
  <2>1. draft[r].otp # copy[r].otp => draft[r].otp \in 0..Len(codes)
    BY <1>2, <1>3 DEF Held, Asking, Confirming, Groups
  <2> QED
    BY <1>1, <2>1, DeltaFields, Otp
<1>5. awaited' \in 0..MaxStarts
  BY <1>3, ProfileAssumption DEF Save, TypeOK, Documents, ProfileAssumption
<1>6. uses' \in [Codes -> Nat] /\ \A c \in Codes : c > Len(codes) => uses'[c] = uses[c]
  <2>1. CASE Confirms(r)
    <3>1. copy[r].otp \in 1..Len(codes) /\ copy[r].otp \in Codes
      BY <1>2, <1>3, <2>1, ProfileAssumption DEF Confirming, Codes, ProfileAssumption
    <3>2. uses' = [uses EXCEPT ![copy[r].otp] = @ + 1] /\ uses \in [Codes -> Nat]
      BY <1>3, <2>1 DEF Save, TypeOK
    <3>3. \A c \in Codes : c > Len(codes) => c # copy[r].otp
      BY <3>1 DEF Codes
    <3> QED
      BY <3>1, <3>2, <3>3
  <2>2. CASE ~Confirms(r)
    BY <2>2 DEF Save, TypeOK
  <2> QED
    BY <2>1, <2>2
<1>7. kept' \in [enabledNoti: BOOLEAN, balance: 0..1]
  <2>1. CASE group[r] = "email"
    BY <2>1 DEF Save, TypeOK
  <2>2. CASE group[r] = "enabledNoti"
    BY <1>3, <2>2 DEF Save, TypeOK, Documents
  <2>3. CASE group[r] = "balance"
    BY <1>3, <2>3 DEF Save, TypeOK, Documents
  <2> QED
    BY <1>2, <1>3, <2>1, <2>2, <2>3 DEF Held, Groups
<1>8. TypeOK'
  BY <1>1, <1>5, <1>6, <1>7, EndTyped, DeltaFields DEF TypeOK
<1>9. /\ pc'[r] = next /\ group' = group
      /\ next = "mail" => draft'[r] = draft[r]
      /\ \A s \in Requests \ {r} : /\ pc'[s] = pc[s] /\ copy'[s] = copy[s]
                                    /\ draft'[s] = draft[s]
  BY <1>1, Ended
<1>10. Settled(r)
  BY <1>2, <1>9 DEF Asking, Settled
<1>11. \A s \in Requests \ {r} : Untouched(s)
  BY <1>9 DEF Untouched
<1> QED
  BY <1>1, <1>4, <1>6, <1>8, <1>10, <1>11, SettleBounded DEF Numbered

\* A handler that ends without a save.
LEMMA EndBounded ==
  ASSUME Bounded, NEW r \in Requests, End(r, "idle"),
         UNCHANGED <<clock, doc, ghostVars>>, mailed' \subseteq 1..Len(codes)
  PROVE  Bounded'
<1>1. mailed' \in SUBSET Codes
  <2>1. Len(codes) \in Nat /\ starts \in 0..MaxStarts /\ Len(codes) <= starts
    BY DEF Bounded, TypeOK, Numbered
  <2> QED
    BY <2>1, ProfileAssumption DEF Codes, ProfileAssumption
<1>2. TypeOK'
  BY <1>1, EndTyped DEF Bounded, TypeOK, ghostVars
<1>3. Settled(r) /\ \A s \in Requests \ {r} : Untouched(s)
  BY Ended DEF Bounded, Settled, Untouched
<1> QED
  BY <1>2, <1>3, Otp, SettleBounded DEF Bounded, ghostVars

LEMMA CrashBounded == Bounded /\ Crash => Bounded'
<1> SUFFICES ASSUME Bounded, Crash PROVE Bounded'
  OBVIOUS
<1>1. TypeOK'
  BY BlankTyped DEF Bounded, Crash, TypeOK, ghostVars
<1>2. \A s \in Requests : Settled(s)
  BY DEF Crash, Settled
<1> QED
  BY <1>1, <1>2, Otp, SettleBounded DEF Bounded, Crash, Numbered, ghostVars

LEMMA NextBounded == Bounded /\ [Next]_vars => Bounded'
<1> SUFFICES ASSUME Bounded, [Next]_vars PROVE Bounded'
  OBVIOUS
<1>1. ASSUME NEW r \in Requests, SendEmailOtp(r) PROVE Bounded'
  BY <1>1, EndBounded DEF SendEmailOtp, Bounded, Numbered, Hands
<1>2. ASSUME NEW r \in Requests, SaveFails(r) PROVE Bounded'
  BY <1>2, EndBounded DEF SaveFails, Bounded, Numbered
<1>3. CASE UNCHANGED vars
  <2>1. TypeOK'
    BY <1>3 DEF Bounded, TypeOK, vars, handlerVars, ghostVars
  <2>2. \A s \in Requests : Untouched(s)
    BY <1>3 DEF vars, handlerVars, Untouched
  <2> QED
    BY <1>3, <2>1, <2>2, Otp, SettleBounded DEF Bounded, Numbered, vars, ghostVars
<1> QED
  BY <1>1, <1>2, <1>3, TickBounded, VerifyBounded, UpdateEmailBounded, UpdateBounded,
     RefreshBounded, GetNonceBounded, AnsweredBounded, SaveBounded, LoginBounded, CrashBounded
     DEF Next

\* Every variable keeps its type, whatever handlers run side by side.
THEOREM TypeCorrect == Spec => []TypeOK
<1>1. Bounded => TypeOK
  BY DEF Bounded
<1> QED
  BY <1>1, InitBounded, NextBounded, PTL DEF Spec

-------------------------------------------------------------------------------
(* What holds without overlap.                                              *)

LEMMA InitCare == Init => Care
  BY BlankTyped DEF Init, Care, Alone, Fresh, Unused, NonceKept, EmailVerifiedUnlessOverlap,
     EmailVerified, CodeUsedOnce, CodeAwaited, SettingsKept, Blank

\* A load disturbs nothing: the document stays, and the copy shows it.
LEMMA LoadCare ==
  ASSUME Bounded, Care, NEW r \in Requests, NEW g \in Groups \ {"nonce"},
         NEW changed \in Documents, Load(r, g, changed),
         UNCHANGED uses, verified \subseteq verified',
         \A i \in 1..Len(codes) : codes'[i] = codes[i],
         changed.otp \notin {0, doc.otp} => uses[changed.otp] = 0
  PROVE  Care'
<1> USE DEF Care
<1>1. /\ overlapped \subseteq overlapped' /\ starts < MaxStarts
      /\ UNCHANGED <<doc, awaited, kept, issued, given, refused>>
      /\ pc[r] = "idle" /\ pc'[r] = "save" /\ group'[r] = g
      /\ copy'[r] = doc /\ draft'[r] = changed
      /\ \A s \in Requests \ {r} : Untouched(s)
  BY DEF Load, Bounded, TypeOK, Untouched
<1>2. Alone'
  <2>1. ASSUME NEW s \in Requests \ {r}, pc[s] = "save", group[s] = g
        PROVE  g \in overlapped'
    BY <2>1 DEF Load
  <2> QED
    BY <1>1, <2>1 DEF Alone, Untouched
<1>3. Fresh'
  BY <1>1 DEF Fresh, Untouched
<1>4. Unused'
  <2>1. \A s \in Requests \ {r} : Asks(s)' <=> Asks(s)
    BY <1>1 DEF Asks, Untouched
  <2>2. Asks(r)' => changed.otp \notin {0, doc.otp}
    BY <1>1 DEF Asks
  <2> QED
    BY <1>1, <2>1, <2>2 DEF Unused, Untouched
<1>5. NonceKept'
  BY <1>1 DEF NonceKept, Untouched
<1>6. EmailVerifiedUnlessOverlap' /\ CodeUsedOnce' /\ SettingsKept'
  BY <1>1 DEF EmailVerifiedUnlessOverlap, EmailVerified, CodeUsedOnce, SettingsKept
<1>7. CodeAwaited'
  BY <1>1, Otp DEF CodeAwaited
<1> QED
  BY <1>2, <1>3, <1>4, <1>5, <1>6, <1>7

LEMMA VerifyCare ==
  ASSUME Bounded, Care, NEW r \in Requests, NEW e \in Emails, VerifyEmail(r, e)
  PROVE  Care'
<1> DEFINE new == [doc EXCEPT !.otp = Len(codes) + 1, !.otpCreatedTime = clock, !.tmpEmail = e]
<1>1. Load(r, "email", new) /\ codes' = Append(codes, [to |-> e, at |-> clock])
        /\ UNCHANGED <<uses, verified>>
  BY DEF VerifyEmail
<1>2. new \in Documents /\ \A i \in 1..Len(codes) : codes'[i] = codes[i]
  BY <1>1, Drafts, Appended DEF Load, Bounded
<1>3. new.otp = Len(codes) + 1
  BY DEF Bounded, TypeOK, Documents
<1>4. Len(codes) + 1 \in Codes
  <2>1. Len(codes) \in Nat /\ starts \in 0..MaxStarts /\ Len(codes) <= starts
    BY DEF Bounded, TypeOK, Numbered
  <2>2. starts < MaxStarts
    BY <1>1 DEF Load
  <2> QED
    BY <2>1, <2>2, ProfileAssumption DEF Codes, ProfileAssumption
<1>5. uses[Len(codes) + 1] = 0
  BY <1>4 DEF Bounded, Numbered, Codes
<1> QED
  BY <1>1, <1>2, <1>3, <1>5, LoadCare DEF Groups

LEMMA UpdateEmailCare ==
  ASSUME Bounded, Care, NEW r \in Requests, NEW e \in Emails, NEW o \in mailed,
         UpdateEmail(r, e, o)
  PROVE  Care'
<1> DEFINE new == [doc EXCEPT !.otp = 0, !.otpCreatedTime = 0, !.email = e, !.tmpEmail = NoEmail]
<1>1. Load(r, "email", new) /\ UNCHANGED <<codes, uses>> /\ verified \subseteq verified'
  BY DEF UpdateEmail
<1>2. new \in Documents /\ new.otp = 0
  BY Drafts DEF Bounded, TypeOK, Documents
<1> QED
  BY <1>1, <1>2, LoadCare DEF Groups

LEMMA UpdateCare ==
  ASSUME Bounded, Care, NEW r \in Requests, NEW b \in BOOLEAN, Update(r, b)
  PROVE  Care'
<1> DEFINE new == [doc EXCEPT !.enabledNoti = b]
<1>1. new \in Documents /\ new.otp = doc.otp
  BY Drafts DEF Bounded, TypeOK, Documents
<1> QED
  BY <1>1, LoadCare DEF Update, Groups

LEMMA RefreshCare ==
  ASSUME Bounded, Care, NEW r \in Requests, NEW n \in 0..1, Refresh(r, n)
  PROVE  Care'
<1> DEFINE new == [doc EXCEPT !.balance = n]
<1>1. new \in Documents /\ new.otp = doc.otp
  BY Drafts DEF Bounded, TypeOK, Documents
<1> QED
  BY <1>1, LoadCare DEF Refresh, Groups

\* A nonce replaces the one before; the other fields stay.
LEMMA GetNonceCare ==
  ASSUME Bounded, Care, NEW r \in Requests, GetNonce(r)
  PROVE  Care'
<1> USE DEF Care
<1>1. /\ UNCHANGED <<codes, awaited, uses, verified, kept, refused, overlapped>>
      /\ pc[r] = "idle" /\ pc'[r] = "reply" /\ issued' = starts + 1
      /\ \A s \in Requests \ {r} : Untouched(s)
  BY DEF GetNonce, Bounded, TypeOK, Untouched
<1>2. /\ doc'.email = doc.email /\ doc'.tmpEmail = doc.tmpEmail /\ doc'.otp = doc.otp
      /\ doc'.enabledNoti = doc.enabledNoti /\ doc'.balance = doc.balance
      /\ doc'.nonce = starts + 1
  BY DEF GetNonce, Bounded, TypeOK, Documents
<1>4. Alone'
  BY <1>1 DEF Alone, Untouched
<1>5. Fresh'
  BY <1>1, <1>2 DEF Fresh, Untouched
<1>6. Unused'
  <2>1. \A s \in Requests \ {r} : Asks(s)' <=> Asks(s)
    BY <1>1 DEF Asks, Untouched
  <2> QED
    BY <1>1, <1>2, <2>1 DEF Unused, Untouched
<1>7. NonceKept'
  BY <1>1, <1>2 DEF NonceKept
<1>8. EmailVerifiedUnlessOverlap' /\ CodeUsedOnce' /\ CodeAwaited'
  BY <1>1, <1>2 DEF EmailVerifiedUnlessOverlap, EmailVerified, CodeUsedOnce, CodeAwaited
<1>9. SettingsKept'
  BY <1>1, <1>2 DEF SettingsKept
<1> QED
  BY <1>4, <1>5, <1>6, <1>7, <1>8, <1>9

\* A step that leaves the document and its history alone.
LEMMA QuietCare ==
  ASSUME Care, NonceKept', UNCHANGED <<doc, codes, awaited, uses, verified, kept, overlapped>>,
         \A s \in Requests : Untouched(s) \/ pc'[s] \in {"idle", "mail"}
  PROVE  Care'
<1> USE DEF Care
<1>1. Alone' /\ Fresh'
  BY DEF Alone, Fresh, Untouched
<1>2. Unused'
  <2>1. \A s \in Requests : Untouched(s) => (Asks(s)' <=> Asks(s))
    BY DEF Asks, Untouched
  <2> QED
    BY <2>1 DEF Unused, Untouched
<1>3. EmailVerifiedUnlessOverlap' /\ CodeUsedOnce' /\ CodeAwaited' /\ SettingsKept'
  BY DEF EmailVerifiedUnlessOverlap, EmailVerified, CodeUsedOnce, CodeAwaited, SettingsKept
<1> QED
  BY <1>1, <1>2, <1>3

LEMMA AnsweredCare ==
  ASSUME Bounded, Care, NEW r \in Requests, GiveNonce(r) \/ LoseNonce(r)
  PROVE  Care'
<1> USE DEF GiveNonce, LoseNonce, Answered
<1>1. pc'[r] = "idle" /\ \A s \in Requests \ {r} : Untouched(s)
  BY DEF Bounded, TypeOK, Untouched
<1>2. NonceKept'
  BY DEF Care, NonceKept
<1> QED
  BY <1>1, <1>2, QuietCare

LEMMA LoginCare == Care /\ LoginEVM => Care'
<1> SUFFICES ASSUME Care, LoginEVM PROVE Care'
  OBVIOUS
<1>1. \A s \in Requests : Untouched(s)
  BY DEF LoginEVM, handlerVars, Untouched
<1>2. NonceKept'
  BY DEF LoginEVM, Care, NonceKept
<1> QED
  BY <1>1, <1>2, QuietCare DEF LoginEVM

\* A step that ends handlers and changes nothing else.
LEMMA EndCare ==
  ASSUME Care, UNCHANGED <<doc, ghostVars>>,
         \A s \in Requests : Untouched(s) \/ pc'[s] = "idle"
  PROVE  Care'
<1>1. NonceKept'
  BY DEF Care, NonceKept, ghostVars
<1> QED
  BY <1>1, QuietCare DEF ghostVars

\* What a save does, by the group of the handler: the fields of the group get
\* what the handler meant, if they are still as it loaded them, and the other
\* fields stay.
LEMMA SaveFields ==
  ASSUME Bounded, Fresh, NEW r \in Requests, Save(r)
  PROVE  /\ doc'.nonce = doc.nonce
         /\ group[r] # "email" => /\ doc'.email = doc.email /\ doc'.tmpEmail = doc.tmpEmail
                                  /\ doc'.otp = doc.otp
         /\ group[r] # "enabledNoti" => doc'.enabledNoti = doc.enabledNoti
         /\ group[r] # "balance" => doc'.balance = doc.balance
         /\ group[r] = "email" /\ "email" \notin overlapped =>
               /\ doc'.email = draft[r].email /\ doc'.tmpEmail = draft[r].tmpEmail
               /\ doc'.otp = draft[r].otp
         /\ group[r] = "enabledNoti" /\ "enabledNoti" \notin overlapped =>
               doc'.enabledNoti = draft[r].enabledNoti
         /\ group[r] = "balance" /\ "balance" \notin overlapped =>
               doc'.balance = draft[r].balance
<1>1. Held(r) /\ pc[r] = "save" /\ doc' = Delta(r)
  BY DEF Bounded, Hands, Save
<1>2. TypeOK
  BY DEF Bounded
<1> QED
  BY <1>1, <1>2, DeltaFields DEF Held, Fresh

LEMMA SaveCare ==
  ASSUME Bounded, Care, NEW r \in Requests, Save(r)
  PROVE  Care'
<1> USE DEF Care
<1>1. /\ pc[r] = "save" /\ pc'[r] \in {"idle", "mail"} /\ group' = group
      /\ \A s \in Requests \ {r} : Untouched(s)
      /\ UNCHANGED <<starts, codes, verified, issued, given, refused, overlapped>>
  BY Ended DEF Save, Bounded, Untouched
<1>2. /\ Asks(r) <=> group[r] = "email" /\ Asking(r)
      /\ Confirms(r) <=> group[r] = "email" /\ Confirming(r)
      /\ group[r] = "email" => Asks(r) \/ Confirms(r)
      /\ Held(r)
  BY <1>1, Role
\* No other handler of the group is about to save, unless they overlapped.
<1>3. \A s \in Requests \ {r} :
          pc'[s] = "save" /\ group[s] = group[r] => group[r] \in overlapped
  BY <1>1 DEF Alone, Untouched
<1>4. Alone'
  BY <1>1 DEF Alone, Untouched
<1>5. Fresh'
  <2>1. ASSUME NEW s \in Requests \ {r}, pc'[s] = "save", group[s] \notin overlapped
        PROVE  group[s] # group[r]
    BY <1>3, <2>1
  <2> QED
    BY <1>1, <2>1, SaveFields DEF Fresh, Untouched
<1>6. NonceKept'
  BY <1>1, SaveFields DEF NonceKept, Untouched
\* The e-mail address, when no two requests about it overlapped.
<1>7. ASSUME "email" \in overlapped
      PROVE  Unused' /\ EmailVerifiedUnlessOverlap' /\ CodeUsedOnce' /\ CodeAwaited'
  BY <1>1, <1>7 DEF Unused, EmailVerifiedUnlessOverlap, CodeUsedOnce, CodeAwaited
<1>8. ASSUME "email" \notin overlapped /\ group[r] # "email"
      PROVE  Unused' /\ EmailVerifiedUnlessOverlap' /\ CodeUsedOnce' /\ CodeAwaited'
  <2>1. /\ UNCHANGED <<awaited, uses>>
        /\ doc'.email = doc.email /\ doc'.tmpEmail = doc.tmpEmail /\ doc'.otp = doc.otp
    BY <1>2, <1>8, SaveFields DEF Save
  <2>2. \A s \in Requests \ {r} : Asks(s)' <=> Asks(s)
    BY <1>1 DEF Asks, Untouched
  <2>3. Unused'
    BY <1>1, <1>8, <2>1, <2>2 DEF Unused, Untouched
  <2> QED
    BY <1>1, <2>1, <2>3 DEF EmailVerifiedUnlessOverlap, EmailVerified, CodeUsedOnce, CodeAwaited
<1>9. ASSUME "email" \notin overlapped /\ group[r] = "email"
      PROVE  Unused' /\ EmailVerifiedUnlessOverlap' /\ CodeUsedOnce' /\ CodeAwaited'
  <2>1. /\ doc'.email = draft[r].email /\ doc'.tmpEmail = draft[r].tmpEmail
        /\ doc'.otp = draft[r].otp
        /\ copy[r].email = doc.email /\ copy[r].tmpEmail = doc.tmpEmail /\ copy[r].otp = doc.otp
    BY <1>1, <1>9, SaveFields DEF Fresh
  <2>2. \A s \in Requests : pc'[s] = "save" => ~Asks(s)'
    BY <1>1, <1>3, <1>9 DEF Asks
  <2>3. CASE Asks(r)
    <3>1. /\ awaited' = draft[r].otp /\ UNCHANGED uses
          /\ uses[draft[r].otp] = 0
          /\ draft[r].email = doc.email /\ draft[r].tmpEmail = codes[draft[r].otp].to
      BY <1>1, <1>2, <1>9, <2>1, <2>3 DEF Save, Asking, Unused, Asks, Confirms
    <3>2. Unused'
      BY <2>1, <2>2, <3>1 DEF Unused
    <3> QED
      BY <1>1, <2>1, <3>1, <3>2
         DEF EmailVerifiedUnlessOverlap, EmailVerified, CodeUsedOnce, CodeAwaited
  <2>4. CASE Confirms(r)
    <3>1. /\ awaited' = 0 /\ uses' = [uses EXCEPT ![doc.otp] = @ + 1]
          /\ doc.otp # 0 /\ draft[r].otp = 0
          /\ draft[r].email = doc.tmpEmail /\ codes[doc.otp].to \in verified
      BY <1>2, <1>9, <2>1, <2>4 DEF Save, Confirming, Confirms
    <3>2. uses[doc.otp] = 0 /\ uses \in [Codes -> Nat]
      BY <1>9, <3>1 DEF Unused, Bounded, TypeOK
    <3>3. doc.tmpEmail = codes[doc.otp].to
      BY <1>9, <3>1 DEF CodeAwaited
    <3>4. CodeUsedOnce'
      BY <1>9, <3>1, <3>2 DEF CodeUsedOnce
    <3>5. Unused'
      BY <2>1, <2>2, <3>1 DEF Unused
    <3>6. EmailVerifiedUnlessOverlap' /\ CodeAwaited'
      BY <1>1, <2>1, <3>1, <3>3 DEF EmailVerifiedUnlessOverlap, EmailVerified, CodeAwaited
    <3> QED
      BY <3>4, <3>5, <3>6
  <2> QED
    BY <1>2, <1>9, <2>3, <2>4
\* The flag and the balance.
<1>10. SettingsKept'
  <2>1. kept \in [enabledNoti: BOOLEAN, balance: 0..1] /\ group[r] \in Groups
    BY DEF Bounded, TypeOK
  <2>2. CASE group[r] = "email"
    BY <1>1, <2>2, SaveFields DEF Save, SettingsKept
  <2>3. CASE group[r] = "enabledNoti"
    <3>1. kept'.enabledNoti = draft[r].enabledNoti /\ kept'.balance = kept.balance
      BY <2>1, <2>3 DEF Save
    <3> QED
      BY <1>1, <2>3, <3>1, SaveFields DEF SettingsKept
  <2>4. CASE group[r] = "balance"
    <3>1. kept'.balance = draft[r].balance /\ kept'.enabledNoti = kept.enabledNoti
      BY <2>1, <2>4 DEF Save
    <3> QED
      BY <1>1, <2>4, <3>1, SaveFields DEF SettingsKept
  <2> QED
    BY <1>2, <2>1, <2>2, <2>3, <2>4 DEF Held, Groups
<1>11. Unused' /\ EmailVerifiedUnlessOverlap' /\ CodeUsedOnce' /\ CodeAwaited'
  BY <1>7, <1>8, <1>9
<1> QED
  BY <1>4, <1>5, <1>6, <1>10, <1>11

LEMMA NextCare == Bounded /\ Care /\ [Next]_vars => Care'
<1> SUFFICES ASSUME Bounded, Care, [Next]_vars PROVE Care'
  OBVIOUS
<1>1. ASSUME NEW r \in Requests, End(r, "idle"), UNCHANGED <<doc, ghostVars>> PROVE Care'
  <2>1. pc'[r] = "idle" /\ \A s \in Requests \ {r} : Untouched(s)
    BY <1>1, Ended DEF Bounded, Untouched
  <2> QED
    BY <1>1, <2>1, EndCare
<1>2. ASSUME NEW r \in Requests, SendEmailOtp(r) \/ SaveFails(r) PROVE Care'
  BY <1>1, <1>2 DEF SendEmailOtp, SaveFails
<1>3. CASE Crash
  BY <1>3, EndCare DEF Crash
<1>4. CASE Tick \/ UNCHANGED vars
  <2>1. \A s \in Requests : Untouched(s)
    BY <1>4 DEF Tick, vars, handlerVars, Untouched
  <2> QED
    BY <1>4, <2>1, EndCare DEF Tick, vars
<1> QED
  BY <1>2, <1>3, <1>4, VerifyCare, UpdateEmailCare, UpdateCare, RefreshCare, GetNonceCare,
     AnsweredCare, LoginCare, SaveCare DEF Next

LEMMA Carefully == Spec => [](Bounded /\ Care)
<1>1. Init => Bounded /\ Care
  BY InitBounded, InitCare
<1>2. Bounded /\ Care /\ [Next]_vars => (Bounded /\ Care)'
  BY NextBounded, NextCare
<1> QED
  BY <1>1, <1>2, PTL DEF Spec

\* updateEmail writes an address only on a code mailed to that address,
\* unless two requests about the address overlapped.
THEOREM AddressVerified == Spec => []EmailVerifiedUnlessOverlap
<1>1. Care => EmailVerifiedUnlessOverlap
  BY DEF Care
<1> QED
  BY <1>1, Carefully, PTL

\* A code mailed by verifyEmail is used up by the first updateEmail that
\* presents it, on the same condition.
THEOREM CodeOnce == Spec => []CodeUsedOnce
<1>1. Care => CodeUsedOnce
  BY DEF Care
<1> QED
  BY <1>1, Carefully, PTL

\* The code the document holds is the one verifyEmail made last, with its
\* address, until updateEmail takes it, on the same condition.
THEOREM CodeHeld == Spec => []CodeAwaited
<1>1. Care => CodeAwaited
  BY DEF Care
<1> QED
  BY <1>1, Carefully, PTL

\* Mongoose's save of one field never undoes the save of another: the flag
\* and the balance are those saved last, unless two requests for the same
\* field overlapped.
THEOREM SettingsSafe == Spec => []SettingsKept
<1>1. Care => SettingsKept
  BY DEF Care
<1> QED
  BY <1>1, Carefully, PTL

\* loginEVM accepts the nonce getNonce issued last, whatever handlers load and
\* save around it: only a later nonce makes it refuse the owner's.
THEOREM OwnerLogsIn == Spec => []LoginAccepted
<1>1. Care => LoginAccepted
  BY DEF Care, NonceKept, LoginAccepted
<1> QED
  BY <1>1, Carefully, PTL
===============================================================================
