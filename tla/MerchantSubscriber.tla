--------------------------- MODULE MerchantSubscriber ---------------------------
(***************************************************************************)
(* MerchantSubscriberService.saveMerchantSubscriber: a request looks its   *)
(* contact up in the collection and, if nobody has it, inserts it.  Two    *)
(* awaits, no unique index, no lock.                                       *)
(*                                                                         *)
(* An e-mail address goes before a Telegram name.  A request with neither, *)
(* both being optional, asks MongoDB for a document whose telegramId is    *)
(* undefined, that is for any document without one.                        *)
(***************************************************************************)
EXTENDS Integers, Sequences

CONSTANTS
    Requests,     \* handlers under way at a time
    Emails,
    TelegramIds,
    None,         \* a field that is not there
    MaxDocuments  \* bound: documents in the collection

ASSUME SubscriberAssumption ==
    /\ None \notin Emails \cup TelegramIds
    /\ MaxDocuments \in Nat

Subscribers == [email: Emails \cup {None}, telegramId: TelegramIds \cup {None}]

VARIABLES
    documents,  \* the collection, in order of insertion
    pc,
    payload,    \* the e-mail address and the Telegram name of a request
    overlapped  \* ghost: subscribers two requests were about at a time

vars == <<documents, pc, payload, overlapped>>

\* What is inserted for a payload: the Telegram name only without an address.
Subscriber(p) == IF p.email # None THEN [p EXCEPT !.telegramId = None] ELSE p

TypeOK ==
    /\ \E n \in 0..MaxDocuments :
          documents \in [1..n -> {Subscriber(p) : p \in Subscribers}]
    /\ pc \in [Requests -> {"idle", "find", "create"}]
    /\ payload \in [Requests -> Subscribers]
    /\ overlapped \in SUBSET Subscribers

Init ==
    /\ documents = <<>>
    /\ pc = [r \in Requests |-> "idle"]
    /\ payload = [r \in Requests |-> [email |-> None, telegramId |-> None]]
    /\ overlapped = {}

Register(r, p) ==
    /\ pc[r] = "idle"
    /\ pc' = [pc EXCEPT ![r] = "find"]
    /\ payload' = [payload EXCEPT ![r] = p]
    /\ overlapped' = IF \E s \in Requests : /\ pc[s] # "idle"
                                             /\ Subscriber(payload[s]) = Subscriber(p)
                       THEN overlapped \cup {Subscriber(p)}
                       ELSE overlapped
    /\ UNCHANGED documents

End(r) ==
    /\ pc' = [pc EXCEPT ![r] = "idle"]
    /\ payload' = [payload EXCEPT ![r] = [email |-> None, telegramId |-> None]]
    /\ UNCHANGED overlapped

\* Mutant: the lookup always goes by the Telegram name.
Matches_TelegramId(d, p) == d.telegramId = p.telegramId

\* findOne({ email }) or findOne({ telegramId }); an undefined telegramId
\* matches a document that has none.
Matches(d, p) ==
    IF p.email # None THEN d.email = p.email ELSE d.telegramId = p.telegramId

Find(r) ==
    /\ pc[r] = "find"
    /\ ~ \E i \in DOMAIN documents : Matches(documents[i], payload[r])
    /\ pc' = [pc EXCEPT ![r] = "create"]
    /\ UNCHANGED <<documents, payload, overlapped>>

\* ConflictException("merchant_subscribe_already_exists").
Conflict(r) ==
    /\ pc[r] = "find"
    /\ \E i \in DOMAIN documents : Matches(documents[i], payload[r])
    /\ End(r)
    /\ UNCHANGED documents

Create(r) ==
    /\ pc[r] = "create"
    /\ Len(documents) < MaxDocuments
    /\ documents' = Append(documents, Subscriber(payload[r]))
    /\ End(r)

\* A query throws, or the process dies: the request leaves no trace.
Fail(r) == pc[r] # "idle" /\ End(r) /\ UNCHANGED documents

Next ==
    \E r \in Requests :
        \/ \E p \in Subscribers : Register(r, p)
        \/ Find(r) \/ Conflict(r) \/ Create(r) \/ Fail(r)

Spec == Init /\ [][Next]_vars

-------------------------------------------------------------------------------
(* Properties.                                                              *)

\* "merchant_subscribe_already_exists": a subscriber of whom two requests
\* never overlapped is recorded once, however requests for others, with the
\* same Telegram name too, run beside.
SubscribedOnceUnlessOverlap ==
    \A i, j \in DOMAIN documents :
        documents[i] = documents[j] /\ documents[i] \notin overlapped => i = j
===============================================================================
