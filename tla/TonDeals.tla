------------------------------- MODULE TonDeals -------------------------------
(***************************************************************************)
(* The poller and the parser together: which deals happened on chain, and  *)
(* which of them the collection tells.                                     *)
(*                                                                         *)
(* The account's contract shows each deal in one transaction, which pays   *)
(* out once, and has others that are no deals; what the poller calls a     *)
(* swap is what parseTransaction makes of them.                            *)
(***************************************************************************)
EXTENDS TonSubscription, ParseTransaction

CONSTANTS
    Deals,   \* the mints and redeems that happened, by logical time
    History  \* the account's transactions, by logical time

\* The account's messages that pay out for an op.
PayOuts(tx, op) ==
    {i \in DOMAIN tx.outs : tx.outs[i] # <<>> /\ tx.outs[i][1] = PayOut[op]}

\* One message pays a deal out, and it is another amount than was paid in.  What
\* else the account sends in the transaction, and in which order, is up to it.
ShowsDeal(tx, deal) ==
    /\ deal.type \in VnstOps /\ deal.inAmount # deal.outAmount
    /\ deal.fromAddress # NoAddress
    /\ tx.internal /\ tx.generic /\ tx.vm /\ tx.createdAt = deal.timestamp
    /\ Len(tx.body) = 5
    /\ tx.body[1] = "JETTON_NOTIFY" /\ tx.body[3] = deal.inAmount
    /\ tx.body[4] = deal.type /\ tx.body[5] = deal.fromAddress
    /\ \E i \in DOMAIN tx.outs :
          /\ PayOuts(tx, deal.type) = {i}
          /\ Len(tx.outs[i]) = 5 /\ tx.outs[i][3] = deal.outAmount

\* Skipped by the chain, no transfer of jettons to the account, one for
\* another purpose, one not answered, or one answered with the same amount.
NoDeal(tx) ==
    \/ ~IsNotify(tx)
    \/ tx.body[4] \notin VnstOps
    \/ PayOuts(tx, tx.body[4]) = {}
    \/ \E i \in DOMAIN tx.outs :
          PayOuts(tx, tx.body[4]) = {i} /\ Len(tx.outs[i]) = 5 /\ tx.outs[i][3] = tx.body[3]

ASSUME TonDealsAssumption ==
    /\ DOMAIN Deals \subseteq Lts
    /\ \A t \in Lts :
          /\ Len(History[t].outs) \in Nat
          /\ DOMAIN History[t].outs = 1..Len(History[t].outs)
          /\ IF t \in DOMAIN Deals THEN ShowsDeal(History[t], Deals[t]) ELSE NoDeal(History[t])
    /\ Swaps = {t \in Lts : Parse(History[t]) # None}
    /\ \A t \in Swaps : /\ SentAt[t] = Parse(History[t]).timestamp
                        /\ Owner[t] = Parse(History[t]).fromAddress

-----------------------------------------------------------------------------
(* Properties.                                                              *)

\* The deals that are passed over: a message without an op stands before the
\* pay-out (loadUint throws in the search), or the pay-out lacks an address.
Unread(tx, op) ==
    \E i \in PayOuts(tx, op) :
        \/ \E j \in DOMAIN tx.outs : j < i /\ tx.outs[j] = <<>>
        \/ NoAddress \in {tx.outs[i][4], tx.outs[i][5]}

Tells(doc, deal) ==
    /\ doc.type = deal.type
    /\ doc.inAmount = deal.inAmount /\ doc.outAmount = deal.outAmount
    /\ doc.fromAddress = deal.fromAddress /\ doc.timestamp = deal.timestamp

\* The collection tells what happened on chain: each document is a deal, with
\* its amounts, its sender and its time, and of the deals up to lastIndexedLt
\* those alone are missing that were dropped with an error, that lie below the
\* point where a cut iteration was taken up, or that the parser cannot read.
RecordsDeals ==
    /\ \A t \in stored : t \in DOMAIN Deals /\ Tells(Parse(History[t]), Deals[t])
    /\ \A t \in DOMAIN Deals :
          base < t /\ t <= lastIndexedLt /\ ~Unread(History[t], Deals[t].type)
              => t \in stored \cup dropped
=============================================================================
