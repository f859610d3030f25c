-------------------------- MODULE ParseTransaction --------------------------
(***************************************************************************)
(* AccountSubscriptionService.parseTransaction: what a transaction of the  *)
(* TON account was.                                                        *)
(*                                                                         *)
(* A cell is a sequence of fields, read from the front: the loads of the   *)
(* code become positions.  A transaction is a record                       *)
(*   [internal, generic, vm, createdAt : what the three guards ask,        *)
(*    body : the fields of the incoming message,                           *)
(*    outs : a sequence of the bodies of the outgoing messages].           *)
(* Amounts stay in the smallest unit: formatUnits divides both by 10^6.    *)
(***************************************************************************)
EXTENDS Integers, Sequences

\* constants/opcodes.ts, types/transaction.ts.
VnstOps == {"MINT", "REDEEM"}

None == [type |-> "none"]

\* addr_none, at which loadAddress throws.
NoAddress == "nobody"

\* JETTON_NOTIFY: op, query, amount, the forwarded payload's op, sender.
IsNotify(tx) ==
    /\ tx.internal /\ tx.generic /\ tx.vm
    /\ Len(tx.body) = 5
    /\ tx.body[1] = "JETTON_NOTIFY"

\* The op by which the account pays out, and the op it answers to.
PayOut == [MINT |-> "JETTON_TRANSFER_INTERNAL", REDEEM |-> "JETTON_TRANSFER"]

\* Mutant: the first outgoing message, whatever it is.
FirstOut_Any(tx, op) ==
    IF tx.outs = <<>> THEN <<>> ELSE tx.outs[1]

\* outMessages.values().find: the first with that op.  A message without an op
\* before it makes loadUint throw.
FirstOut(tx, op) ==
    LET those == {i \in DOMAIN tx.outs : tx.outs[i] = <<>> \/ tx.outs[i][1] = op}
    IN  IF those = {} THEN <<>>
        ELSE tx.outs[CHOOSE i \in those : \A j \in those : i <= j]

\* A mint is paid for in USDT and gives VNST, a redeem the reverse.  No such
\* message, or one that gives back the very amount, is logged as invalid; a
\* body too short throws, and so does one without its addresses, and
\* onTransactions skips these as well.
\* An out message's body: op, query, amount, whose jettons or for whom, and
\* where the excess goes, which the code calls toAddress.
Parse(tx) ==
    IF ~IsNotify(tx) \/ tx.body[4] \notin VnstOps THEN None
    ELSE LET type == tx.body[4]
             out  == FirstOut(tx, PayOut[type])
         IN  IF Len(out) < 5 \/ NoAddress \in {tx.body[5], out[4], out[5]} \/ out[3] = tx.body[3]
             THEN None
             ELSE [type |-> type, inAmount |-> tx.body[3], outAmount |-> out[3],
                   fromAddress |-> tx.body[5], toAddress |-> out[5], timestamp |-> tx.createdAt]

============================================================================
