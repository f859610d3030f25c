------------------------------ MODULE ChainIndex ------------------------------
(***************************************************************************)
(* What an indexer of this backend promises about the ledger it follows.   *)
(*                                                                         *)
(* The ledger is a set of items, each at a position (a block number on     *)
(* BSC, a logical time on TON).  The indexer takes charge of items and     *)
(* publishes a mark; it may move the mark only to a position below which   *)
(* nothing is left behind.  The one licence it has is to raise its floor:  *)
(* below the floor it promises nothing.                                    *)
(*                                                                         *)
(* EventScan (BSC, over Web3 logs), TonSubscription (TON, over account     *)
(* transactions) and TransactionLog (BSC, over BscScan) are each shown to  *)
(* implement this module.                                                  *)
(***************************************************************************)
EXTENDS Integers

CONSTANTS Items, Pos

VARIABLES
    ledger,  \* the items on the chain
    taken,   \* the items the backend has taken charge of
    mark,    \* everything before this position is dealt with
    floor    \* ... down to this position

vars == <<ledger, taken, mark, floor>>

\* Nothing between the floor and the mark is left behind.
Complete == \A i \in ledger : floor <= Pos[i] /\ Pos[i] < mark => i \in taken

Init ==
    /\ ledger = {}
    /\ taken = {}
    /\ mark \in Int
    /\ floor \in Int

\* The chain may rewrite itself, but not what lies behind the mark.
Grow ==
    /\ ledger' \in SUBSET Items
    /\ \A i \in Items : Pos[i] < mark => (i \in ledger' <=> i \in ledger)
    /\ UNCHANGED <<taken, mark, floor>>

\* The backend takes charge of more items, of the ledger or once of it.
Take ==
    /\ taken' \in SUBSET Items
    /\ taken \subseteq taken'
    /\ UNCHANGED <<ledger, mark, floor>>

\* The mark moves, forwards or backwards, without leaving an item behind.
Move ==
    /\ mark' \in Int
    /\ floor' \in Int
    /\ floor <= floor'
    /\ Complete'
    /\ UNCHANGED <<ledger, taken>>

Next == Grow \/ Take \/ Move

Spec == Init /\ [][Next]_vars
===============================================================================
