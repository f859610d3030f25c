----------------------------- MODULE MCEventJobs -----------------------------
(* A mint carried by two jobs, as where two ranges of the scan meet, an     *)
(* event of another kind, and refreshes of one address and of the zero one. *)
EXTENDS EventJobs, TLC

CONSTANTS mint, other, alice, zero, i1, i2, i3, b1, b2, b3, b4

MCEventOf == [j \in InsertJobs |-> IF j = i3 THEN other ELSE mint]
MCSwaps == Events \ {other}
MCOwnerOf == [e \in MCSwaps |-> alice]
MCAddrOf == [j \in BalanceJobs |-> IF j = b4 THEN zero ELSE alice]
=============================================================================
