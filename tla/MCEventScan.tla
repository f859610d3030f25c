----------------------------- MODULE MCEventScan -----------------------------
(* A small chain for EventScan: t1, in block 1, is a transfer; whatever     *)
(* else a configuration adds is in block 2.                                 *)
EXTENDS EventScan, TLC

CONSTANT t1

MCBlockOf == [e \in Events |-> IF e = t1 THEN 1 ELSE 2]

\* The runs are interchangeable; used where no liveness is checked.
ScanSymmetry == Permutations(Scans)
=============================================================================
