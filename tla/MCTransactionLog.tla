--------------------------- MODULE MCTransactionLog ---------------------------
(* Two runs, which are interchangeable.                                     *)
EXTENDS TransactionLog, TLC

RunSymmetry == Permutations(Runs)
===============================================================================
