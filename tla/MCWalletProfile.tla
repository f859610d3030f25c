---------------------------- MODULE MCWalletProfile ----------------------------
(* Two handlers side by side on one wallet; they are interchangeable, and   *)
(* so are the addresses.                                                    *)
EXTENDS WalletProfile, TLC

ProfileSymmetry == Permutations(Requests) \cup Permutations(Emails)
===============================================================================
