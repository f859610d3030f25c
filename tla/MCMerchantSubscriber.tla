------------------------- MODULE MCMerchantSubscriber -------------------------
(* Three requests, which are interchangeable.                               *)
EXTENDS MerchantSubscriber, TLC

RequestSymmetry == Permutations(Requests)
===============================================================================
