------------------------------- MODULE MCClaim -------------------------------
EXTENDS ClaimRefinement, TLC

MCCap == [n \in Names |-> 2]

(* No liveness is checked of the claim, so its attempts may be permuted.   *)
Interchangeable == Permutations(Calls)
=============================================================================
