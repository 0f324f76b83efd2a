---------------------------- MODULE MCCrossCheck ----------------------------
EXTENDS CrossCheck, TLC

(* The names within a directory, and the outputs, are interchangeable.     *)
Interchangeable == Permutations(Golden) \cup Permutations(Malformed) \cup Permutations(Outputs)
=============================================================================
