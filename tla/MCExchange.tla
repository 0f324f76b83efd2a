----------------------------- MODULE MCExchange -----------------------------
EXTENDS ExchangeRefinement

(* Bodies below, at and above the limit.                                   *)
MCCap == [n \in Names |-> IF n = "claim" THEN 1 ELSE 2]
=============================================================================
