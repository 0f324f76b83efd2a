--------------------------- MODULE ClaimRefinement ---------------------------
(***************************************************************************)
(* The claim implements the token's contract: the phases of the exchange   *)
(* map to "made", a token that DecodeSetupToken refuses to "declined", and *)
(* of the errors only the auth error says anything of the token.           *)
(***************************************************************************)
EXTENDS Claim

AttemptState ==
  [c \in Calls |-> CASE phase[c] = "idle" -> "idle"
                     [] phase[c] = "settled" -> IF post[c] = "none" THEN "declined" ELSE "over"
                     [] OTHER -> "made"]

(* A URL without its end would be an outcome the contract does not know.   *)
AttemptOutcome ==
  [c \in Calls |-> CASE result[c] = "success" -> "url"
                     [] result[c] = "auth" -> "refused"
                     [] result[c] \in {"none", "clipped"} -> result[c]
                     [] OTHER -> "failed"]

OneTime == INSTANCE TokenContract WITH state <- AttemptState, outcome <- AttemptOutcome

(* However posts and answers are lost, delayed and overtaken, to callers a *)
(* claim is one attempt at a token that can be spent once: never retried,  *)
(* the URL to the one that spent it, a 403 to those that came too late     *)
(* ("never retry with the same one", doc of Claim).                        *)
KeepsTokenContract == OneTime!Spec
=============================================================================
