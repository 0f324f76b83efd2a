------------------------- MODULE ExchangeRefinement -------------------------
(***************************************************************************)
(* The exchange implements the call contract: the transport's phases map   *)
(* to "pending", the history of the server's answer to the answer, and     *)
(* Node's raw read error to the read error the contract permits.           *)
(***************************************************************************)
EXTENDS Exchange

AbstractState ==
  [c \in Calls |-> IF phase[c] = "idle" THEN "idle"
                   ELSE IF phase[c] = "settled" THEN "returned" ELSE "pending"]

AbstractResult ==
  [c \in Calls |-> IF result[c] = "rawread" THEN "read" ELSE result[c]]

(* Node reads a body whole and decodes info and currency leniently.        *)
BodyLimit ==
  [o \in Ops |-> IF o.sdk = "go" THEN Cap[o.name] ELSE MaxLen]

LenientOps == {o \in Ops : o.sdk = "node" /\ o.name \in {"info", "currency"}}

Contract == INSTANCE CallContract WITH
  Fetches <- {o \in Ops : o.name # "claim"},
  Lenient <- LenientOps,
  Limit <- BodyLimit,
  state <- AbstractState,
  answer <- resp,
  result <- AbstractResult

(* Every run of the transport is, to the caller, one that the contract     *)
(* allows: one answer, one return, and a result that answer permits.       *)
KeepsContract == Contract!Spec
=============================================================================
