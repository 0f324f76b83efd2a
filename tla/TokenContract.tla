---------------------------- MODULE TokenContract ----------------------------
(***************************************************************************)
(* What claiming a setup token promises its callers, with the exchange     *)
(* left out: a token can be spent once, by an attempt that was made, for   *)
(* good; the attempt that spent it may be told the Access URL, or fail     *)
(* and have lost it; another may be told that it came too late.  Stated    *)
(* from the doc comment of Claim: never retry with the same token, and     *)
(* what a 403 means.                                                       *)
(***************************************************************************)
CONSTANTS Calls, Nobody

VARIABLES token, owner, state, outcome

tvars == <<token, owner, state, outcome>>

Init ==
  /\ token \in {"fresh", "unknown"}
  /\ owner = Nobody
  /\ state = [c \in Calls |-> "idle"]
  /\ outcome = [c \in Calls |-> "none"]

Attempt(c) ==
  /\ state[c] = "idle"
  /\ state' = [state EXCEPT ![c] = "made"]
  /\ UNCHANGED <<token, owner, outcome>>

(* What is no setup token is refused before anything is sent.              *)
Decline(c) ==
  /\ state[c] = "idle"
  /\ state' = [state EXCEPT ![c] = "declined"]
  /\ outcome' = [outcome EXCEPT ![c] = "failed"]
  /\ UNCHANGED <<token, owner>>

(* An attempt may still spend the token after its caller has given up.     *)
Spend(c) ==
  /\ token = "fresh" /\ state[c] \in {"made", "over"}
  /\ token' = "spent" /\ owner' = c
  /\ UNCHANGED <<state, outcome>>

Permitted(c) ==
  {"failed"}
    \cup (IF owner = c THEN {"url"} ELSE {})
    \cup (IF token = "unknown" \/ owner \notin {c, Nobody} THEN {"refused"} ELSE {})

Return(c, out) ==
  /\ state[c] = "made" /\ out \in Permitted(c)
  /\ state' = [state EXCEPT ![c] = "over"]
  /\ outcome' = [outcome EXCEPT ![c] = out]
  /\ UNCHANGED <<token, owner>>

Next ==
  \E c \in Calls :
    Attempt(c) \/ Decline(c) \/ Spend(c) \/ \E out \in Permitted(c) : Return(c, out)

Spec == Init /\ [][Next]_tvars
=============================================================================
