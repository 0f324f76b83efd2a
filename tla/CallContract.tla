---------------------------- MODULE CallContract ----------------------------
(***************************************************************************)
(* What an SDK call promises its caller, with the transport left out: it   *)
(* is made once, the server answers it at most once, and it returns once,  *)
(* with a result that this answer permits.  Stated from the doc comments   *)
(* of the public functions and of errors.go/errors.ts.                     *)
(***************************************************************************)
EXTENDS Naturals

CONSTANTS
  Calls, Ops, Responses, NoResponse,
  Fetches,   \* the operations that return JSON of a declared shape
  Lenient,   \* those of them that accept JSON of another shape
  Limit      \* Limit[o]: length of body the operation is sure to read whole

VARIABLES op, state, answer, result

cvars == <<op, state, answer, result>>

(* The status the protocol gives a meaning to, and the error that bears it.*)
Meaning == [s \in {"402", "403", "other"} |->
              IF s = "402" THEN "payment" ELSE IF s = "403" THEN "auth" ELSE "http"]

(* The results a 2xx permits: the value when the body is what the operation*)
(* expects, an error that says what the body is not when it is not, and a  *)
(* read error whenever the body may not have come through.                 *)
OfBody(o, r) ==
  LET fits == IF o \in Fetches
              THEN r.form = "shaped" \/ (r.form = "misshaped" /\ o \in Lenient)
              ELSE r.form = "url"
      long == r.len > Limit[o]
  IN {"read"}
     \cup (IF fits /\ ~long THEN {"success"} ELSE {})
     \cup (IF fits /\ long THEN IF o \in Fetches THEN {"notJSON"} ELSE {"clipped"} ELSE {})
     \cup (IF ~fits THEN IF o \in Fetches THEN {"notJSON", "parse"} ELSE {"notURL"} ELSE {})

Permitted(o, r) ==
  IF r = NoResponse THEN {"request"}
  ELSE IF r.status = "2xx" THEN OfBody(o, r)
  ELSE {Meaning[r.status]}

Init ==
  /\ op \in [Calls -> Ops]
  /\ state = [c \in Calls |-> "idle"]
  /\ answer = [c \in Calls |-> NoResponse]
  /\ result = [c \in Calls |-> "none"]

Call(c, o) ==
  /\ state[c] = "idle"
  /\ op' = [op EXCEPT ![c] = o]
  /\ state' = [state EXCEPT ![c] = "pending"]
  /\ UNCHANGED <<answer, result>>

(* Bad input is refused before anything is sent.                           *)
Refuse(c, o) ==
  /\ state[c] = "idle"
  /\ op' = [op EXCEPT ![c] = o]
  /\ state' = [state EXCEPT ![c] = "returned"]
  /\ result' = [result EXCEPT ![c] = "input"]
  /\ UNCHANGED answer

Respond(c, r) ==
  /\ state[c] = "pending" /\ answer[c] = NoResponse
  /\ answer' = [answer EXCEPT ![c] = r]
  /\ UNCHANGED <<op, state, result>>

Return(c, out) ==
  /\ state[c] = "pending"
  /\ out \in Permitted(op[c], answer[c])
  /\ state' = [state EXCEPT ![c] = "returned"]
  /\ result' = [result EXCEPT ![c] = out]
  /\ UNCHANGED <<op, answer>>

Next ==
  \E c \in Calls :
    \/ \E o \in Ops : Call(c, o) \/ Refuse(c, o)
    \/ \E r \in Responses : Respond(c, r)
    \/ \E out \in Permitted(op[c], answer[c]) : Return(c, out)

Spec == Init /\ [][Next]_cvars
=============================================================================
