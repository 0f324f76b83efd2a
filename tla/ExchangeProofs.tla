--------------------------- MODULE ExchangeProofs ---------------------------
(***************************************************************************)
(* The safety of the exchange for every set of calls, every read limit and *)
(* every length of body, and that it implements the call contract.         *)
(***************************************************************************)
EXTENDS ExchangeRefinement, TLAPS

(* What the phases of a call say of its other variables.  None of the      *)
(* invariants is inductive without it: they all speak of settled calls,    *)
(* and what a call settles with was fixed while it was checking or reading.*)
CallState ==
  \A c \in Calls :
    /\ got[c] <= resp[c].len
    /\ phase[c] \in {"idle", "waiting"} =>
         resp[c] = NoResponse /\ conn[c] = "none" /\ result[c] = "none"
    /\ phase[c] = "idle" => timer[c] = "off"
    /\ phase[c] \in {"checking", "reading"} =>
         resp[c] # NoResponse /\ result[c] = "none"
    /\ phase[c] = "reading" => resp[c].status = "2xx"
    /\ phase[c] # "reading" /\ resp[c].status # "2xx" => got[c] = 0
    /\ op[c].sdk = "go" => got[c] <= Cap[op[c].name]
    /\ result[c] = "rawread" => op[c].sdk = "node"

IInv ==
  /\ TypeOK /\ CallState
  /\ RefusalIsReported /\ NothingLeftBehind /\ CutBodyIsNoAnswer

USE CapAssumption, MaxLenAssumption

-----------------------------------------------------------------------------

LEMMA LimitOfOp ==
  ASSUME NEW o \in Ops
  PROVE  /\ o.name \in Names /\ o.sdk \in {"go", "node"}
         /\ Cap[o.name] \in Nat /\ Cap[o.name] > 0
<1>1. o.name \in Names /\ o.sdk \in {"go", "node"}
  BY DEF Ops
<1> QED
  BY <1>1

LEMMA ResponseTypes ==
  ASSUME NEW r \in Responses \cup {NoResponse}
  PROVE  /\ r.len \in 0..MaxLen
         /\ r.status \in Statuses \cup {"none"}
         /\ r = NoResponse <=> r.status = "none"
         /\ r = NoResponse => r.len = 0
BY DEF Responses, NoResponse, Statuses

(* statusError is an error exactly for what is no 2xx, one kind of error   *)
(* for each meaning (errors.go, statusError).                              *)
LEMMA StatusErrorMeaning ==
  ASSUME NEW s \in Statuses
  PROVE  /\ StatusError(s) \in Refusals \cup {"none"}
         /\ StatusError(s) = "none" <=> s = "2xx"
         /\ StatusError(s) = "payment" <=> s = "402"
         /\ StatusError(s) = "auth" <=> s = "403"
         /\ StatusError(s) = "http" <=> s = "other"
BY DEF StatusError, Refusals, Statuses

(* A body that was cut short decodes to no success (getJSON, Claim).       *)
LEMMA DecodedRange ==
  ASSUME NEW o \in Ops, NEW r, NEW n \in Nat, r.len \in Nat, n <= r.len
  PROVE  /\ Decoded(o, r, n) \in {"notJSON", "parse", "notURL", "success", "clipped"}
         /\ n < r.len => Decoded(o, r, n) # "success"
         /\ Decoded(o, r, n) = "clipped" => o.name = "claim" /\ n < r.len
BY DEF Decoded

LEMMA InitIInv == Init => IInv
BY DEF Init, IInv, TypeOK, CallState, RefusalIsReported, NothingLeftBehind,
       CutBodyIsNoAnswer, NoResponse, Ops, Names, Results, Refusals

(* One lemma per action; each cites only what that action disturbs.        *)
LEMMA StartIInv ==
  ASSUME IInv, NEW c \in Calls, NEW o \in Ops, Start(c, o)
  PROVE  IInv'
BY ResponseTypes DEF IInv, TypeOK, CallState, RefusalIsReported, NothingLeftBehind,
  CutBodyIsNoAnswer, Start, Ops, NoResponse

LEMMA RejectIInv ==
  ASSUME IInv, NEW c \in Calls, NEW o \in Ops, Reject(c, o)
  PROVE  IInv'
BY DEF IInv, TypeOK, CallState, RefusalIsReported, NothingLeftBehind,
  CutBodyIsNoAnswer, Reject, Results, Ops, NoResponse

LEMMA TransportFailsIInv ==
  ASSUME IInv, NEW c \in Calls, TransportFails(c)
  PROVE  IInv'
BY DEF IInv, TypeOK, CallState, RefusalIsReported, NothingLeftBehind,
  CutBodyIsNoAnswer, TransportFails, Settle, Disarm, Results, NoResponse

LEMMA TimerFiresIInv ==
  ASSUME IInv, NEW c \in Calls, TimerFires(c)
  PROVE  IInv'
<1>1. CASE phase[c] = "waiting"
  <2>1. TypeOK'
    BY <1>1 DEF IInv, TypeOK, TimerFires, Settle, Results
  <2>2. CallState'
    BY <1>1 DEF IInv, TypeOK, CallState, TimerFires, Settle
  <2>3. RefusalIsReported' /\ NothingLeftBehind' /\ CutBodyIsNoAnswer'
    BY <1>1 DEF IInv, TypeOK, CallState, RefusalIsReported, NothingLeftBehind,
       CutBodyIsNoAnswer, TimerFires, Settle, NoResponse
  <2> QED
    BY <2>1, <2>2, <2>3 DEF IInv
<1>2. CASE phase[c] # "waiting"
  BY <1>2 DEF IInv, TypeOK, CallState, RefusalIsReported, NothingLeftBehind,
     CutBodyIsNoAnswer, TimerFires
<1> QED
  BY <1>1, <1>2

LEMMA AnswerIInv ==
  ASSUME IInv, NEW c \in Calls, NEW r \in Responses, Answer(c, r)
  PROVE  IInv'
<1>1. r # NoResponse /\ 0 <= r.len /\ got[c] = 0
  BY ResponseTypes DEF IInv, TypeOK, CallState, Answer, NoResponse, Responses, Statuses
<1>2. TypeOK'
  BY DEF IInv, TypeOK, Answer, Disarm
<1>3. CallState'
  <2>1. /\ op' = op /\ got' = got /\ result' = result
        /\ resp' = [resp EXCEPT ![c] = r] /\ phase' = [phase EXCEPT ![c] = "checking"]
        /\ conn' = [conn EXCEPT ![c] = "open"] /\ phase[c] = "waiting"
    BY DEF Answer
  <2>2. \A d \in Calls : d # c => timer'[d] = timer[d]
    BY DEF IInv, TypeOK, Answer, Disarm
  <2> QED
    BY <1>1, <2>1, <2>2 DEF IInv, TypeOK, CallState
<1>4. /\ RefusalIsReported' /\ NothingLeftBehind' /\ CutBodyIsNoAnswer'
  BY <1>1 DEF IInv, TypeOK, RefusalIsReported, NothingLeftBehind, CutBodyIsNoAnswer,
              Answer, Disarm
<1> QED
  BY <1>2, <1>3, <1>4 DEF IInv

LEMMA CheckStatusIInv ==
  ASSUME IInv, NEW c \in Calls, CheckStatus(c)
  PROVE  IInv'
<1> DEFINE e == StatusError(resp[c].status)
<1>1. /\ resp[c].status \in Statuses /\ resp[c].len \in Nat
      /\ resp[c].status # "2xx" => got[c] = 0
  BY ResponseTypes DEF IInv, TypeOK, CallState, CheckStatus
<1>2. CASE e = "none"
  <2>1. resp[c].status = "2xx"
    BY <1>1, <1>2, StatusErrorMeaning
  <2> QED
    BY <1>2, <2>1 DEF IInv, TypeOK, CallState, RefusalIsReported, NothingLeftBehind,
       CutBodyIsNoAnswer, CheckStatus
<1>3. CASE e # "none"
  <2>1. /\ e \in Refusals /\ resp[c].status # "2xx"
        /\ e = "payment" <=> resp[c].status = "402"
        /\ e = "auth" <=> resp[c].status = "403"
        /\ e = "http" <=> resp[c].status = "other"
    BY <1>1, <1>3, StatusErrorMeaning
  <2>2. Settle(c, e, conn[c]) /\ Disarm(c)
    BY <1>3 DEF CheckStatus
  <2> HIDE DEF e
  <2>3. TypeOK'
    BY <2>1, <2>2 DEF IInv, TypeOK, Settle, Disarm, Results
  <2>4. CallState'
    BY <1>1, <2>1, <2>2 DEF IInv, TypeOK, CallState, CheckStatus, Settle, Disarm, Refusals
  <2>5. RefusalIsReported'
    BY <2>1, <2>2 DEF IInv, TypeOK, RefusalIsReported, Settle
  <2>6. NothingLeftBehind'
    BY <2>2 DEF IInv, TypeOK, NothingLeftBehind, Settle, Disarm
  <2>7. CutBodyIsNoAnswer'
    BY <2>1, <2>2 DEF IInv, TypeOK, CutBodyIsNoAnswer, Settle, Refusals
  <2> QED
    BY <2>3, <2>4, <2>5, <2>6, <2>7 DEF IInv
<1> QED
  BY <1>2, <1>3

LEMMA DeliverIInv ==
  ASSUME IInv, NEW c \in Calls, Deliver(c)
  PROVE  IInv'
<1>1. /\ resp[c].len \in 0..MaxLen /\ got[c] \in Nat
      /\ got[c] + 1 <= resp[c].len
      /\ op[c].sdk = "go" => got[c] + 1 <= Cap[op[c].name]
  <2>1. resp[c].len \in 0..MaxLen /\ got[c] \in Nat /\ Cap[op[c].name] \in Nat
    BY ResponseTypes, LimitOfOp DEF IInv, TypeOK
  <2>2. /\ got[c] <= resp[c].len /\ got[c] # resp[c].len
        /\ op[c].sdk = "go" => got[c] <= Cap[op[c].name] /\ got[c] # Cap[op[c].name]
    BY DEF IInv, CallState, Deliver, ReadAll
  <2> QED
    BY <2>1, <2>2
<1>2. TypeOK'
  BY <1>1 DEF IInv, TypeOK, Deliver
<1>3. CallState'
  BY <1>1 DEF IInv, TypeOK, CallState, Deliver
<1>4. RefusalIsReported' /\ NothingLeftBehind' /\ CutBodyIsNoAnswer'
  BY DEF IInv, TypeOK, RefusalIsReported, NothingLeftBehind, CutBodyIsNoAnswer, Deliver
<1> QED
  BY <1>2, <1>3, <1>4 DEF IInv

LEMMA BreakIInv ==
  ASSUME IInv, NEW c \in Calls, Break(c)
  PROVE  IInv'
BY DEF IInv, TypeOK, CallState, RefusalIsReported, NothingLeftBehind,
  CutBodyIsNoAnswer, Break

LEMMA ReadFailsIInv ==
  ASSUME IInv, NEW c \in Calls, ReadFails(c)
  PROVE  IInv'
<1> DEFINE out == IF op[c].sdk = "go" THEN "read" ELSE "rawread"
<1>1. phase[c] = "reading" /\ resp[c].status = "2xx" /\ resp[c] # NoResponse
  BY DEF IInv, CallState, ReadFails
<1>2. out \in {"read", "rawread"} /\ (out = "rawread" => op[c].sdk = "node")
  BY LimitOfOp DEF IInv, TypeOK
<1>3. Settle(c, out, "closed") /\ Disarm(c)
  BY DEF ReadFails
<1> HIDE DEF out
<1>4. TypeOK'
  BY <1>2, <1>3 DEF IInv, TypeOK, Settle, Disarm, Results
<1>5. CallState'
  BY <1>1, <1>2, <1>3 DEF IInv, TypeOK, CallState, Settle, Disarm
<1>6. RefusalIsReported' /\ NothingLeftBehind' /\ CutBodyIsNoAnswer'
  BY <1>1, <1>2, <1>3 DEF IInv, TypeOK, RefusalIsReported, NothingLeftBehind,
     CutBodyIsNoAnswer, Settle, Disarm
<1> QED
  BY <1>4, <1>5, <1>6 DEF IInv

LEMMA FinishIInv ==
  ASSUME IInv, NEW c \in Calls, Finish(c)
  PROVE  IInv'
<1> DEFINE out == Decoded(op[c], resp[c], got[c])
<1>1. /\ phase[c] = "reading" /\ resp[c].status = "2xx" /\ resp[c] # NoResponse
      /\ got[c] \in Nat /\ resp[c].len \in Nat /\ got[c] <= resp[c].len
      /\ op[c] \in Ops
  BY ResponseTypes DEF IInv, TypeOK, CallState, Finish
<1>2. /\ out \in {"notJSON", "parse", "notURL", "success", "clipped"}
      /\ got[c] < resp[c].len => out # "success"
      /\ out = "clipped" => op[c].name = "claim" /\ got[c] < resp[c].len
  BY <1>1, DecodedRange
<1>3. Settle(c, out, "closed") /\ Disarm(c)
  BY DEF Finish
<1>4. got[c] = resp[c].len \/ got[c] = Cap[op[c].name]
  BY DEF Finish, ReadAll
<1> HIDE DEF out
<1>5. TypeOK'
  BY <1>2, <1>3 DEF IInv, TypeOK, Settle, Disarm, Results
<1>6. CallState'
  BY <1>1, <1>2, <1>3 DEF IInv, TypeOK, CallState, Settle, Disarm
<1>7. RefusalIsReported'
  BY <1>1, <1>2, <1>3 DEF IInv, TypeOK, RefusalIsReported, Settle
<1>8. NothingLeftBehind'
  BY <1>3 DEF IInv, TypeOK, NothingLeftBehind, Settle, Disarm
<1>9. CutBodyIsNoAnswer'
  BY <1>1, <1>2, <1>3, <1>4 DEF IInv, TypeOK, CutBodyIsNoAnswer, Settle
<1> QED
  BY <1>5, <1>6, <1>7, <1>8, <1>9 DEF IInv

LEMMA NextIInv == IInv /\ [Next]_vars => IInv'
<1> SUFFICES ASSUME IInv, [Next]_vars PROVE IInv'
  OBVIOUS
<1>1. CASE UNCHANGED vars
  BY <1>1 DEF vars, IInv, TypeOK, CallState, RefusalIsReported, NothingLeftBehind,
              CutBodyIsNoAnswer
<1>2. CASE Next
  BY <1>2, StartIInv, RejectIInv, TransportFailsIInv, TimerFiresIInv, AnswerIInv,
     CheckStatusIInv, DeliverIInv, BreakIInv, ReadFailsIInv, FinishIInv DEF Next
<1> QED
  BY <1>1, <1>2

LEMMA InductiveIInv == Spec => []IInv
BY InitIInv, NextIInv, PTL DEF Spec

(* Every variable stays in its range, whatever the server, the network and *)
(* the timer do (the state of getJSON and Claim).                          *)
THEOREM TypeCorrect == Spec => []TypeOK
BY InductiveIInv, PTL DEF IInv

(* A 402, a 403 or another refusal is what the caller gets exactly when it *)
(* is what the server sent (status before decode).                         *)
THEOREM RefusalsAreReported == Spec => []RefusalIsReported
BY InductiveIInv, PTL DEF IInv

(* No call returns with its timer armed or, in Go, its body open.          *)
THEOREM CallsLeaveNothing == Spec => []NothingLeftBehind
BY InductiveIInv, PTL DEF IInv

(* A body cut short is no success, whatever cut it.                        *)
THEOREM CutBodiesFail == Spec => []CutBodyIsNoAnswer
BY InductiveIInv, PTL DEF IInv

-----------------------------------------------------------------------------

(* The exchange implements the contract: step by step, under the mapping   *)
(* of ExchangeRefinement.                                                  *)
LEMMA InitRefines == Init => Contract!Init
BY DEF Init, Contract!Init, AbstractState, AbstractResult, Ops, Names

(* A step that changes nothing the caller or the server can see.           *)
LEMMA HiddenRefines ==
  ASSUME IInv, UNCHANGED <<op, resp, result>>,
         \A c \in Calls : \/ phase'[c] = phase[c]
                          \/ {phase[c], phase'[c]} \subseteq {"waiting", "checking", "reading"}
  PROVE  UNCHANGED Contract!cvars
BY DEF Contract!cvars, AbstractState, AbstractResult

(* A return with a permitted result.                                       *)
LEMMA SettleRefines ==
  ASSUME IInv, NEW c \in Calls, NEW out, NEW k, Settle(c, out, k),
         phase[c] \in {"waiting", "checking", "reading"},
         (IF out = "rawread" THEN "read" ELSE out) \in Contract!Permitted(op[c], resp[c])
  PROVE  Contract!Next
<1> DEFINE a == IF out = "rawread" THEN "read" ELSE out
<1>1. AbstractState' = [AbstractState EXCEPT ![c] = "returned"]
  BY DEF Settle, AbstractState, IInv, TypeOK
<1>2. AbstractResult' = [AbstractResult EXCEPT ![c] = a]
  BY DEF Settle, AbstractResult, IInv, TypeOK
<1>3. AbstractState[c] = "pending"
  BY DEF AbstractState
<1>4. Contract!Return(c, a)
  BY <1>1, <1>2, <1>3 DEF Contract!Return, Settle
<1> QED
  BY <1>4 DEF Contract!Next

(* What CheckStatus and Finish settle with is permitted: the mapping of the*)
(* status and the decoding of the body as the contract means them.         *)
LEMMA RefusalPermitted ==
  ASSUME NEW o \in Ops, NEW r \in Responses, r.status # "2xx"
  PROVE  /\ StatusError(r.status) \in Contract!Permitted(o, r)
         /\ StatusError(r.status) # "rawread"
<1>1. r # NoResponse /\ r.status \in {"402", "403", "other"}
  BY DEF Responses, Statuses, NoResponse
<1>2. Contract!Permitted(o, r) = {Contract!Meaning[r.status]}
  BY <1>1 DEF Contract!Permitted
<1>3. Contract!Meaning[r.status] = StatusError(r.status)
  BY <1>1 DEF Contract!Meaning, StatusError
<1>4. StatusError(r.status) # "rawread"
  BY <1>1 DEF StatusError
<1> QED
  BY <1>2, <1>3, <1>4

LEMMA DecodedPermitted ==
  ASSUME NEW o \in Ops, NEW r \in Responses, r.status = "2xx",
         NEW n \in 0..MaxLen, n <= r.len,
         n = r.len \/ (o.sdk = "go" /\ n = Cap[o.name]), o.sdk = "go" => n <= Cap[o.name]
  PROVE  /\ Decoded(o, r, n) \in Contract!Permitted(o, r)
         /\ Decoded(o, r, n) # "rawread"
<1>1. r # NoResponse /\ r.len \in 0..MaxLen /\ r.form \in Forms
  BY DEF Responses, NoResponse
<1>2. n < r.len <=> r.len > BodyLimit[o]
  <2>1. BodyLimit[o] = IF o.sdk = "go" THEN Cap[o.name] ELSE MaxLen
    BY DEF BodyLimit
  <2>2. Cap[o.name] \in Nat /\ o.sdk \in {"go", "node"}
    BY LimitOfOp
  <2> QED
    BY <1>1, <2>1, <2>2
<1>3. Contract!Permitted(o, r) = Contract!OfBody(o, r)
  BY <1>1 DEF Contract!Permitted
<1>4. CASE o.name = "claim"
  BY <1>1, <1>2, <1>3, <1>4 DEF Decoded, Contract!OfBody, Forms
<1>5. CASE o.name # "claim"
  <2>1. /\ o.name \in {"accounts", "info", "currency"} /\ o.sdk \in {"go", "node"}
        /\ o \in LenientOps <=> o.sdk = "node" /\ o.name \in {"info", "currency"}
    BY <1>5, LimitOfOp DEF Names, LenientOps
  <2> QED
    BY <1>1, <1>2, <1>3, <1>5, <2>1 DEF Decoded, Contract!OfBody, Forms
<1> QED
  BY <1>4, <1>5

(* The exchange keeps the contract for every set of calls and every limit. *)
THEOREM ExchangeKeepsContract == Spec => KeepsContract
<1>1. IInv /\ [Next]_vars => [Contract!Next]_(Contract!cvars)
  <2> SUFFICES ASSUME IInv, [Next]_vars PROVE [Contract!Next]_(Contract!cvars)
    OBVIOUS
  <2>1. CASE UNCHANGED vars
    BY <2>1 DEF vars, Contract!cvars, AbstractState, AbstractResult
  <2>2. ASSUME NEW c \in Calls, NEW o \in Ops, Start(c, o) PROVE Contract!Next
    <3>1. Contract!Call(c, o)
      BY <2>2 DEF Start, Contract!Call, AbstractState, AbstractResult, IInv, TypeOK
    <3> QED
      BY <3>1 DEF Contract!Next
  <2>3. ASSUME NEW c \in Calls, NEW o \in Ops, Reject(c, o) PROVE Contract!Next
    <3>1. Contract!Refuse(c, o)
      BY <2>3 DEF Reject, Contract!Refuse, AbstractState, AbstractResult, IInv, TypeOK
    <3> QED
      BY <3>1 DEF Contract!Next
  <2>4. ASSUME NEW c \in Calls, TransportFails(c) PROVE Contract!Next
    <3>1. phase[c] = "waiting" /\ resp[c] = NoResponse
      BY <2>4 DEF TransportFails, IInv, CallState
    <3> QED
      BY <2>4, <3>1, SettleRefines DEF TransportFails, Contract!Permitted
  <2>5. ASSUME NEW c \in Calls, TimerFires(c) PROVE [Contract!Next]_(Contract!cvars)
    <3>1. CASE phase[c] = "waiting"
      <4>1. resp[c] = NoResponse
        BY <3>1 DEF IInv, CallState
      <4> QED
        BY <2>5, <3>1, <4>1, SettleRefines DEF TimerFires, Contract!Permitted
    <3>2. CASE phase[c] # "waiting"
      BY <2>5, <3>2, HiddenRefines DEF TimerFires
    <3> QED
      BY <3>1, <3>2
  <2>6. ASSUME NEW c \in Calls, NEW r \in Responses, Answer(c, r) PROVE Contract!Next
    <3>1. resp[c] = NoResponse /\ phase[c] = "waiting"
      BY <2>6 DEF Answer, IInv, CallState
    <3>2. AbstractState' = AbstractState /\ AbstractResult' = AbstractResult
      BY <2>6 DEF Answer, AbstractState, AbstractResult, IInv, TypeOK
    <3>3. Contract!Respond(c, r)
      BY <2>6, <3>1, <3>2 DEF Answer, Contract!Respond, AbstractState
    <3> QED
      BY <3>3 DEF Contract!Next
  <2>7. ASSUME NEW c \in Calls, CheckStatus(c) PROVE [Contract!Next]_(Contract!cvars)
    <3>1. resp[c] \in Responses /\ op[c] \in Ops /\ phase[c] = "checking"
      BY <2>7 DEF CheckStatus, IInv, TypeOK, CallState
    <3>2. CASE StatusError(resp[c].status) = "none"
      BY <2>7, <3>2, HiddenRefines DEF CheckStatus, IInv, TypeOK
    <3>3. CASE StatusError(resp[c].status) # "none"
      <4>1. resp[c].status # "2xx"
        BY <3>3 DEF StatusError
      <4>2. Settle(c, StatusError(resp[c].status), conn[c])
        BY <2>7, <3>3 DEF CheckStatus
      <4> QED
        BY <3>1, <4>1, <4>2, RefusalPermitted, SettleRefines
    <3> QED
      BY <3>2, <3>3
  <2>8. ASSUME NEW c \in Calls, Deliver(c) PROVE UNCHANGED Contract!cvars
    BY <2>8, HiddenRefines DEF Deliver
  <2>9. ASSUME NEW c \in Calls, Break(c) PROVE UNCHANGED Contract!cvars
    BY <2>9, HiddenRefines DEF Break
  <2>10. ASSUME NEW c \in Calls, ReadFails(c) PROVE Contract!Next
    <3>1. resp[c] # NoResponse /\ resp[c].status = "2xx" /\ phase[c] = "reading"
      BY <2>10 DEF ReadFails, IInv, CallState
    <3>2. "read" \in Contract!Permitted(op[c], resp[c])
      BY <3>1 DEF Contract!Permitted, Contract!OfBody
    <3>3. CASE op[c].sdk = "go"
      BY <2>10, <3>1, <3>2, <3>3, SettleRefines DEF ReadFails
    <3>4. CASE op[c].sdk # "go"
      BY <2>10, <3>1, <3>2, <3>4, SettleRefines DEF ReadFails
    <3> QED
      BY <3>3, <3>4
  <2>11. ASSUME NEW c \in Calls, Finish(c) PROVE Contract!Next
    <3>1. /\ resp[c] \in Responses /\ op[c] \in Ops /\ got[c] \in 0..MaxLen
          /\ resp[c].status = "2xx" /\ phase[c] = "reading" /\ got[c] <= resp[c].len
          /\ op[c].sdk = "go" => got[c] <= Cap[op[c].name]
      BY <2>11 DEF Finish, IInv, TypeOK, CallState
    <3>2. got[c] = resp[c].len \/ (op[c].sdk = "go" /\ got[c] = Cap[op[c].name])
      BY <2>11 DEF Finish, ReadAll
    <3>3. /\ Decoded(op[c], resp[c], got[c]) \in Contract!Permitted(op[c], resp[c])
          /\ Decoded(op[c], resp[c], got[c]) # "rawread"
      BY <3>1, <3>2, DecodedPermitted
    <3> QED
      BY <2>11, <3>1, <3>3, SettleRefines DEF Finish
  <2> QED
    BY <2>1, <2>2, <2>3, <2>4, <2>5, <2>6, <2>7, <2>8, <2>9, <2>10, <2>11 DEF Next
<1> QED
  BY InitRefines, InductiveIInv, <1>1, PTL DEF Spec, KeepsContract, Contract!Spec
=============================================================================
