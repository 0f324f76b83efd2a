------------------------------ MODULE Exchange ------------------------------
(***************************************************************************)
(* One SDK call over HTTP, from the request to the value or error it       *)
(* returns: getJSON of sdk/go/client.go and getJson of                     *)
(* sdk/node/src/client.ts behind getAccounts, info and resolveCurrency,    *)
(* and the exchange inside Claim/claim.  The call races its timer, the     *)
(* network and the server; any of them may stop at any point.              *)
(*                                                                         *)
(* Bodies are counted in chunks.  A chunk stands for whatever unit makes   *)
(* the read limits of Go whole numbers.                                    *)
(***************************************************************************)
EXTENDS Naturals

CONSTANTS
  Calls,    \* identities of the calls
  Cap,      \* Go's LimitReader bound in each function, in chunks
  MaxLen    \* bound: longest body the environment sends, in chunks

VARIABLES
  op,       \* op[c]: the function that is called, of which SDK
  phase,    \* phase[c]: how far the call has come
  timer,    \* timer[c]: http.Client.Timeout, or the AbortController's timer
  conn,     \* conn[c]: the response body stream the call holds
  resp,     \* resp[c]: what the server answered, a history variable
  got,      \* got[c]: body chunks read so far
  result    \* result[c]: what the caller receives

vars == <<op, phase, timer, conn, resp, got, result>>

Names == {"accounts", "info", "currency", "claim"}

Ops == [sdk : {"go", "node"}, name : Names]

(* The status classes statusError tells apart.                             *)
Statuses == {"2xx", "402", "403", "other"}

(* What a body is to the decoders: JSON of the declared shape, JSON of     *)
(* another shape, text that starts with http:// or https://, anything else.*)
Forms == {"shaped", "misshaped", "url", "other"}

NoResponse == [status |-> "none", form |-> "none", len |-> 0]

Responses ==
  {r \in [status : Statuses, form : Forms, len : 0..MaxLen] :
     r.len = 0 => r.form = "other"}

Refusals == {"payment", "auth", "http"}

Results ==
  {"none", "input", "request", "read", "rawread", "notJSON", "parse",
   "notURL", "success", "clipped"} \cup Refusals

ASSUME CapAssumption == Cap \in [Names -> Nat \ {0}]
ASSUME MaxLenAssumption == MaxLen \in Nat

-----------------------------------------------------------------------------

(* statusError: nil for a 2xx, an error of its own for 402 and 403.        *)
StatusError(status) ==
  CASE status = "2xx" -> "none"
    [] status = "402" -> "payment"
    [] status = "403" -> "auth"
    [] OTHER          -> "http"

(* Faulty: a broken stream taken for the end of the body.                  *)
FaultyReadAll(c) ==
  got[c] = resp[c].len \/ conn[c] = "broken" \/ (op[c].sdk = "go" /\ got[c] = Cap[op[c].name])

(* No more of the body is read: its end was seen, or Go's limit reached.   *)
ReadAll(c) ==
  \/ got[c] = resp[c].len
  \/ op[c].sdk = "go" /\ got[c] = Cap[op[c].name]

(* Faulty: no test that a claim's text is a URL.                           *)
FaultyDecoded(o, r, n) ==
  IF o.name = "claim" THEN IF n < r.len THEN "clipped" ELSE "success"
  ELSE IF r.form = "shaped" /\ n = r.len THEN "success" ELSE "notJSON"

(* What the call makes of the text it read: the prefix test of Claim, the  *)
(* typed decode of Go, and in Node JSON.parse, then the strict normalizer  *)
(* for accounts and the lenient property reads of info and currency.       *)
(* "clipped" is a returned value that lacks the end of what was sent.      *)
Decoded(o, r, n) ==
  CASE o.name = "claim" /\ r.form # "url" -> "notURL"
    [] o.name = "claim" /\ r.form = "url" -> IF n < r.len THEN "clipped" ELSE "success"
    [] o.name # "claim" /\ (r.form \notin {"shaped", "misshaped"} \/ n < r.len) -> "notJSON"
    [] o.name # "claim" /\ n = r.len /\ r.form = "shaped" -> "success"
    [] OTHER -> IF o.sdk = "go" THEN "notJSON"
                ELSE IF o.name = "accounts" THEN "parse" ELSE "success"

(* Faulty: the body is not closed when the call returns early.             *)
FaultySettle(c, out, conn2) ==
  /\ phase' = [phase EXCEPT ![c] = "settled"]
  /\ result' = [result EXCEPT ![c] = out]
  /\ conn' = [conn EXCEPT ![c] = conn2]
  /\ UNCHANGED <<op, resp, got>>

(* The call returns: Go's deferred Close ends the timer and gives the      *)
(* connection back; Node's fetch gives it back only once the text was read.*)
Settle(c, out, conn2) ==
  /\ phase' = [phase EXCEPT ![c] = "settled"]
  /\ result' = [result EXCEPT ![c] = out]
  /\ conn' = [conn EXCEPT ![c] = IF op[c].sdk = "go" /\ @ # "none" THEN "closed" ELSE conn2]
  /\ UNCHANGED <<op, resp, got>>

Disarm(c) == timer' = [timer EXCEPT ![c] = IF @ = "armed" THEN "off" ELSE @]

-----------------------------------------------------------------------------

Init ==
  /\ op = [c \in Calls |-> [sdk |-> "go", name |-> "accounts"]]
  /\ phase = [c \in Calls |-> "idle"]
  /\ timer = [c \in Calls |-> "off"]
  /\ conn = [c \in Calls |-> "none"]
  /\ resp = [c \in Calls |-> NoResponse]
  /\ got = [c \in Calls |-> 0]
  /\ result = [c \in Calls |-> "none"]

(* The request is built and handed to the transport, its timer running.    *)
Start(c, o) ==
  /\ phase[c] = "idle"
  /\ op' = [op EXCEPT ![c] = o]
  /\ phase' = [phase EXCEPT ![c] = "waiting"]
  /\ timer' = [timer EXCEPT ![c] = "armed"]
  /\ UNCHANGED <<conn, resp, got, result>>

(* An argument no request can be made from: a setup token or a currency    *)
(* URL that does not parse.  Nothing is sent.                              *)
Reject(c, o) ==
  /\ phase[c] = "idle"
  /\ o.name \in {"claim", "currency"}
  /\ op' = [op EXCEPT ![c] = o]
  /\ phase' = [phase EXCEPT ![c] = "settled"]
  /\ result' = [result EXCEPT ![c] = "input"]
  /\ UNCHANGED <<timer, conn, resp, got>>

(* Refused, reset or lost before the header of a response arrives.         *)
TransportFails(c) ==
  /\ phase[c] = "waiting"
  /\ Settle(c, "request", "none")
  /\ Disarm(c)

(* The time is up.  While Do or fetch is pending it fails them; Go's timer *)
(* also runs while the body is read, Node's was cleared by then.           *)
TimerFires(c) ==
  /\ timer[c] = "armed"
  /\ timer' = [timer EXCEPT ![c] = "fired"]
  /\ IF phase[c] = "waiting"
     THEN Settle(c, "request", "none")
     ELSE UNCHANGED <<op, phase, conn, resp, got, result>>

(* The response header arrives; Do or fetch returns.  Node's finally       *)
(* clears the timer here.                                                  *)
Answer(c, r) ==
  /\ phase[c] = "waiting"
  /\ phase' = [phase EXCEPT ![c] = "checking"]
  /\ resp' = [resp EXCEPT ![c] = r]
  /\ conn' = [conn EXCEPT ![c] = "open"]
  /\ IF op[c].sdk = "node" THEN Disarm(c) ELSE UNCHANGED timer
  /\ UNCHANGED <<op, got, result>>

(* Faulty: the body is decoded before the status is looked at.             *)
FaultyCheckStatus(c) ==
  /\ phase[c] = "checking"
  /\ phase' = [phase EXCEPT ![c] = "reading"]
  /\ UNCHANGED <<op, timer, conn, resp, got, result>>

(* The status decides before any of the body is looked at.                 *)
CheckStatus(c) ==
  /\ phase[c] = "checking"
  /\ \/ /\ StatusError(resp[c].status) = "none"
        /\ phase' = [phase EXCEPT ![c] = "reading"]
        /\ UNCHANGED <<op, timer, conn, resp, got, result>>
     \/ /\ StatusError(resp[c].status) # "none"
        /\ Settle(c, StatusError(resp[c].status), conn[c])
        /\ Disarm(c)

(* Faulty: one chunk past the end.                                         *)
FaultyDeliver(c) ==
  /\ phase[c] = "reading" /\ conn[c] = "open"
  /\ got[c] <= resp[c].len
  /\ got' = [got EXCEPT ![c] = @ + 1]
  /\ UNCHANGED <<op, phase, timer, conn, resp, result>>

(* The network delivers one more chunk of the body ...                     *)
Deliver(c) ==
  /\ phase[c] = "reading" /\ conn[c] = "open" /\ ~ReadAll(c)
  /\ got' = [got EXCEPT ![c] = @ + 1]
  /\ UNCHANGED <<op, phase, timer, conn, resp, result>>

(* ... or breaks before its end.                                           *)
Break(c) ==
  /\ phase[c] \in {"checking", "reading"}
  /\ conn[c] = "open" /\ got[c] < resp[c].len
  /\ conn' = [conn EXCEPT ![c] = "broken"]
  /\ UNCHANGED <<op, phase, timer, resp, got, result>>

(* Faulty: the timer no longer covers the body.                            *)
FaultyReadFails(c) ==
  /\ phase[c] = "reading"
  /\ conn[c] = "broken" /\ ~ReadAll(c)
  /\ Settle(c, "read", "closed")
  /\ Disarm(c)

(* The read stops with an error: the stream broke or, in Go, the timer     *)
(* fired.  Go reports a fixed message; in Node the rejection of text() is  *)
(* caught nowhere and reaches the caller as it is.                         *)
ReadFails(c) ==
  /\ phase[c] = "reading"
  /\ \/ conn[c] = "broken" /\ ~ReadAll(c)
     \/ op[c].sdk = "go" /\ timer[c] = "fired" /\ got[c] < Cap[op[c].name]
  /\ Settle(c, IF op[c].sdk = "go" THEN "read" ELSE "rawread", "closed")
  /\ Disarm(c)

(* The read ends and what was read is decoded.                             *)
Finish(c) ==
  /\ phase[c] = "reading" /\ ReadAll(c)
  /\ Settle(c, Decoded(op[c], resp[c], got[c]), "closed")
  /\ Disarm(c)

Next ==
  \E c \in Calls :
    \/ \E o \in Ops : Start(c, o) \/ Reject(c, o)
    \/ TransportFails(c) \/ TimerFires(c)
    \/ \E r \in Responses : Answer(c, r)
    \/ CheckStatus(c) \/ Deliver(c) \/ Break(c) \/ ReadFails(c) \/ Finish(c)

Spec == Init /\ [][Next]_vars

(* The runtime runs the call's own code and fires its timer.  Nothing is   *)
(* assumed of the server and the network: they may stay silent for ever.   *)
Fairness ==
  \A c \in Calls :
    WF_vars(TimerFires(c)) /\ WF_vars(CheckStatus(c))
      /\ WF_vars(ReadFails(c)) /\ WF_vars(Finish(c))

FairSpec == Spec /\ Fairness

-----------------------------------------------------------------------------

TypeOK ==
  /\ op \in [Calls -> Ops]
  /\ phase \in [Calls -> {"idle", "waiting", "checking", "reading", "settled"}]
  /\ timer \in [Calls -> {"off", "armed", "fired"}]
  /\ conn \in [Calls -> {"none", "open", "broken", "closed"}]
  /\ resp \in [Calls -> Responses \cup {NoResponse}]
  /\ got \in [Calls -> 0..MaxLen]
  /\ result \in [Calls -> Results]

(* A server's refusal reaches the caller as that refusal and nothing else  *)
(* does: whatever the body is, however the stream ends and even when the   *)
(* timer fires between the header and the check, a 403 is an auth error    *)
(* and an auth error was a 403 (getJSON and Claim: status before decode).  *)
RefusalIsReported ==
  \A c \in Calls : phase[c] = "settled" =>
    /\ result[c] = "auth" <=> resp[c].status = "403"
    /\ result[c] = "payment" <=> resp[c].status = "402"
    /\ result[c] = "http" <=> resp[c].status = "other"

(* A call that returned left no timer behind that could still fire, and in *)
(* Go no response body that is still held: a leaked one would pin its      *)
(* connection (the defer of Close, the finally of clearTimeout).           *)
NothingLeftBehind ==
  \A c \in Calls : phase[c] = "settled" =>
    /\ timer[c] # "armed"
    /\ op[c].sdk = "go" => conn[c] \in {"none", "closed"}

(* A body that was cut short, by the network, the timer or Go's limit, is  *)
(* never taken for a complete JSON answer; only a claim's text may come    *)
(* back clipped, and then by the limit alone.                              *)
CutBodyIsNoAnswer ==
  \A c \in Calls : phase[c] = "settled" /\ got[c] < resp[c].len =>
    /\ result[c] # "success"
    /\ result[c] = "clipped" => op[c].name = "claim" /\ got[c] = Cap[op[c].name]

(* A call returns within its timeout, however the server and the network   *)
(* behave (DefaultTimeout and DEFAULT_TIMEOUT_MS bound the request).       *)
Returns(c) == (phase[c] = "waiting") ~> (phase[c] = "settled")

EveryCallReturns == \A c \in Calls : Returns(c)

(* What the code does guarantee: a Go call returns, and so does a Node call*)
(* unless it was answered with a 2xx and the network does not finish the   *)
(* body, which no timer covers then.                                       *)
ReturnsOrReads ==
  \A c \in Calls :
    (phase[c] = "waiting") ~>
      \/ phase[c] = "settled"
      \/ op[c].sdk = "node" /\ phase[c] = "reading" /\ resp[c].status = "2xx"
=============================================================================
