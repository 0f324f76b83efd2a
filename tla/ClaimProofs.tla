----------------------------- MODULE ClaimProofs -----------------------------
(***************************************************************************)
(* The claim's safety for every number of attempts and every length of the *)
(* Access URL that the read limit holds.                                   *)
(***************************************************************************)
EXTENDS ClaimRefinement, ExchangeProofs

(* Who spent the token, who was told so, and who was told otherwise: the   *)
(* server's answers agree with the owner it recorded, and a caller's answer*)
(* is the server's unless it is a gateway's.                               *)
TokenState ==
  /\ token = "spent" <=> owner # Nobody
  /\ \A c \in Calls :
       /\ post[c] = "sent" => owner # c
       /\ post[c] # "served" => reply[c] = NoResponse
       /\ post[c] = "served" => reply[c] \in {TheUrl, Forbidden}
       /\ owner = c => post[c] = "served"
       /\ reply[c] = TheUrl => owner = c
       /\ reply[c] = Forbidden => owner # c /\ token # "fresh"
       /\ post[c] = "none" => phase[c] = "idle" \/ result[c] = "input"
       /\ phase[c] = "idle" => post[c] = "none"
       /\ resp[c] \in {NoResponse, reply[c]} \cup GatewayPages
       /\ phase[c] # "idle" => op[c].name = "claim"
       /\ result[c] \in {"success", "clipped"} =>
            resp[c].form = "url" /\ got[c] = resp[c].len

CIInv == IInv /\ ClaimTypeOK /\ TokenState

USE CapAssumption, MaxLenAssumption, UrlLenAssumption, UrlFitsAssumption, NobodyAssumption

-----------------------------------------------------------------------------

(* The answers an attempt can get are responses, and what they are.        *)
LEMMA Answers ==
  /\ {TheUrl, Forbidden} \cup GatewayPages \subseteq Responses
  /\ TheUrl # Forbidden /\ TheUrl # NoResponse /\ Forbidden # NoResponse
  /\ TheUrl.status = "2xx" /\ TheUrl.form = "url" /\ TheUrl.len = UrlLen
  /\ Forbidden.status = "403" /\ Forbidden.form = "other"
  /\ NoResponse.status = "none" /\ NoResponse.form = "none"
  /\ \A r \in GatewayPages :
       r.status \in {"2xx", "other"} /\ r.form = "other" /\ r \notin {TheUrl, Forbidden, NoResponse}
<1>1. UrlLen \in 0..MaxLen /\ 1 \in 0..MaxLen /\ UrlLen # 0
  OBVIOUS
<1>2. TheUrl \in Responses /\ Forbidden \in Responses
  BY <1>1 DEF TheUrl, Forbidden, Responses, Statuses, Forms
<1>3. ASSUME NEW r \in GatewayPages
      PROVE  /\ r \in Responses /\ r.status \in {"2xx", "other"} /\ r.form = "other"
             /\ r \notin {TheUrl, Forbidden, NoResponse}
  <2>1. PICK s \in {"other", "2xx"} : r = [status |-> s, form |-> "other", len |-> 1]
    BY DEF GatewayPages
  <2>2. r.status = s /\ r.form = "other" /\ r.len = 1
    BY <2>1
  <2>3. r \in Responses
    BY <1>1, <2>1 DEF Responses, Statuses, Forms
  <2> QED
    BY <2>2, <2>3 DEF TheUrl, Forbidden, NoResponse
<1>4. /\ TheUrl # Forbidden /\ TheUrl # NoResponse /\ Forbidden # NoResponse
      /\ TheUrl.status = "2xx" /\ TheUrl.form = "url" /\ TheUrl.len = UrlLen
      /\ Forbidden.status = "403" /\ Forbidden.form = "other"
      /\ NoResponse.status = "none" /\ NoResponse.form = "none"
  BY DEF TheUrl, Forbidden, NoResponse
<1> QED
  BY <1>2, <1>3, <1>4

(* Every step of the claim is a step of the exchange, or leaves it alone.  *)
LEMMA ClaimStepIsExchangeStep ==
  ASSUME CIInv, [ClaimNext]_claimVars
  PROVE  [Next]_vars
<1>1. CASE UNCHANGED claimVars
  BY <1>1 DEF claimVars
<1>2. ASSUME NEW c \in Calls, Post(c) PROVE Next
  BY <1>2 DEF Post, Next, Claims
<1>3. ASSUME NEW c \in Calls, BadToken(c) PROVE Next
  BY <1>3 DEF BadToken, Next, Claims
<1>4. ASSUME NEW c \in Calls, Serve(c) \/ LosePost(c) PROVE UNCHANGED vars
  BY <1>4 DEF Serve, LosePost
<1>5. ASSUME NEW c \in Calls, ServerAnswers(c) PROVE Next
  <2>1. reply[c] \in {NoResponse, TheUrl, Forbidden} /\ Answer(c, reply[c])
    BY <1>5 DEF ServerAnswers, CIInv, ClaimTypeOK
  <2> QED
    BY <1>5, <2>1, Answers DEF Next, ServerAnswers, CIInv, TokenState, ClaimTypeOK
<1>6. ASSUME NEW c \in Calls, GatewayAnswers(c) PROVE Next
  BY <1>6, Answers DEF GatewayAnswers, Next
<1>7. ASSUME NEW c \in Calls, RequestFails(c) \/ Continue(c) PROVE Next
  BY <1>7 DEF RequestFails, Continue, Next
<1> QED
  BY <1>1, <1>2, <1>3, <1>4, <1>5, <1>6, <1>7 DEF ClaimNext

(* The server's side of the claim and the callers' view of it agree again  *)
(* after every step.                                                       *)
LEMMA InitCIInv == ClaimInit => CIInv
<1> SUFFICES ASSUME ClaimInit PROVE CIInv
  OBVIOUS
<1>1. IInv
  BY InitIInv DEF ClaimInit
<1>2. \A c \in Calls : /\ phase[c] = "idle" /\ result[c] = "none" /\ resp[c] = NoResponse
                       /\ post[c] = "none" /\ reply[c] = NoResponse
  BY DEF ClaimInit, Init
<1>3. ClaimTypeOK
  BY <1>1 DEF IInv, ClaimInit, ClaimTypeOK
<1>4. TokenState
  BY <1>2, Answers DEF TokenState, ClaimInit
<1> QED
  BY <1>1, <1>3, <1>4 DEF CIInv

LEMMA ServeCIInv ==
  ASSUME CIInv, NEW c \in Calls, Serve(c) \/ LosePost(c)
  PROVE  ClaimTypeOK' /\ TokenState'
<1>1. UNCHANGED vars
  BY DEF Serve, LosePost
<1>2. ClaimTypeOK'
  BY <1>1 DEF CIInv, ClaimTypeOK, TypeOK, Serve, LosePost, vars
<1>3. TokenState'
  BY <1>1, Answers DEF CIInv, IInv, CallState, TokenState, ClaimTypeOK, Serve, LosePost, vars
<1> QED
  BY <1>2, <1>3

LEMMA PostCIInv ==
  ASSUME CIInv, IInv', NEW c \in Calls, Post(c) \/ BadToken(c)
  PROVE  ClaimTypeOK' /\ TokenState'
<1>1. ClaimTypeOK'
  BY DEF CIInv, IInv, ClaimTypeOK, Post, BadToken, tokenVars
<1>2. CASE Post(c)
  <2>1. /\ phase[c] = "idle" /\ phase' = [phase EXCEPT ![c] = "waiting"]
        /\ (\E o \in Claims : op' = [op EXCEPT ![c] = o]) /\ post' = [post EXCEPT ![c] = "sent"]
        /\ UNCHANGED <<conn, resp, got, result, token, owner, reply>>
    BY <1>2 DEF Post, Start
  <2>4. op'[c].name = "claim" /\ \A d \in Calls \ {c} : op'[d] = op[d]
    BY <2>1 DEF Claims, CIInv, IInv, TypeOK
  <2>2. result[c] = "none" /\ resp[c] = NoResponse
    BY <2>1 DEF CIInv, IInv, CallState
  <2>3. post[c] # "served" /\ reply[c] = NoResponse /\ owner # c
    BY <2>1, <2>2, Answers DEF CIInv, TokenState, ClaimTypeOK
  <2> QED
    BY <1>1, <2>1, <2>2, <2>3, <2>4 DEF CIInv, IInv, TypeOK, ClaimTypeOK, TokenState
<1>3. CASE BadToken(c)
  <2>1. /\ phase[c] = "idle" /\ result' = [result EXCEPT ![c] = "input"]
        /\ phase' = [phase EXCEPT ![c] = "settled"]
        /\ \E o \in Claims : op' = [op EXCEPT ![c] = o]
        /\ UNCHANGED <<timer, conn, resp, got, token, owner, post, reply>>
    BY <1>3 DEF BadToken, Reject, tokenVars
  <2>2. op'[c].name = "claim" /\ \A d \in Calls \ {c} : op'[d] = op[d]
    BY <2>1 DEF Claims, CIInv, IInv, TypeOK
  <2> QED
    BY <1>1, <2>1, <2>2 DEF CIInv, IInv, TypeOK, TokenState
<1> QED
  BY <1>1, <1>2, <1>3

LEMMA AnswersCIInv ==
  ASSUME CIInv, IInv', NEW c \in Calls, ServerAnswers(c) \/ GatewayAnswers(c)
  PROVE  ClaimTypeOK' /\ TokenState'
<1>1. PICK r \in {reply[c]} \cup GatewayPages : Answer(c, r)
  BY DEF ServerAnswers, GatewayAnswers
<1>2. UNCHANGED tokenVars
  BY DEF ServerAnswers, GatewayAnswers
<1>3. ClaimTypeOK'
  BY <1>2 DEF CIInv, IInv, ClaimTypeOK, tokenVars
<1>4. TokenState'
  BY <1>1, <1>2 DEF CIInv, IInv, TypeOK, CallState, TokenState, Answer, tokenVars
<1> QED
  BY <1>3, <1>4

(* A step of a call under way that keeps the answer it has.                *)
LEMMA UnderWayCIInv ==
  ASSUME CIInv, IInv', NEW c \in Calls, UNCHANGED <<tokenVars, resp, op>>,
         \A d \in Calls \ {c} :
            phase'[d] = phase[d] /\ result'[d] = result[d] /\ got'[d] = got[d],
         phase[c] \in {"waiting", "checking", "reading"}, phase'[c] # "idle",
         result'[c] \in {"success", "clipped"} =>
            resp[c].form = "url" /\ got'[c] = resp[c].len
  PROVE  ClaimTypeOK' /\ TokenState'
<1>1. ClaimTypeOK'
  BY DEF CIInv, IInv, ClaimTypeOK, tokenVars
<1>2. post[c] # "none"
  BY DEF CIInv, IInv, CallState, TokenState
<1>3. TokenState'
  BY <1>2 DEF CIInv, IInv, TokenState, tokenVars
<1> QED
  BY <1>1, <1>3

(* What a claim makes of a body is a URL only if the body is one, whole:   *)
(* the read limit holds the Access URL.                                    *)
LEMMA FinishedUrl ==
  ASSUME CIInv, NEW c \in Calls, Finish(c),
         Decoded(op[c], resp[c], got[c]) \in {"success", "clipped"}
  PROVE  resp[c].form = "url" /\ got[c] = resp[c].len
<1>1. op[c].name = "claim" /\ phase[c] = "reading"
  BY DEF CIInv, TokenState, Finish
<1>2. resp[c].form = "url"
  BY <1>1 DEF Decoded
<1>3. resp[c].len = UrlLen
  BY <1>2, Answers DEF CIInv, TokenState, ClaimTypeOK
<1>4. got[c] = resp[c].len \/ got[c] = Cap["claim"]
  BY <1>1 DEF Finish, ReadAll
<1>5. got[c] \in Nat /\ got[c] <= resp[c].len /\ Cap["claim"] \in Nat
  <2>1. "claim" \in Names
    BY DEF Names
  <2> QED
    BY <2>1 DEF CIInv, IInv, TypeOK, CallState
<1> QED
  BY <1>2, <1>3, <1>4, <1>5

LEMMA CallStepCIInv ==
  ASSUME CIInv, IInv', NEW c \in Calls, RequestFails(c) \/ Continue(c)
  PROVE  ClaimTypeOK' /\ TokenState'
<1>0. UNCHANGED tokenVars
  BY DEF RequestFails, Continue
<1> USE DEF CIInv, IInv, TypeOK
<1>1. CASE TransportFails(c)
  BY <1>0, <1>1, UnderWayCIInv DEF TransportFails, Settle
<1>2. CASE TimerFires(c) /\ phase[c] = "waiting"
  BY <1>0, <1>2, UnderWayCIInv DEF TimerFires, Settle
<1>3. CASE TimerFires(c) /\ phase[c] # "waiting"
  BY <1>0, <1>3 DEF TimerFires, ClaimTypeOK, TokenState, tokenVars
<1>4. CASE CheckStatus(c)
  <2>1. StatusError(resp[c].status) \notin {"success", "clipped"}
    BY DEF StatusError
  <2>2. phase[c] = "checking" /\ result[c] = "none"
    BY <1>4 DEF CheckStatus, CallState
  <2> QED
    BY <1>0, <1>4, <2>1, <2>2, UnderWayCIInv DEF CheckStatus, Settle
<1>5. CASE Deliver(c) \/ Break(c)
  <2>1. phase[c] \in {"checking", "reading"} /\ result[c] = "none"
    BY <1>5 DEF Deliver, Break, CallState
  <2> QED
    BY <1>0, <1>5, <2>1, UnderWayCIInv DEF Deliver, Break
<1>6. CASE ReadFails(c)
  BY <1>0, <1>6, UnderWayCIInv DEF ReadFails, Settle
<1>7. CASE Finish(c)
  <2>1. result'[c] = Decoded(op[c], resp[c], got[c])
    BY <1>7 DEF Finish, Settle
  <2>2. result'[c] \in {"success", "clipped"} => resp[c].form = "url" /\ got[c] = resp[c].len
    BY <1>7, <2>1, FinishedUrl
  <2>3. phase[c] = "reading" /\ phase'[c] = "settled" /\ UNCHANGED <<op, resp, got>>
    BY <1>7 DEF Finish, Settle
  <2>4. \A d \in Calls \ {c} : phase'[d] = phase[d] /\ result'[d] = result[d]
    BY <1>7 DEF Finish, Settle
  <2> QED
    BY <1>0, <2>2, <2>3, <2>4, UnderWayCIInv
<1> QED
  BY <1>1, <1>2, <1>3, <1>4, <1>5, <1>6, <1>7 DEF RequestFails, Continue

LEMMA ClaimInductive == ClaimSpec => []CIInv
<1>1. CIInv /\ [ClaimNext]_claimVars => CIInv'
  <2> SUFFICES ASSUME CIInv, [ClaimNext]_claimVars PROVE CIInv'
    OBVIOUS
  <2>1. IInv'
    BY ClaimStepIsExchangeStep, NextIInv DEF CIInv
  <2>2. CASE UNCHANGED claimVars
    BY <2>1, <2>2 DEF claimVars, tokenVars, vars, CIInv, IInv, ClaimTypeOK, TokenState
  <2>3. CASE ClaimNext
    BY <2>1, <2>3, ServeCIInv, PostCIInv, AnswersCIInv, CallStepCIInv DEF ClaimNext, CIInv
  <2> QED
    BY <2>2, <2>3
<1> QED
  BY InitCIInv, <1>1, PTL DEF ClaimSpec

-----------------------------------------------------------------------------

(* The types of the claim's variables, the server's among them.            *)
THEOREM ClaimTypeCorrect == ClaimSpec => []ClaimTypeOK
BY ClaimInductive, PTL DEF CIInv

(* Claim's auth error is never of the attempt's own making: with one POST  *)
(* per attempt, a 403 means an unknown token or another attempt's.         *)
THEOREM RefusalIsSomebodyElses == ClaimSpec => []RefusalMeansSomebodyElse
<1>1. CIInv => RefusalMeansSomebodyElse
  <2> SUFFICES ASSUME CIInv, NEW c \in Calls, result[c] = "auth"
               PROVE  token = "unknown" \/ (token = "spent" /\ owner \in Calls \ {c})
    BY DEF RefusalMeansSomebodyElse
  <2>1. resp[c].status = "403"
    BY DEF CIInv, IInv, TypeOK, CallState, RefusalIsReported
  <2>2. reply[c] = Forbidden
    BY <2>1, Answers DEF CIInv, TokenState, ClaimTypeOK
  <2> QED
    BY <2>2 DEF CIInv, TokenState, ClaimTypeOK
<1> QED
  BY <1>1, ClaimInductive, PTL

(* A claim that returns a URL returns the whole Access URL, to the attempt *)
(* whose POST spent the token.                                             *)
THEOREM OwnerGetsTheUrl == ClaimSpec => []UrlGoesToTheOwner
<1>1. CIInv => UrlGoesToTheOwner
  <2> SUFFICES ASSUME CIInv, NEW c \in Calls, result[c] \in {"success", "clipped"}
               PROVE  owner = c /\ resp[c] = TheUrl /\ got[c] = UrlLen
    BY DEF UrlGoesToTheOwner
  <2>1. resp[c].form = "url" /\ got[c] = resp[c].len
    BY DEF CIInv, TokenState
  <2>2. resp[c] = TheUrl /\ reply[c] = TheUrl
    BY <2>1, Answers DEF CIInv, TokenState, ClaimTypeOK
  <2> QED
    BY <2>1, <2>2, Answers DEF CIInv, TokenState
<1> QED
  BY <1>1, ClaimInductive, PTL

-----------------------------------------------------------------------------
(* A claim is an exchange, and one attempt at a token of one use.          *)

(* All that is proved of the exchange holds of a claim: nothing it does    *)
(* besides touches a call.                                                 *)
THEOREM ClaimIsAnExchange == ClaimSpec => Spec
<1>1. ClaimInit => Init
  BY DEF ClaimInit
<1>2. CIInv /\ [ClaimNext]_claimVars => [Next]_vars
  BY ClaimStepIsExchangeStep
<1> QED
  BY <1>1, <1>2, ClaimInductive, PTL DEF ClaimSpec, Spec

(* What the caller sees does not change while a call is under way.         *)
LEMMA HiddenFromCaller ==
  ASSUME CIInv, UNCHANGED <<token, owner, result>>,
         \A c \in Calls : post'[c] = "none" <=> post[c] = "none",
         \A c \in Calls : \/ phase'[c] = phase[c]
                          \/ {phase[c], phase'[c]} \subseteq {"waiting", "checking", "reading"}
  PROVE  UNCHANGED OneTime!tvars
<1>1. AttemptState' = AttemptState
  BY DEF AttemptState
<1>2. AttemptOutcome' = AttemptOutcome
  BY DEF AttemptOutcome
<1> QED
  BY <1>1, <1>2 DEF OneTime!tvars

(* How the contract calls the result of a claim.                           *)
Told(out) ==
  CASE out = "success" -> "url" [] out = "auth" -> "refused"
    [] out \in {"none", "clipped"} -> out [] OTHER -> "failed"

(* A claim under way that returns does so with a permitted outcome.        *)
LEMMA ClaimReturns ==
  ASSUME CIInv, UNCHANGED tokenVars, NEW c \in Calls, NEW out, NEW k, Settle(c, out, k),
         phase[c] \in {"waiting", "checking", "reading"},
         Told(out) \in OneTime!Permitted(c)
  PROVE  OneTime!Next
<1>1. post[c] # "none" /\ UNCHANGED <<token, owner, post>>
  BY DEF CIInv, IInv, CallState, TokenState, tokenVars
<1>2. AttemptState' = [AttemptState EXCEPT ![c] = "over"]
  BY <1>1 DEF Settle, AttemptState, CIInv, IInv, TypeOK
<1>3. AttemptOutcome' = [AttemptOutcome EXCEPT ![c] = Told(out)]
  BY DEF Settle, AttemptOutcome, Told, CIInv, IInv, TypeOK
<1>4. AttemptState[c] = "made"
  BY DEF AttemptState
<1>5. OneTime!Return(c, Told(out))
  BY <1>1, <1>2, <1>3, <1>4 DEF OneTime!Return
<1> QED
  BY <1>5 DEF OneTime!Next

(* A claim may fail at any time.                                           *)
LEMMA FailingIsPermitted ==
  ASSUME NEW c, NEW out \in {"request", "read", "rawread", "notURL", "payment", "http"}
  PROVE  Told(out) \in OneTime!Permitted(c)
BY DEF Told, OneTime!Permitted

(* A refusal is of an unknown token, or of one that somebody else spent.   *)
LEMMA RefusalIsPermitted ==
  ASSUME CIInv, NEW c \in Calls, resp[c].status = "403"
  PROVE  Told("auth") \in OneTime!Permitted(c)
<1>1. reply[c] = Forbidden
  BY Answers DEF CIInv, TokenState, ClaimTypeOK
<1>2. token = "unknown" \/ owner \notin {c, Nobody}
  BY <1>1 DEF CIInv, TokenState, ClaimTypeOK
<1> QED
  BY <1>2 DEF Told, OneTime!Permitted

LEMMA InitKeepsToken == ClaimInit => OneTime!Init
BY DEF ClaimInit, Init, OneTime!Init, AttemptState, AttemptOutcome

(* The server's step spends a fresh token or is seen by nobody.            *)
LEMMA ServeKeepsToken ==
  ASSUME CIInv, NEW c \in Calls, Serve(c) \/ LosePost(c)
  PROVE  [OneTime!Next]_(OneTime!tvars)
<1>1. UNCHANGED vars /\ post[c] = "sent" /\ post' \in [Calls -> {"none", "sent", "served", "lost"}]
      /\ post'[c] # "none" /\ \A d \in Calls \ {c} : post'[d] = post[d]
  BY DEF Serve, LosePost, CIInv, ClaimTypeOK
<1>2. \A d \in Calls : post'[d] = "none" <=> post[d] = "none"
  BY <1>1
<1>3. UNCHANGED <<phase, result>>
  BY <1>1 DEF vars
<1>4. CASE UNCHANGED <<token, owner>>
  BY <1>2, <1>3, <1>4, HiddenFromCaller
<1>5. CASE token = "fresh" /\ token' = "spent" /\ owner' = c
  <2>1. AttemptState' = AttemptState /\ AttemptOutcome' = AttemptOutcome
    BY <1>2, <1>3 DEF AttemptState, AttemptOutcome
  <2>2. phase[c] # "idle"
    BY <1>1 DEF CIInv, TokenState
  <2>3. AttemptState[c] \in {"made", "over"}
    BY <1>1, <2>2 DEF AttemptState
  <2>4. OneTime!Spend(c)
    BY <1>5, <2>1, <2>3 DEF OneTime!Spend
  <2> QED
    BY <2>4 DEF OneTime!Next
<1> QED
  BY <1>4, <1>5 DEF Serve, LosePost

LEMMA PostKeepsToken ==
  ASSUME CIInv, NEW c \in Calls, Post(c) \/ BadToken(c)
  PROVE  OneTime!Next
<1>0. phase[c] = "idle" /\ post[c] = "none"
  BY DEF Post, BadToken, Start, Reject, CIInv, TokenState
<1>1. CASE Post(c)
  <2>1. /\ phase' = [phase EXCEPT ![c] = "waiting"] /\ post' = [post EXCEPT ![c] = "sent"]
        /\ UNCHANGED <<result, token, owner>>
    BY <1>1 DEF Post, Start
  <2>2. AttemptState' = [AttemptState EXCEPT ![c] = "made"] /\ AttemptState[c] = "idle"
    BY <1>0, <2>1 DEF AttemptState, CIInv, IInv, TypeOK, ClaimTypeOK
  <2>3. AttemptOutcome' = AttemptOutcome
    BY <2>1 DEF AttemptOutcome
  <2>4. OneTime!Attempt(c)
    BY <2>1, <2>2, <2>3 DEF OneTime!Attempt
  <2> QED
    BY <2>4 DEF OneTime!Next
<1>2. CASE BadToken(c)
  <2>1. /\ phase' = [phase EXCEPT ![c] = "settled"] /\ result' = [result EXCEPT ![c] = "input"]
        /\ UNCHANGED <<post, token, owner>>
    BY <1>2 DEF BadToken, Reject, tokenVars
  <2>2. AttemptState' = [AttemptState EXCEPT ![c] = "declined"] /\ AttemptState[c] = "idle"
    BY <1>0, <2>1 DEF AttemptState, CIInv, IInv, TypeOK
  <2>3. AttemptOutcome' = [AttemptOutcome EXCEPT ![c] = "failed"]
    BY <2>1 DEF AttemptOutcome, CIInv, IInv, TypeOK
  <2>4. OneTime!Decline(c)
    BY <2>1, <2>2, <2>3 DEF OneTime!Decline
  <2> QED
    BY <2>4 DEF OneTime!Next
<1> QED
  BY <1>1, <1>2

LEMMA AnswersKeepToken ==
  ASSUME CIInv, NEW c \in Calls, ServerAnswers(c) \/ GatewayAnswers(c)
  PROVE  UNCHANGED OneTime!tvars
<1>1. /\ UNCHANGED tokenVars /\ UNCHANGED result
      /\ phase[c] = "waiting" /\ phase' = [phase EXCEPT ![c] = "checking"]
  BY DEF ServerAnswers, GatewayAnswers, Answer
<1> QED
  BY <1>1, HiddenFromCaller DEF tokenVars, CIInv, IInv, TypeOK

(* What a claim makes of the body it has read.                             *)
LEMMA FinishKeepsToken ==
  ASSUME CIInv, NEW c \in Calls, Finish(c), UNCHANGED tokenVars
  PROVE  OneTime!Next
<1> DEFINE out == Decoded(op[c], resp[c], got[c])
<1>1. phase[c] = "reading" /\ op[c].name = "claim" /\ Settle(c, out, "closed")
  BY DEF Finish, CIInv, TokenState
<1>2. CASE resp[c].form # "url"
  <2>1. out = "notURL"
    BY <1>1, <1>2 DEF Decoded
  <2> QED
    BY <1>1, <2>1, FailingIsPermitted, ClaimReturns
<1>3. CASE resp[c].form = "url"
  <2>1. out = IF got[c] < resp[c].len THEN "clipped" ELSE "success"
    BY <1>1, <1>3 DEF Decoded
  <2>2. got[c] = resp[c].len /\ resp[c].len \in Nat
    <3>1. got[c] = resp[c].len
      BY <2>1, FinishedUrl
    <3> QED
      BY <3>1 DEF CIInv, IInv, TypeOK
  <2>3. out = "success"
    BY <2>1, <2>2
  <2>4. owner = c
    BY <1>3, Answers DEF CIInv, TokenState, ClaimTypeOK
  <2>5. Told("success") \in OneTime!Permitted(c)
    BY <2>4 DEF Told, OneTime!Permitted
  <2> QED
    BY <1>1, <2>3, <2>5, ClaimReturns
<1> QED
  BY <1>2, <1>3

LEMMA CallStepKeepsToken ==
  ASSUME CIInv, NEW c \in Calls, RequestFails(c) \/ Continue(c)
  PROVE  [OneTime!Next]_(OneTime!tvars)
<1>0. UNCHANGED tokenVars
  BY DEF RequestFails, Continue
<1>1. CASE TransportFails(c)
  BY <1>0, <1>1, FailingIsPermitted, ClaimReturns DEF TransportFails
<1>2. CASE TimerFires(c) /\ phase[c] = "waiting"
  BY <1>0, <1>2, FailingIsPermitted, ClaimReturns DEF TimerFires
<1>3. CASE TimerFires(c) /\ phase[c] # "waiting"
  BY <1>0, <1>3, HiddenFromCaller DEF TimerFires, tokenVars
<1>4. CASE CheckStatus(c) /\ StatusError(resp[c].status) = "none"
  BY <1>0, <1>4, HiddenFromCaller DEF CheckStatus, tokenVars, CIInv, IInv, TypeOK, Settle
<1>5. CASE CheckStatus(c) /\ StatusError(resp[c].status) # "none"
  <2>1. phase[c] = "checking" /\ Settle(c, StatusError(resp[c].status), conn[c])
    BY <1>5 DEF CheckStatus
  <2>2. CASE StatusError(resp[c].status) = "auth"
    <3>1. resp[c].status = "403"
      BY <2>2 DEF StatusError
    <3> QED
      BY <1>0, <2>1, <2>2, <3>1, RefusalIsPermitted, ClaimReturns
  <2>3. CASE StatusError(resp[c].status) # "auth"
    <3>1. StatusError(resp[c].status) \in {"payment", "http"}
      BY <1>5, <2>3 DEF StatusError
    <3> QED
      BY <1>0, <2>1, <3>1, FailingIsPermitted, ClaimReturns
  <2> QED
    BY <2>2, <2>3
<1>6. CASE Deliver(c) \/ Break(c)
  BY <1>0, <1>6, HiddenFromCaller DEF Deliver, Break, tokenVars
<1>7. CASE ReadFails(c)
  <2>1. phase[c] = "reading"
        /\ \E out \in {"read", "rawread"} : Settle(c, out, "closed")
    BY <1>7 DEF ReadFails
  <2> QED
    BY <1>0, <2>1, FailingIsPermitted, ClaimReturns
<1>8. CASE Finish(c)
  BY <1>0, <1>8, FinishKeepsToken
<1> QED
  BY <1>1, <1>2, <1>3, <1>4, <1>5, <1>6, <1>7, <1>8 DEF RequestFails, Continue

(* Claim keeps the contract of a token of one use, for any number of       *)
(* attempts, in either SDK.                                                *)
THEOREM ClaimKeepsTokenContract == ClaimSpec => KeepsTokenContract
<1>1. CIInv /\ [ClaimNext]_claimVars => [OneTime!Next]_(OneTime!tvars)
  <2> SUFFICES ASSUME CIInv, [ClaimNext]_claimVars PROVE [OneTime!Next]_(OneTime!tvars)
    OBVIOUS
  <2>1. CASE UNCHANGED claimVars
    BY <2>1, HiddenFromCaller DEF claimVars, tokenVars, vars
  <2>2. CASE ClaimNext
    BY <2>2, ServeKeepsToken, PostKeepsToken, AnswersKeepToken, CallStepKeepsToken DEF ClaimNext
  <2> QED
    BY <2>1, <2>2
<1> QED
  BY InitKeepsToken, ClaimInductive, <1>1, PTL DEF ClaimSpec, KeepsTokenContract, OneTime!Spec
=============================================================================
