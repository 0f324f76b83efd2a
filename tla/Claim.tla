-------------------------------- MODULE Claim --------------------------------
(***************************************************************************)
(* Claim of sdk/go/claim.go and claim of sdk/node/src/claim.ts: several    *)
(* callers, in one application or in several, exchange the same setup      *)
(* token for an Access URL.  Each attempt is one exchange; the server is   *)
(* modelled from what the doc comments of Claim say of it.  A POST may     *)
(* reach the server after its caller has given up, and an answer of a      *)
(* gateway may overtake the server's own.                                  *)
(***************************************************************************)
EXTENDS Exchange

CONSTANTS
  UrlLen,   \* length in chunks of the Access URL the server issues
  Nobody    \* the owner of a token that no attempt has spent

VARIABLES
  token,    \* the server's record of the setup token
  owner,    \* the attempt whose POST spent the token
  post,     \* post[c]: where the attempt's POST is
  reply     \* reply[c]: the server's answer to it

tokenVars == <<token, owner, post, reply>>
claimVars == <<vars, tokenVars>>

ASSUME UrlLenAssumption == UrlLen \in 1..MaxLen
ASSUME UrlFitsAssumption == UrlLen <= Cap["claim"]
ASSUME NobodyAssumption == Nobody \notin Calls

Claims == {o \in Ops : o.name = "claim"}

TheUrl    == [status |-> "2xx", form |-> "url", len |-> UrlLen]
Forbidden == [status |-> "403", form |-> "other", len |-> 1]

(* What stands between the caller and the server may answer by itself: an  *)
(* error page, or a page of its own with status 200.                       *)
GatewayPages == {[status |-> s, form |-> "other", len |-> 1] : s \in {"other", "2xx"}}

ClaimInit ==
  /\ Init
  /\ token \in {"fresh", "unknown"}
  /\ owner = Nobody
  /\ post = [c \in Calls |-> "none"]
  /\ reply = [c \in Calls |-> NoResponse]

(* DecodeSetupToken refuses the token, or the POST is sent: once.          *)
Post(c) ==
  /\ \E o \in Claims : Start(c, o)
  /\ post' = [post EXCEPT ![c] = "sent"]
  /\ UNCHANGED <<token, owner, reply>>

BadToken(c) == (\E o \in Claims : Reject(c, o)) /\ UNCHANGED tokenVars

(* The server handles the POST, whether or not its caller still waits.     *)
Serve(c) ==
  /\ post[c] = "sent"
  /\ post' = [post EXCEPT ![c] = "served"]
  /\ \/ /\ token = "fresh"
        /\ token' = "spent" /\ owner' = c
        /\ reply' = [reply EXCEPT ![c] = TheUrl]
     \/ /\ token # "fresh"
        /\ reply' = [reply EXCEPT ![c] = Forbidden]
        /\ UNCHANGED <<token, owner>>
  /\ UNCHANGED vars

(* The POST is lost before it reaches the server.                          *)
LosePost(c) ==
  /\ post[c] = "sent"
  /\ post' = [post EXCEPT ![c] = "lost"]
  /\ UNCHANGED <<vars, token, owner, reply>>

ServerAnswers(c) ==
  /\ post[c] = "served"
  /\ Answer(c, reply[c])
  /\ UNCHANGED tokenVars

GatewayAnswers(c) ==
  /\ \E r \in GatewayPages : Answer(c, r)
  /\ UNCHANGED tokenVars

(* Faulty: a failed request is sent again.                                 *)
FaultyRequestFails(c) ==
  /\ phase[c] = "waiting"
  /\ post' = [post EXCEPT ![c] = "sent"]
  /\ UNCHANGED <<vars, token, owner, reply>>

(* The transport fails or the timer fires; nothing is sent again.          *)
RequestFails(c) == (TransportFails(c) \/ TimerFires(c)) /\ UNCHANGED tokenVars

Continue(c) ==
  /\ CheckStatus(c) \/ Deliver(c) \/ Break(c) \/ ReadFails(c) \/ Finish(c)
  /\ UNCHANGED tokenVars

ClaimNext ==
  \E c \in Calls :
    \/ Post(c) \/ BadToken(c) \/ Serve(c) \/ LosePost(c)
    \/ ServerAnswers(c) \/ GatewayAnswers(c) \/ RequestFails(c) \/ Continue(c)

ClaimSpec == ClaimInit /\ [][ClaimNext]_claimVars

-----------------------------------------------------------------------------

ClaimTypeOK ==
  /\ TypeOK
  /\ token \in {"fresh", "unknown", "spent"}
  /\ owner \in Calls \cup {Nobody}
  /\ post \in [Calls -> {"none", "sent", "served", "lost"}]
  /\ reply \in [Calls -> {NoResponse, TheUrl, Forbidden}]

(* A claim that ends in the auth error met a token that never existed or   *)
(* that somebody else had spent: never one it had spent itself (the doc of *)
(* Claim: the user is to be warned of a 403, so it must not be self-made). *)
RefusalMeansSomebodyElse ==
  \A c \in Calls : result[c] = "auth" =>
    \/ token = "unknown"
    \/ token = "spent" /\ owner \in Calls \ {c}

(* A claim that returns a text returns the Access URL, the whole of it, to *)
(* the attempt that spent the token; no page on the way is taken for one.  *)
UrlGoesToTheOwner ==
  \A c \in Calls : result[c] \in {"success", "clipped"} =>
    owner = c /\ resp[c] = TheUrl /\ got[c] = UrlLen
=============================================================================
