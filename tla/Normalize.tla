------------------------------ MODULE Normalize ------------------------------
(***************************************************************************)
(* normalizeAccountSet of sdk/go/normalize.go and sdk/node/src/normalize.ts*)
(* after decoding: the loop over a response's accounts that fills in the   *)
(* connection ids protocol v1 does not send and synthesizes the            *)
(* connections list.  One step is one turn of the loop.                    *)
(*                                                                         *)
(* Strings are values; what the code does to one is Trim it and compare it *)
(* with the empty string and with other strings.  An instance of the module*)
(* is one language: TrimSpace and trim differ (on U+FEFF and U+0085).      *)
(***************************************************************************)
EXTENDS Naturals, Sequences

CONSTANTS
  Str,      \* the strings ids, domains, URLs and names are taken from
  Blank,    \* the empty string
  Trim,     \* Trim[s]: s without surrounding white space, in one language
  NoOrg,    \* an account without an org object
  Sent,     \* stands for the contents of a connection the server sent
  Inputs    \* the decoded responses considered

Orgs == [id : Str, domain : Str, sfinUrl : Str, name : Str]

RawAccounts == [connId : Str, org : Orgs \cup {NoOrg}]

(* A Connection: its id and what it was made from, an org or the wire.     *)
Connections == [connId : Str, name : Str, of : Orgs \cup {Sent}]

Responses == [connections : Seq(Connections), accounts : Seq(RawAccounts)]

ASSUME BlankAssumption == Blank \in Str
ASSUME TrimAssumption == Trim \in [Str -> Str] /\ Trim[Blank] = Blank
ASSUME MarksAssumption == NoOrg \notin Orgs /\ Sent \notin Orgs
ASSUME InputsAssumption ==
  Inputs \subseteq Responses
    /\ \A r \in Inputs : \A k \in DOMAIN r.connections : r.connections[k].of = Sent

VARIABLES
  raw,          \* the decoded response, never changed
  connections,  \* set.Connections / connections
  seen,         \* the ids of the seen map / Set
  accounts      \* set.Accounts / accounts: [connId] of each account so far

vars == <<raw, connections, seen, accounts>>

-----------------------------------------------------------------------------

(* The first of id, domain and sfin-url that is not blank, trimmed.        *)
DeriveConnID(org) ==
  CASE Trim[org.id] # Blank -> Trim[org.id]
    [] Trim[org.id] = Blank /\ Trim[org.domain] # Blank -> Trim[org.domain]
    [] OTHER -> Trim[org.sfinUrl]

OrgDisplayName(org) == IF Trim[org.name] # Blank THEN Trim[org.name] ELSE Trim[org.domain]

(* Faulty: the contents of the connection are not taken from the org.      *)
FaultySynthesized(org) ==
  [connId |-> DeriveConnID(org), name |-> OrgDisplayName(org), of |-> NoOrg]

Synthesized(org) ==
  [connId |-> DeriveConnID(org), name |-> OrgDisplayName(org), of |-> org]

(* Faulty: the ids of the connections that were sent are not entered.      *)
FaultyInit ==
  /\ raw \in Inputs
  /\ connections = raw.connections
  /\ seen = {}
  /\ accounts = <<>>

(* The map starts with the ids of the connections that were sent.          *)
Init ==
  /\ raw \in Inputs
  /\ connections = raw.connections
  /\ seen = {raw.connections[k].connId : k \in DOMAIN raw.connections}
  /\ accounts = <<>>

(* The account the loop turns to next.                                     *)
Current == raw.accounts[Len(accounts) + 1]

(* account.ConnID keeps what the server sent, if anything.                 *)
Keep(ra) == accounts' = Append(accounts, [connId |->
              IF ra.org # NoOrg /\ ra.connId = Blank THEN DeriveConnID(ra.org) ELSE ra.connId])

(* Faulty: the id is not entered in the map of those seen.                 *)
FaultyAddConnection ==
  /\ Len(accounts) < Len(raw.accounts)
  /\ Current.org # NoOrg
  /\ DeriveConnID(Current.org) \notin seen \cup {Blank}
  /\ connections' = Append(connections, Synthesized(Current.org))
  /\ Keep(Current)
  /\ UNCHANGED <<raw, seen>>

(* A turn that synthesizes a connection: the org's id was not seen before. *)
AddConnection ==
  /\ Len(accounts) < Len(raw.accounts)
  /\ Current.org # NoOrg
  /\ DeriveConnID(Current.org) \notin seen \cup {Blank}
  /\ seen' = seen \cup {DeriveConnID(Current.org)}
  /\ connections' = Append(connections, Synthesized(Current.org))
  /\ Keep(Current)
  /\ UNCHANGED raw

(* Faulty: an account that has an id of its own skips its org.             *)
FaultyNextAccount ==
  /\ Len(accounts) < Len(raw.accounts)
  /\ Current.org # NoOrg /\ Current.connId = Blank =>
       DeriveConnID(Current.org) \in seen \cup {Blank}
  /\ Keep(Current)
  /\ UNCHANGED <<raw, connections, seen>>

(* A turn that does not: no org, no id to derive, or one already seen.     *)
NextAccount ==
  /\ Len(accounts) < Len(raw.accounts)
  /\ Current.org # NoOrg => DeriveConnID(Current.org) \in seen \cup {Blank}
  /\ Keep(Current)
  /\ UNCHANGED <<raw, connections, seen>>

Next == AddConnection \/ NextAccount

Spec == Init /\ [][Next]_vars

-----------------------------------------------------------------------------

TypeOK ==
  /\ raw \in Inputs
  /\ connections \in Seq(Connections)
  /\ seen \in SUBSET Str
  /\ accounts \in Seq([connId : Str])

Done == Len(accounts) = Len(raw.accounts)

(* A synthesized connection has an id, and no connection before it, sent   *)
(* or synthesized, has the same: callers may index connections by id       *)
(* ("One Connection is synthesized per distinct org").                     *)
SynthesizedOnce ==
  \A k \in Len(raw.connections) + 1 .. Len(connections) :
    /\ connections[k].connId # Blank
    /\ \A j \in 1 .. k - 1 : connections[j].connId # connections[k].connId

(* An account's org can be looked up: under the id derived from the org    *)
(* there is a connection, and an account the server gave no id of its own  *)
(* has been given exactly this one.                                        *)
OrgsResolve ==
  \A i \in DOMAIN accounts :
    LET ra == raw.accounts[i]
    IN ra.org # NoOrg /\ DeriveConnID(ra.org) # Blank =>
         /\ \E k \in DOMAIN connections : connections[k].connId = DeriveConnID(ra.org)
         /\ ra.connId = Blank => accounts[i].connId = DeriveConnID(ra.org)

(* The first account that brings an id decides what its connection says,   *)
(* and the connections come in the order of these accounts: the result is  *)
(* a function of the response that does not depend on the later accounts   *)
(* of an org (so that two languages with the same Trim agree on it).       *)
Brings(i) ==
  LET ra == raw.accounts[i]
  IN /\ ra.org # NoOrg /\ DeriveConnID(ra.org) # Blank
     /\ \A k \in DOMAIN raw.connections : raw.connections[k].connId # DeriveConnID(ra.org)
     /\ \A j \in 1 .. i - 1 :
          raw.accounts[j].org # NoOrg => DeriveConnID(raw.accounts[j].org) # DeriveConnID(ra.org)

FirstAccountDecides ==
  LET sent == Len(raw.connections)
      made == Len(connections) - sent
  IN /\ \A k \in 1 .. sent : connections[k] = raw.connections[k]
     /\ \E first \in [1 .. made -> DOMAIN accounts] :
          /\ \A i \in DOMAIN accounts : Brings(i) <=> \E n \in 1 .. made : first[n] = i
          /\ \A n \in 1 .. made : connections[sent + n] = Synthesized(raw.accounts[first[n]].org)
          /\ \A m, n \in 1 .. made : m < n => first[m] < first[n]
=============================================================================
