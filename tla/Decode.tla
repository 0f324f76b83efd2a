------------------------------- MODULE Decode -------------------------------
(***************************************************************************)
(* One accounts response decoded by both SDKs: encoding/json with          *)
(* sdk/go/normalize.go, and the strict parser of sdk/node/src/normalize.ts.*)
(* The decoders are to give the same verdict, and for an accepted response *)
(* the same errors.                                                        *)
(*                                                                         *)
(* A payload is one account with a field of each declared type, its org,   *)
(* and the two lists errors may come in.  A wire value is its JSON kind;   *)
(* "fraction" stands for every number that is no 64 bit integer literal.   *)
(***************************************************************************)
EXTENDS Naturals, Sequences

CONSTANTS
  Words,      \* what the prefix and the subcode of an error code may be
  Payloads    \* the responses considered

FieldTypes == {"string", "epoch", "bool", "record", "list"}

Kinds == {"absent", "null", "text", "whole", "fraction", "flag", "object", "array"}

(* An error code prefix.sub; sub is "none" when the code has no dot.  NoCode*)
(* is a code that is absent, null, "" or of another type than string.      *)
Code(p, s) == [prefix |-> p, sub |-> s]
NoCode == Code("", "none")

(* The words the SDKs write themselves.                                    *)
ASSUME WordsAssumption == {"", "none", "act", "con", "gen"} \subseteq Words

MsgKinds == {"absent", "null", "empty", "text", "wrong"}

(* An entry of errlist or errors: a string (its msg says whether it is     *)
(* empty), an object, null, or any other JSON value.  Its spelling is plain*)
(* if it is sent, white space aside, as JavaScript writes its value: no    *)
(* 1.50, no \u00e9, no key twice, no key 2 before the key 1.               *)
Entries == [form : {"string", "object", "null", "other"}, spelling : {"plain", "other"},
            code : [prefix : Words, sub : Words],
            msg : MsgKinds, message : MsgKinds, description : MsgKinds]

(* A list has items only if it is an array.                                *)
Lists == {l \in [kind : Kinds, items : Seq(Entries)] : l.items # <<>> => l.kind = "array"}

PayloadType == [fields : [FieldTypes -> Kinds], org : Kinds, errlist : Lists, errors : Lists]

ASSUME PayloadsAssumption == Payloads \subseteq PayloadType

VARIABLES
  payload,  \* the response, never changed
  go,       \* what ParseAccountSet makes of it
  node      \* what normalizeAccountSet makes of it

vars == <<payload, go, node>>

Pending  == [verdict |-> "pending", errlist |-> <<>>]
Rejected == [verdict |-> "rejected", errlist |-> <<>>]
Accepted(errs) == [verdict |-> "accepted", errlist |-> errs]

-----------------------------------------------------------------------------
(* Error codes.                                                            *)

KnownCodes ==
  {Code("act", ""), Code("act", "failed"), Code("act", "missingdata"), Code("con", ""),
   Code("con", "auth"), Code("gen", ""), Code("gen", "api"), Code("gen", "auth")}

Prefixes == {"act", "con", "gen"}
General == Code("gen", "")

(* Faulty: an unknown subcode is handed on as it is.                       *)
FaultyNormalized(c) == c

(* An unknown code degrades to its naked prefix, if the prefix is known.   *)
Normalized(c) ==
  IF c \in KnownCodes \/ c.prefix \notin Prefixes THEN c ELSE Code(c.prefix, "")

EntryCode(e) == IF e.code = NoCode THEN General ELSE Normalized(e.code)

-----------------------------------------------------------------------------
(* Go.                                                                     *)

(* What encoding/json takes for a field of each declared type.             *)
GoTakes(type) ==
  {"absent", "null"} \cup
  (CASE type = "string" -> {"text"}
     [] type = "epoch"  -> {"whole"}
     [] type = "bool"   -> {"flag"}
     [] type = "record" -> {"object"}
     [] type = "list"   -> {"array"})

(* errlist, or errors when errlist has no entries.                         *)
Used(p) == IF p.errlist.items # <<>> THEN p.errlist.items ELSE p.errors.items

(* compactJSON only takes the white space out of what was sent: "json" is  *)
(* the text JSON.stringify makes of the value, "raw" another one.          *)
CompactJSON(e) == IF e.spelling = "plain" THEN "json" ELSE "raw"

(* Faulty: the first field that is present, empty or not.                  *)
FaultyGoMessage(e) ==
  CASE e.msg \in {"text", "empty"} -> IF e.msg = "text" THEN "msg" ELSE ""
    [] e.msg \notin {"text", "empty"} /\ e.message = "text" -> "message"
    [] OTHER -> CompactJSON(e)

(* firstNonEmpty of msg, message and description; a field of another type  *)
(* was left empty by the decode, whose error is ignored.  Else the JSON.   *)
GoMessage(e) ==
  CASE e.msg = "text" -> "msg"
    [] e.msg # "text" /\ e.message = "text" -> "message"
    [] e.msg # "text" /\ e.message # "text" /\ e.description = "text" -> "description"
    [] OTHER -> CompactJSON(e)

(* null decodes into a string, as the empty one.                           *)
GoError(e) ==
  CASE e.form = "string" -> [code |-> General, msg |-> IF e.msg = "text" THEN "msg" ELSE ""]
    [] e.form = "null"   -> [code |-> General, msg |-> ""]
    [] e.form = "object" -> [code |-> EntryCode(e), msg |-> GoMessage(e)]
    [] e.form = "other"  -> [code |-> General, msg |-> CompactJSON(e)]

GoErrors(p) == [i \in 1 .. Len(Used(p)) |-> GoError(Used(p)[i])]

(* json.Unmarshal decodes every field, both lists included.                *)
GoOutcome(p) ==
  IF /\ \A t \in FieldTypes : p.fields[t] \in GoTakes(t)
     /\ p.org \in GoTakes("record")
     /\ p.errlist.kind \in GoTakes("list") /\ p.errors.kind \in GoTakes("list")
  THEN Accepted(GoErrors(p))
  ELSE Rejected

-----------------------------------------------------------------------------
(* Node.                                                                   *)

(* Faulty: str coerces what is no string to the empty one.                 *)
FaultyNodeTakes(type) ==
  CASE type = "string" -> Kinds
    [] type = "epoch"  -> {"absent", "null", "whole", "fraction"}
    [] type = "bool"   -> {"absent", "null", "flag"}
    [] type = "record" -> {"absent", "null", "object"}
    [] type = "list"   -> {"absent", "null", "array"}

(* What str, num, bool, record and list take; num takes any finite number. *)
NodeTakes(type) ==
  {"absent", "null"} \cup
  (CASE type = "string" -> {"text"}
     [] type = "epoch"  -> {"whole", "fraction"}
     [] type = "bool"   -> {"flag"}
     [] type = "record" -> {"object"}
     [] type = "list"   -> {"array"})

(* The first of msg, message and description that is there, even if empty; *)
(* the ones after it are not looked at.  "throws" when it is no string.    *)
(* With none of them it is the value as JSON.stringify writes it.          *)
OptStr(v, name) == CASE v = "text" -> name [] v = "empty" -> "" [] OTHER -> "throws"

NodeMessage(e) ==
  CASE e.msg \notin {"absent", "null"} -> OptStr(e.msg, "msg")
    [] e.msg \in {"absent", "null"} /\ e.message \notin {"absent", "null"} ->
         OptStr(e.message, "message")
    [] /\ e.msg \in {"absent", "null"} /\ e.message \in {"absent", "null"}
       /\ e.description \notin {"absent", "null"} -> OptStr(e.description, "description")
    [] OTHER -> "json"

NodeError(e) ==
  CASE e.form = "string" -> [code |-> General, msg |-> IF e.msg = "text" THEN "msg" ELSE ""]
    [] e.form = "object" -> [code |-> EntryCode(e), msg |-> NodeMessage(e)]
    [] e.form \in {"null", "other"} -> [code |-> General, msg |-> "json"]

NodeErrors(p) == [i \in 1 .. Len(Used(p)) |-> NodeError(Used(p)[i])]

(* Faulty: a message that is no string is handed on.                       *)
FaultyNodeOutcome(p) ==
  IF /\ \A t \in FieldTypes : p.fields[t] \in NodeTakes(t)
     /\ p.errlist.kind \in NodeTakes("list")
     /\ p.errlist.items = <<>> => p.errors.kind \in NodeTakes("list")
  THEN Accepted(NodeErrors(p))
  ELSE Rejected

(* An org that is no object is passed over; errors is looked at only when  *)
(* errlist is empty; a message of another type throws.                     *)
NodeOutcome(p) ==
  IF /\ \A t \in FieldTypes : p.fields[t] \in NodeTakes(t)
     /\ p.errlist.kind \in NodeTakes("list")
     /\ p.errlist.items = <<>> => p.errors.kind \in NodeTakes("list")
     /\ \A i \in 1 .. Len(Used(p)) : NodeError(Used(p)[i]).msg # "throws"
  THEN Accepted(NodeErrors(p))
  ELSE Rejected

-----------------------------------------------------------------------------

Init == payload \in Payloads /\ go = Pending /\ node = Pending

GoDecodes == go = Pending /\ go' = GoOutcome(payload) /\ UNCHANGED <<payload, node>>

NodeDecodes == node = Pending /\ node' = NodeOutcome(payload) /\ UNCHANGED <<payload, go>>

Next == GoDecodes \/ NodeDecodes

Spec == Init /\ [][Next]_vars

Sources == {"", "msg", "message", "description", "json", "raw"}

Outcomes == [verdict : {"pending", "accepted", "rejected"},
             errlist : Seq([code : [prefix : Words, sub : Words], msg : Sources])]

TypeOK == payload \in PayloadType /\ go \in Outcomes /\ node \in Outcomes

Decoded == go.verdict # "pending" /\ node.verdict # "pending"

(* An entry without a text: its JSON is shown instead.                     *)
ShownAsJSON(e) ==
  e.form = "other" \/ (e.form = "object" /\ "text" \notin {e.msg, e.message, e.description})

(* The payloads on which the two decoders agree: numbers that are integers,*)
(* an org that is an object, both lists arrays, error entries with messages*)
(* that are strings and not empty, or none and a plain spelling.           *)
Conforming(p) ==
  /\ p.fields["epoch"] # "fraction"
  /\ p.org \in {"absent", "null", "object"}
  /\ p.errors.kind \in {"absent", "null", "array"}
  /\ \A i \in 1 .. Len(Used(p)) :
       LET e == Used(p)[i]
       IN /\ e.form # "null"
          /\ e.form = "object" => {e.msg, e.message, e.description} \cap {"empty", "wrong"} = {}
          /\ ShownAsJSON(e) => e.spelling = "plain"

(* There the SDKs agree on the verdict and on every error, its code and its*)
(* message, however wrong the other fields are.                            *)
SameOutcomeIfConforming == Decoded /\ Conforming(payload) => go = node

(* An accepted response loses no error, and no error loses its text: where *)
(* an entry has one, the message is one it has or the entry's JSON ("Never *)
(* drop the text").                                                        *)
TextSurvives(out) ==
  out.verdict = "accepted" =>
    /\ Len(out.errlist) = Len(Used(payload))
    /\ \A i \in 1 .. Len(Used(payload)) :
         LET e == Used(payload)[i]
             m == out.errlist[i].msg
         IN e.form = "object" => m \in {"json", "raw"} \/ (m # "" /\ e[m] = "text")

GoKeepsText == TextSurvives(go)
NodeKeepsText == TextSurvives(node)

(* Whatever code comes in, the one that goes out is known, or its prefix is*)
(* none the specification declares; it names the layer the server named    *)
(* (Normalized: "is still handled as a connection error"), and a code that *)
(* is known goes out as it came in.                                        *)
CodesAreHandled ==
  \A out \in {go, node} : \A i \in 1 .. Len(out.errlist) :
    LET e == Used(payload)[i]
        c == out.errlist[i].code
    IN /\ c \in KnownCodes \/ c.prefix \notin Prefixes
       /\ e.form = "object" /\ e.code # NoCode => c.prefix = e.code.prefix
       /\ e.form = "object" /\ e.code \in KnownCodes => c = e.code

(* Conforming or not, a response that both accept gives both the same      *)
(* errors with the same codes, and the same messages but where Node has    *)
(* taken one that is empty, where the entry is null, and where both show   *)
(* the JSON of an entry that is not plainly spelled: a message of a wrong  *)
(* type never has them choose different texts (normalizeErrors).           *)
AcceptedAlike ==
  go.verdict = "accepted" /\ node.verdict = "accepted" =>
    /\ Len(go.errlist) = Len(node.errlist)
    /\ \A i \in 1 .. Len(node.errlist) :
         LET e == Used(payload)[i]
         IN /\ go.errlist[i].code = node.errlist[i].code
            /\ \/ go.errlist[i].msg = node.errlist[i].msg
               \/ e.form = "object" /\ node.errlist[i].msg = ""
               \/ e.form = "null"
               \/ e.spelling = "other" /\ go.errlist[i].msg = "raw" /\ node.errlist[i].msg = "json"
=============================================================================
