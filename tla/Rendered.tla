------------------------------ MODULE Rendered ------------------------------
(***************************************************************************)
(* What the templates make of the view, in Go and in TypeScript: the codes *)
(* an unknown code falls back to, the accessors, how a field is read and   *)
(* written in canonical form, and how a request is encoded.  Everything    *)
(* here is said of a finished view, so of any specification that validate  *)
(* lets through and not only of the one in the repository.                 *)
(***************************************************************************)
EXTENDS View

CONSTANTS
  Nothing,   \* absent: nil, undefined, null
  Texts,     \* strings a server may send, "" among them
  Escaped,   \* those encoding/json writes with an escape and JSON.stringify without
  Seconds,   \* epoch seconds: 64 bit integers that a double holds exactly
  Moments,   \* times a caller may give: a Date or a number, in half seconds
  Ids        \* account ids a caller may ask for

ASSUME TextsAssumption == Escaped \subseteq Texts /\ "" \in Texts \ Escaped
ASSUME SecondsAssumption == Seconds \subseteq Int /\ 0 \in Seconds
ASSUME MomentsAssumption ==   \* a number below zero is a whole second
  \A m \in Moments : m.halves \in Int /\ (m.halves < 0 /\ ~m.date => m.halves % 2 = 0)
ASSUME NothingAssumption ==   \* what is absent is nothing that is there
  /\ Nothing \notin Int /\ Nothing \notin BOOLEAN /\ Nothing \notin Texts
  /\ Nothing # <<>> /\ \A x \in Texts : Nothing # <<x>>
  /\ Nothing \notin [text : Texts, escaped : BOOLEAN]

Done == phase = "done"

-----------------------------------------------------------------------------
(* Error codes: nakedByPrefix keeps the last naked code in sorted order.   *)

NakedCodes(prefix) == {c \in Codes(spec) : IsNaked(c) /\ Prefix(c) = prefix}

(* A prefix without one gets the empty code.                               *)
NakedForm(prefix) ==
  IF NakedCodes(prefix) = {} THEN <<"">>
  ELSE CHOOSE c \in NakedCodes(prefix) : \A d \in NakedCodes(prefix) : Rank[d] <= Rank[c]

Normalized(code) ==
  IF code \notin Codes(spec) /\ Prefix(code) \in spec.prefixes THEN NakedForm(Prefix(code))
  ELSE code

(* The code of v1's plain errors.                                          *)
GeneralNaked == NakedForm("gen")

(* A code under a declared prefix, known or not, ends as one of the table  *)
(* and under the same prefix, an unknown one as a naked code, which is     *)
(* handled; so does v1's plain error, which gets the code of the prefix gen*)
(* (ir.go: every declared prefix needs a naked form to fall back to).      *)
FallbackIsKnown ==
  Done => \A c \in DOMAIN Rank : Prefix(c) \in spec.prefixes =>
    /\ Normalized(c) \in Codes(spec) /\ Prefix(Normalized(c)) = Prefix(c)
    /\ c \notin Codes(spec) => IsNaked(Normalized(c))
    /\ Prefix(c) = "gen" => GeneralNaked \in Codes(spec) /\ IsNaked(GeneralNaked)

-----------------------------------------------------------------------------
(* Accessors.                                                              *)

(* Faulty: a bare zero check.                                              *)
FaultyEpochToTime(seconds) == IF seconds = 0 THEN Nothing ELSE seconds

(* epochToTime: only what is above zero is a time.                         *)
EpochToTime(seconds) == IF seconds <= 0 THEN Nothing ELSE seconds

(* epochToDate, whose argument may be undefined.                           *)
EpochToDate(seconds) ==
  CASE seconds = Nothing -> Nothing
    [] seconds # Nothing -> IF seconds <= 0 THEN Nothing ELSE seconds

(* An int64 of Go's struct is zero if nothing was sent.                    *)
GoTime(seconds) == EpochToTime(IF seconds = Nothing THEN 0 ELSE seconds)

(* All steps but the last are guarded; the last is returned as it is.      *)
GoAccessor(prefer, row) ==
  LET From[i \in DOMAIN prefer] ==
        IF i = Len(prefer) \/ GoTime(row[prefer[i]]) # Nothing THEN GoTime(row[prefer[i]])
        ELSE From[i + 1]
  IN From[1]

NodeAccessor(prefer, row) ==
  LET From[i \in DOMAIN prefer] ==
        IF i = Len(prefer) \/ EpochToDate(row[prefer[i]]) # Nothing
        THEN EpochToDate(row[prefer[i]])
        ELSE From[i + 1]
  IN From[1]

Epochs(t) == {f.name : f \in {f \in Range(t.fields) : f.kind = "epochSeconds"}}

(* In both languages an accessor reads epochs only and finds the first of  *)
(* them that is a time; when none is it says so, and never dates anything  *)
(* to 1970 or before ("Every caller must agree on that rule", models.go).  *)
FirstTimeWins ==
  Done => \A t \in Range(Types) : \A a \in Range(t.accessors) :
    \A row \in [Epochs(t) -> Seconds \cup {Nothing}] :
      LET times == {i \in DOMAIN a : row[a[i]] # Nothing /\ row[a[i]] > 0}
      IN \A time \in {GoAccessor(a, row), NodeAccessor(a, row)} :
           IF times = {} THEN time = Nothing
           ELSE \E i \in times : time = row[a[i]] /\ \A j \in times : i <= j

-----------------------------------------------------------------------------
(* Fields: their types, how they are read and their canonical form.        *)

IsCode(f) == f.enum = "errorCodes" \/ (f.kind = "enum" /\ f.elem = "errorCodes")

GoType(f) ==
  CASE f.kind \in {"string", "enum"} -> "string"    \* or a named string type
    [] f.kind = "numericString" -> IF f.required THEN "string" ELSE "*string"
    [] f.kind = "epochSeconds" -> "int64"
    [] f.kind = "bool" -> "bool"
    [] f.kind = "extra" -> "map[string]any"
    [] f.kind = "any" -> "any"
    [] f.kind = "array:string" -> "[]string"
    [] f.kind = "array:ref" -> "[]T"
    [] f.kind = "ref" -> "T"

TSType(f) ==
  CASE f.kind \in {"string", "enum"} -> IF IsCode(f) THEN "ErrorCode" ELSE "string"
    [] f.kind = "numericString" -> "string"
    [] f.kind = "epochSeconds" -> "number"
    [] f.kind = "bool" -> "boolean"
    [] f.kind = "extra" -> "Record<string, unknown>"
    [] f.kind = "any" -> "unknown"
    [] f.kind = "array:string" -> "string[]"
    [] f.kind = "array:ref" -> "T[]"
    [] f.kind = "ref" -> "T"

(* The JSON that encoding/json takes for a Go type; an integer is a number *)
(* literal without fraction and exponent that fits in 64 bits.             *)
GoReads(f) ==
  CASE GoType(f) \in {"string", "*string"} -> "string"
    [] GoType(f) = "int64" -> "integer"
    [] GoType(f) = "bool" -> "boolean"
    [] GoType(f) \in {"map[string]any", "T"} -> "object"
    [] GoType(f) = "any" -> "anything"
    [] GoType(f) = "[]string" -> "strings"
    [] GoType(f) = "[]T" -> "objects"

(* Faulty: money, which is a number to most, is read as one.               *)
FaultyNodeReads(f) ==
  CASE f.kind = "array:ref" -> "objects"
    [] f.kind = "array:string" -> "strings"
    [] f.kind \in {"epochSeconds", "numericString"} -> "number"
    [] TSType(f) = "boolean" -> "boolean"
    [] TSType(f) = "Record<string, unknown>" -> "object"
    [] OTHER -> "string"

(* The JSON that the helper the template chooses takes; num takes any      *)
(* finite number.                                                          *)
NodeReads(f) ==
  CASE f.kind = "array:ref" -> "objects"
    [] f.kind = "array:string" -> "strings"
    [] f.kind = "epochSeconds" -> "number"
    [] TSType(f) = "boolean" -> "boolean"
    [] TSType(f) = "Record<string, unknown>" -> "object"
    [] OTHER -> "string"

Fields == {f \in UNION {Range(t.fields) : t \in {t \in Range(Types) : ~t.root}} : ~f.synthetic}

(* The kinds that every target renders; ref and any validate lets through, *)
(* too, and Node reads them as strings.                                    *)
Rendering(f) == f.kind \notin {"ref", "any"}

(* The kinds of JSON; a fraction is a number that GoReads has no integer.  *)
Takes(reading) == IF reading = "number" THEN {"integer", "fraction"} ELSE {reading}

(* For every field of an accepted file the SDKs take JSON of the same kind,*)
(* but for one thing: an epoch may be a fraction in Node.  No other field  *)
(* is refused in one language only ("a wrong or missing field", ir.go),    *)
(* and Go takes nothing that Node refuses.                                 *)
OnlyFractionsDiffer ==
  Done => \A f \in Fields : Rendering(f) =>
    /\ Takes(GoReads(f)) \subseteq Takes(NodeReads(f))
    /\ Takes(NodeReads(f)) \ Takes(GoReads(f)) =
         IF f.kind = "epochSeconds" THEN {"fraction"} ELSE {}

Canonical(f) == ~f.synthetic /\ f.kind \notin {"extra", "any"}

Optional(f) == f.kind = "numericString" /\ ~f.required

Zero(f) ==
  CASE GoReads(f) = "string" -> ""
    [] GoReads(f) = "integer" -> 0
    [] GoReads(f) = "boolean" -> FALSE
    [] GoReads(f) \in {"strings", "objects"} -> <<>>

(* What a server may send for a field and both SDKs take; lists are        *)
(* compared item by item, so one item does.                                *)
Sendable(f) ==
  CASE GoReads(f) = "string" -> {Nothing} \cup Texts
    [] GoReads(f) = "integer" -> {Nothing} \cup Seconds
    [] GoReads(f) = "boolean" -> {Nothing} \cup BOOLEAN
    [] GoReads(f) = "strings" -> {Nothing, <<>>} \cup {<<x>> : x \in Texts}
    [] GoReads(f) = "objects" -> {Nothing, <<>>}

(* The struct's field: a pointer or a slice may be nil.                    *)
GoHolds(f, sent) ==
  IF sent = Nothing /\ ~Optional(f) /\ f.kind \notin {"array:string", "array:ref"} THEN Zero(f)
  ELSE sent

NodeHolds(f, sent) == IF sent = Nothing /\ ~Optional(f) THEN Zero(f) ELSE sent

Written(f, held, escapes) ==
  CASE held = Nothing -> Nothing
    [] held # Nothing /\ GoReads(f) = "string" -> [text |-> held, escaped |-> held \in escapes]
    [] held # Nothing /\ GoReads(f) = "strings" ->
         [i \in DOMAIN held |-> [text |-> held[i], escaped |-> held[i] \in escapes]]
    [] OTHER -> held

(* Faulty: an absent optional is written as the empty string.              *)
FaultyGoCanonical(f, sent) ==
  LET held == GoHolds(f, sent)
  IN Written(f, IF held = Nothing THEN Zero(f) ELSE held, Escaped)

(* canonicalStrings and the Slice functions write nil as [], and           *)
(* canonicalOptionalString writes it as null.                              *)
GoCanonical(f, sent) ==
  LET held == GoHolds(f, sent)
  IN Written(f, IF held = Nothing /\ ~Optional(f) THEN Zero(f) ELSE held, Escaped)

(* ?? [], ?? null, ?? 0, ?? false, ?? "".                                  *)
NodeCanonical(f, sent) ==
  LET held == NodeHolds(f, sent)
  IN Written(f, IF held = Nothing /\ ~Optional(f) THEN Zero(f) ELSE held, {})

Means(f, sent) == IF sent = Nothing /\ ~Optional(f) THEN Zero(f) ELSE sent

(* Equal canonical output means equal data, also across languages: what    *)
(* differs is told apart, an amount that is absent from an empty one above *)
(* all (canonical.go, canonicalOptionalString).  And what one payload says *)
(* is written alike by both, unless it holds a character that only one of  *)
(* them escapes.                                                           *)
CanonicalTellsApart ==
  Done => \A f \in Fields : Canonical(f) /\ Rendering(f) =>
    \A x, y \in Sendable(f) :
      /\ GoCanonical(f, x) = NodeCanonical(f, y) => Means(f, x) = Means(f, y)
      /\ NodeCanonical(f, x) = NodeCanonical(f, y) <=> Means(f, x) = Means(f, y)
      /\ Means(f, x) = Means(f, y) /\ GoCanonical(f, x) # NodeCanonical(f, y) =>
           \E t \in Escaped : x = t \/ x = <<t>>

-----------------------------------------------------------------------------
(* Requests: Encode and encodeGetAccountsParams.                           *)

(* A request gives each parameter, by its place, an argument.              *)
Arguments(p) ==
  CASE p.serialize = "unixSeconds" -> {Nothing} \cup Moments
    [] p.serialize = "optInOne" -> BOOLEAN
    [] p.serialize = "repeated" -> {<<>>} \cup {<<a>> : a \in Ids} \cup (Ids \X Ids)
    [] p.serialize = "valueWithDefault" -> {Nothing} \cup spec.versions

Requests(e) ==
  LET Upto[k \in 0 .. Len(e.params)] ==
        IF k = 0 THEN {<<>>}
        ELSE {Append(r, a) : r \in Upto[k - 1], a \in Arguments(e.params[k])}
  IN Upto[Len(e.params)]

(* The second a moment falls into.                                         *)
UnixSecond(m) == m.halves \div 2

(* Faulty: a Date is truncated towards zero like a number.                 *)
FaultyToUnixSeconds(m) == IF m.halves < 0 THEN -((-m.halves) \div 2) ELSE m.halves \div 2

(* toUnixSeconds: floor of a Date, trunc of a number.                      *)
ToUnixSeconds(m) ==
  IF m.halves < 0 /\ ~m.date THEN -((-m.halves) \div 2) ELSE m.halves \div 2

(* A flag is "1" or left out.  The default is DefaultProtocolVersion,      *)
(* whatever the parameter's own.                                           *)
Values(p, a) ==
  CASE p.serialize = "unixSeconds" -> IF a = Nothing THEN <<>> ELSE <<a>>
    [] p.serialize = "optInOne" -> IF a THEN <<"1">> ELSE <<>>
    [] p.serialize = "repeated" -> a
    [] p.serialize = "valueWithDefault" -> <<IF a = Nothing THEN spec.default ELSE a>>

IsMoment(p, a) == p.serialize = "unixSeconds" /\ a # Nothing

(* Faulty: the start of the epoch is no date.                              *)
FaultyGoSends(p, a) ==
  Values(p, IF ~IsMoment(p, a) THEN a ELSE IF UnixSecond(a) = 0 THEN Nothing ELSE UnixSecond(a))

(* In Go the caller gives the second.                                      *)
GoSends(p, a) == Values(p, IF IsMoment(p, a) THEN UnixSecond(a) ELSE a)

NodeSends(p, a) == Values(p, IF IsMoment(p, a) THEN ToUnixSeconds(a) ELSE a)

(* Set replaces what is there under the key, Add goes behind it.           *)
Put(q, p, values) ==
  IF values = <<>> THEN q
  ELSE [q EXCEPT ![p.wire] = IF p.serialize = "repeated" THEN @ \o values ELSE values]

Query(ps, sent) ==
  LET Upto[k \in 0 .. Len(ps)] ==
        IF k = 0 THEN [w \in {p.wire : p \in Range(ps)} |-> <<>>]
        ELSE Put(Upto[k - 1], ps[k], sent[k])
  IN Upto[Len(ps)]

GoQuery(ps, r) == Query(ps, [k \in DOMAIN ps |-> GoSends(ps[k], r[k])])
NodeQuery(ps, r) == Query(ps, [k \in DOMAIN ps |-> NodeSends(ps[k], r[k])])

(* The one endpoint that is rendered, if its rules go with its kinds:      *)
(* validate does not hold unixSeconds and valueWithDefault against theirs. *)
Encoded ==
  {e \in Range(spec.endpoints) :
     /\ e.name = "getAccounts"
     /\ \A p \in Range(e.params) :
          /\ p.serialize = "unixSeconds" => p.kind = "epochSeconds"
          /\ p.serialize = "valueWithDefault" => p.kind = "enum" /\ p.elem = "supportedVersions"
     /\ \A i, j \in DOMAIN e.params :
          e.params[i].serialize = "valueWithDefault" /\ e.params[j].serialize = "valueWithDefault" => i = j}

(* Both SDKs ask a server the same thing for the same request, for a Date  *)
(* within a second and before 1970, too, and even where two parameters     *)
(* share a key.                                                            *)
SameQuery ==
  Done => \A e \in Encoded : \A r \in Requests(e) : GoQuery(e.params, r) = NodeQuery(e.params, r)

Asked(p, a) ==
  CASE p.serialize = "unixSeconds" -> IF a = Nothing THEN Nothing ELSE UnixSecond(a)
    [] p.serialize = "valueWithDefault" -> IF a = Nothing THEN spec.default ELSE a
    [] OTHER -> a

OwnKeys(e) == \A i, j \in DOMAIN e.params : e.params[i].wire = e.params[j].wire => i = j

(* Nothing a caller asks for is lost on the way to the query: requests     *)
(* that ask for different things are sent differently, no start date is    *)
(* not the epoch, and the ids keep their order and number (view.go: the    *)
(* caller must be able to distinguish "no start date" from "the epoch").   *)
QueryTellsAll ==
  Done => \A e \in Encoded : OwnKeys(e) =>
    \A r, s \in Requests(e) : GoQuery(e.params, r) = GoQuery(e.params, s) =>
      \A k \in DOMAIN e.params : Asked(e.params[k], r[k]) = Asked(e.params[k], s[k])
=============================================================================
