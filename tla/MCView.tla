------------------------------- MODULE MCView -------------------------------
(***************************************************************************)
(* Specifications that differ from a plain one in one part at a time: the  *)
(* types and what contains what, one field, the accessors, the table of    *)
(* codes, the parameters, the normalization, and the versions.             *)
(***************************************************************************)
EXTENDS Rendered, SequencesExt

F(name, wire, kind, elem) ==
  [name |-> name, wire |-> wire, kind |-> kind, elem |-> elem,
   enum |-> "", required |-> FALSE, synthetic |-> FALSE]

T(name, root, capture, fields, accessors) ==
  [name |-> name, root |-> root, capture |-> capture, fields |-> fields, accessors |-> accessors]

P(name, wire, kind, elem, serialize, default) ==
  [name |-> name, wire |-> wire, kind |-> kind, elem |-> elem,
   serialize |-> serialize, default |-> default]

IdField == F("id", "id", "string", "")
DomainField == F("domain", "domain", "string", "")
OrgV1 == T("OrgV1", FALSE, FALSE, <<IdField, DomainField>>, <<>>)
Row == T("Row", FALSE, TRUE, <<IdField>>, <<>>)
SetOf(elem) == T("Set", TRUE, FALSE, <<F("rows", "rows", "array:ref", elem)>>, <<>>)

Version(wire, default) == P("version", wire, "enum", "supportedVersions", "valueWithDefault", default)
Since(name, wire) == P(name, wire, "epochSeconds", "", "unixSeconds", "")

GetAccounts(ps) ==
  [name |-> "getAccounts", returns |-> "Set", returnsRaw |-> "", params |-> ps]

TheCodes == <<[code |-> <<"con", "">>, const |-> "Connection"],
              [code |-> <<"con", "auth">>, const |-> "ConnectionAuth"],
              [code |-> <<"gen", "">>, const |-> "General"]>>

Plain ==
  [default |-> "2", versions |-> {"1", "2"}, complete |-> TRUE,
   types |-> <<Row, SetOf("Row")>>, v1Types |-> <<OrgV1>>,
   codes |-> TheCodes, prefixes |-> {"con", "gen"},
   endpoints |-> <<GetAccounts(<<Version("version", "2")>>)>>,
   connIdFrom |-> <<"id", "domain">>]

-----------------------------------------------------------------------------
(* Any three types, and any four that contain at most one type each.  The  *)
(* parameters of different types do not meet, so it is enough that all the *)
(* types capture, or only one does.                                        *)

TypeName == <<"A", "B", "C", "D">>

Holding == [S \in SUBSET (1 .. 4) |-> <<IdField>> \o
              [k \in 1 .. Cardinality(S) |->
                 LET elem == TypeName[SetToSortSeq(S, <)[k]]
                 IN F("f" \o elem, "f" \o elem, "array:ref", elem)]]

Node(i, inside, capturing) == T(TypeName[i], i = 1, i \in capturing, Holding[inside], <<>>)

Dense ==
  {<<Node(1, x, C), Node(2, y, C), Node(3, z, C)>> :
     x \in SUBSET (1 .. 3), y \in SUBSET (1 .. 3), z \in SUBSET (1 .. 3), C \in {1 .. 3, {3}}}

Sparse ==
  LET Few == {S \in SUBSET (1 .. 4) : Cardinality(S) <= 1}
  IN {<<Node(1, x, 1 .. 4), Node(2, y, 1 .. 4), Node(3, z, 1 .. 4), Node(4, w, 1 .. 4)>> :
        x \in Few, y \in Few, z \in Few, w \in Few}

OfTypes == {[Plain EXCEPT !.types = g, !.endpoints[1].returns = "A"] : g \in Dense \cup Sparse}

(* Duplicates, another root, a v1 type that is contained or clashes.       *)
OddTypes == {[Plain EXCEPT !.types = g] : g \in
  {<<Row, T("Row", FALSE, FALSE, <<F("set", "set", "array:ref", "Set")>>, <<>>), SetOf("Row")>>, <<SetOf("OrgV1")>>,
   <<T("Set", TRUE, TRUE, <<F("kind", "kind", "enum", "Row")>>, <<>>), Row>>,
   <<Row>>, <<SetOf("Row"), SetOf("Row")>>, <<OrgV1, SetOf("OrgV1")>>, <<SetOf("Nope")>>}}

-----------------------------------------------------------------------------
(* One field, of any kind.                                                 *)

Kinds == Scalars \cup {"array:ref", "ref", "enum", "array:bool"}

FieldsTried ==
  [name : {"f", ""}, wire : {"f", "id", ""}, kind : Kinds, elem : {"", "Row", "errorCodes", "Nope"},
   enum : {"", "errorCodes", "nope"}, required : BOOLEAN, synthetic : BOOLEAN]

OfFields == {[Plain EXCEPT !.types[1].fields = Append(@, f)] : f \in FieldsTried}

Times == <<F("a", "a", "epochSeconds", ""), F("b", "b", "epochSeconds", ""), IdField>>

OfAccessors ==
  {[Plain EXCEPT !.types[1] = T("Row", FALSE, FALSE, Times, <<a>>)] :
     a \in BoundedSeq({"a", "b", "id", "nope"}, 3)}

-----------------------------------------------------------------------------

Sorted == <<<<"">>, <<"act", "failed">>, <<"con">>, <<"con", "">>, <<"con", "auth">>,
            <<"con", "auth", "">>, <<"gen", "">>, <<"gen", "new">>>>

MCRank == [c \in Range(Sorted) |-> CHOOSE r \in DOMAIN Sorted : Sorted[r] = c]

Table(S) == LET codes == SetToSeq(S)
            IN [i \in DOMAIN codes |-> [code |-> codes[i], const |-> "C" \o ToString(i)]]

OfCodes ==
  {[Plain EXCEPT !.codes = Table(S), !.prefixes = ps] :
     S \in SUBSET (Range(Sorted) \ {<<"">>}), ps \in SUBSET {"con", "gen", "act"}}
  \cup {[Plain EXCEPT !.codes = Append(@, c)] : c \in [code : {<<"">>, <<"con", "">>}, const : {"X"}]
          \cup [code : {<<"gen", "new">>}, const : {"", "General"}]}

-----------------------------------------------------------------------------

TriedParams == {
  Since("since", "at"), Since("until", "at"), Since("until", "until"),
  P("pending", "pending", "bool", "", "optInOne", ""), P("pending", "at", "bool", "", "optInOne", ""),
  P("accounts", "account", "array:string", "", "repeated", ""),
  P("accounts", "at", "array:string", "", "repeated", ""),
  Version("version", "2"), Version("at", "1"), Version("version", ""),
  P("odd", "odd", "string", "", "optInOne", ""), P("odd", "odd", "bool", "", "repeated", ""),
  P("odd", "odd", "string", "", "unixSeconds", ""), P("odd", "", "ref", "Nope", "", "")}

OfParams == {[Plain EXCEPT !.endpoints[1].params = ps] : ps \in BoundedSeq(TriedParams, 2)}
  \cup {[Plain EXCEPT !.endpoints[1].params =
           <<Since("since", "since"), P("accounts", "account", "array:string", "", "repeated", ""),
             Version("version", "2")>>]}

OfEndpoints ==
  {[Plain EXCEPT !.endpoints = es] : es \in BoundedSeq(
     [name : {"getAccounts", "info"}, returns : {"", "Set", "Nope"}, returnsRaw : {"", "url"},
      params : {<<>>}], 2)}

(* The rest: versions, normalization and what complete stands for.         *)
OfRest ==
  {[Plain EXCEPT !.default = d, !.complete = c, !.connIdFrom = ids, !.v1Types = v1] :
     d \in {"", "2", "3"}, c \in BOOLEAN, ids \in BoundedSeq({"id", "nope"}, 2),
     v1 \in {<<>>, <<OrgV1>>, <<OrgV1, OrgV1>>, <<Row, OrgV1>>}}

MCSpecs ==
  UNION {OfTypes, OddTypes, OfFields, OfAccessors, OfCodes, OfParams, OfEndpoints, OfRest}

MCSeconds == -1 .. 2
MCMoments == [date : {TRUE}, halves : {-1, 0, 1, 2}] \cup [date : {FALSE}, halves : {-2, 0, 3}]
=============================================================================
