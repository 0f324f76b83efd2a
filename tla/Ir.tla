--------------------------------- MODULE Ir ---------------------------------
(***************************************************************************)
(* The specification as internal/ir/ir.go loads it from simplefin.yaml,    *)
(* and what its validate accepts.  Documentation, methods, statuses, the   *)
(* spelling of names and the like are taken together: complete says that   *)
(* validate has nothing to say of them.  A field's kind comes parsed, with *)
(* its element beside it, and an error code comes split at its dots.       *)
(***************************************************************************)
EXTENDS Integers, Sequences, Functions

CONSTANT
  Rank   \* Rank[c]: the place of code c in the order of sort.Slice

ASSUME RankAssumption == Rank \in [DOMAIN Rank -> Int] /\ IsInjective(Rank)

Names(things) == [i \in DOMAIN things |-> things[i].name]

-----------------------------------------------------------------------------

(* The kinds without an element.                                           *)
Scalars == {"string", "numericString", "epochSeconds", "bool", "extra", "any", "array:string"}

Known(s) == Range(Names(s.types)) \cup Range(Names(s.v1Types))

(* A type of the v1 section may not have a name that came before it; two   *)
(* of the types section may.                                               *)
NamesOK(s) ==
  /\ Range(Names(s.types)) \cap Range(Names(s.v1Types)) = {}
  /\ IsInjective(Names(s.v1Types))

(* resolveKind: references must resolve, the name of an enum need not.     *)
Resolves(s, f) ==
  \/ f.kind \in Scalars
  \/ f.kind \in {"array:ref", "ref"} /\ f.elem \in Known(s)
  \/ f.kind = "enum"

FieldOK(s, f) ==
  /\ f.name # ""
  /\ f.synthetic <=> f.wire = ""
  /\ Resolves(s, f)
  /\ f.enum \in {"", "errorCodes", "supportedVersions"}

AccessorOK(t, prefer) ==
  /\ prefer # <<>>
  /\ \A p \in Range(prefer) : \E f \in Range(t.fields) : f.name = p /\ f.kind = "epochSeconds"

TypeAccepted(s, t) ==
  /\ t.name # "" /\ t.fields # <<>>
  /\ IsInjective(Names(t.fields))
  /\ \A f \in Range(t.fields) : FieldOK(s, f)
  /\ \A i, j \in DOMAIN t.fields :
       ~t.fields[i].synthetic /\ t.fields[i].wire = t.fields[j].wire => i = j
  /\ \A a \in Range(t.accessors) : AccessorOK(t, a)

OneRoot(s) == \E i \in DOMAIN s.types : \A j \in DOMAIN s.types : s.types[j].root <=> j = i

-----------------------------------------------------------------------------

Prefix(code) == code[1]

(* The code ends in a dot, whatever stands before it.                      *)
IsNaked(code) == Len(code) > 1 /\ code[Len(code)] = ""

Codes(s) == {c.code : c \in Range(s.codes)}

ListedOK(s) ==
  /\ s.codes # <<>>
  /\ \A i, j \in DOMAIN s.codes :
       s.codes[i].code = s.codes[j].code \/ s.codes[i].const = s.codes[j].const => i = j
  /\ \A c \in Range(s.codes) : c.code # <<"">> /\ c.const # "" /\ Prefix(c.code) \in s.prefixes

(* Faulty: a prefix need not have a naked code to fall back to.            *)
FaultyCodesOK(s) == ListedOK(s)

CodesOK(s) ==
  /\ ListedOK(s)
  /\ \A p \in s.prefixes : \E c \in Codes(s) : IsNaked(c) /\ Prefix(c) = p

-----------------------------------------------------------------------------

(* Only two of the rules are held against the kind.                        *)
ParamOK(s, p) ==
  /\ p.name # "" /\ p.wire # ""
  /\ Resolves(s, p)
  /\ p.serialize \in {"unixSeconds", "optInOne", "repeated", "valueWithDefault"}
  /\ p.serialize = "valueWithDefault" => p.default # ""
  /\ p.serialize = "optInOne" => p.kind = "bool"
  /\ p.serialize = "repeated" => p.kind = "array:string"

(* returns and returnsRaw: one of them, never both.                        *)
EndpointOK(s, e) ==
  /\ e.name # ""
  /\ (e.returns = "") # (e.returnsRaw = "")
  /\ e.returns # "" => e.returns \in Known(s)
  /\ IsInjective(Names(e.params))
  /\ \A p \in Range(e.params) : ParamOK(s, p)

EndpointsOK(s) ==
  /\ s.endpoints # <<>>
  /\ IsInjective(Names(s.endpoints))
  /\ \A e \in Range(s.endpoints) : EndpointOK(s, e)

(* OrgV1 is looked for in both sections, and in types first.               *)
TypeNamed(s, name) ==
  LET both == s.types \o s.v1Types
  IN both[CHOOSE i \in DOMAIN both :
            both[i].name = name /\ \A j \in 1 .. i - 1 : both[j].name # name]

NormalizationOK(s) ==
  /\ s.connIdFrom # <<>>
  /\ "OrgV1" \in Known(s)
  /\ Range(s.connIdFrom) \subseteq Range(Names(TypeNamed(s, "OrgV1").fields))

VersionsOK(s) == s.default # "" /\ s.default \in s.versions

(* validate reports every problem it finds; any of them refuses the file.  *)
Accepted(s) ==
  /\ s.complete
  /\ VersionsOK(s)
  /\ NamesOK(s) /\ OneRoot(s)
  /\ \A t \in Range(s.types) \cup Range(s.v1Types) : TypeAccepted(s, t)
  /\ CodesOK(s)
  /\ EndpointsOK(s)
  /\ NormalizationOK(s)
=============================================================================
