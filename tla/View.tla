-------------------------------- MODULE View --------------------------------
(***************************************************************************)
(* BuildView of internal/gen/view.go: from an accepted specification to    *)
(* what the templates render.  Its hard part is resolveUnknownParams: a    *)
(* type that captures unknown keys brings a TypeScript type parameter, and *)
(* every type that contains it, however deeply, has to declare it and to   *)
(* hand it on.  The code collects the parameters in two passes over the    *)
(* types in the order of the file, then renders the arguments of fields.   *)
(*                                                                         *)
(* A parameter is known by the type that brings it.  A declaration and the *)
(* arguments that name it render the same list, so that the order in it    *)
(* does not matter and the lists are sets here.                            *)
(***************************************************************************)
EXTENDS Ir, FiniteSetsExt

CONSTANT Specs   \* the specifications considered

ASSUME SpecsAssumption ==   \* lists are lists, and the codes are among those sorted
  \A s \in Specs :
    /\ s.types \in Seq(Range(s.types)) /\ s.codes \in Seq(Range(s.codes))
    /\ \A t \in Range(s.types) : \A a \in Range(t.accessors) : a \in Seq(Range(a))
    /\ \A e \in Range(s.endpoints) : e.params \in Seq(Range(e.params))
    /\ Codes(s) \subseteq DOMAIN Rank

VARIABLES
  spec,     \* the specification in the file, never changed
  phase,    \* "load", "resolve", "done" or "refused"
  pass,     \* the pass of resolveUnknownParams ...
  next,     \* ... and the type it comes to next
  params,   \* params[i]: UnknownParams of type i
  args      \* args[i][k]: the arguments its field k hands on

vars == <<spec, phase, pass, next, params, args>>

Types == spec.types

Passes == 2

(* Faulty: types that capture nothing bring one, too.                      *)
FaultyOwn(name) == {name}

(* own[name]: the parameter a capturing type of this name brings.          *)
Own(name) == IF \E t \in Range(Types) : t.name = name /\ t.capture THEN {name} ELSE {}

(* The element names of its fields, whatever their kind.                   *)
Elems(i) == {f.elem : f \in Range(Types[i].fields)} \ {""}

Named(name) == {j \in DOMAIN Types : Types[j].name = name}

Collected(i) ==
  Own(Types[i].name) \cup
    UNION {Own(e) \cup UNION {params[j] : j \in Named(e)} : e \in Elems(i)}

(* argsFor: of types of one name the last one's.                           *)
ArgsFor(name) ==
  IF Named(name) = {} THEN {}
  ELSE params[Max(Named(name))]

(* What a field hands on: all that the type it refers to declares.         *)
Handed(f) == IF f.kind \in {"array:ref", "ref"} THEN ArgsFor(f.elem) ELSE {}

HandedOn == [i \in DOMAIN Types |-> [k \in DOMAIN Types[i].fields |-> Handed(Types[i].fields[k])]]

-----------------------------------------------------------------------------

Init ==
  /\ spec \in Specs
  /\ phase = "load"
  /\ pass = 1 /\ next = 1
  /\ params = [i \in DOMAIN Types |-> {}]
  /\ args = [i \in DOMAIN Types |-> [k \in DOMAIN Types[i].fields |-> {}]]

(* Load: an invalid specification stops the generator.                     *)
Load ==
  /\ phase = "load"
  /\ phase' = IF Accepted(spec) THEN "resolve" ELSE "refused"
  /\ UNCHANGED <<spec, pass, next, params, args>>

(* Faulty: seen and params are not made anew for each type.                *)
FaultyResolve ==
  /\ phase = "resolve" /\ next \in DOMAIN Types
  /\ params' = [params EXCEPT ![next] =
                  Collected(next) \cup (IF next = 1 THEN {} ELSE params[next - 1])]
  /\ next' = next + 1
  /\ UNCHANGED <<spec, phase, pass, args>>

Resolve ==
  /\ phase = "resolve" /\ next \in DOMAIN Types
  /\ params' = [params EXCEPT ![next] = Collected(next)]
  /\ next' = next + 1
  /\ UNCHANGED <<spec, phase, pass, args>>

(* Faulty: the second pass is left out.                                    *)
FaultyNextPass ==
  /\ phase = "resolve" /\ next \notin DOMAIN Types /\ pass < Passes
  /\ pass' = Passes
  /\ UNCHANGED <<spec, phase, next, params, args>>

NextPass ==
  /\ phase = "resolve" /\ next \notin DOMAIN Types /\ pass < Passes
  /\ pass' = pass + 1 /\ next' = 1
  /\ UNCHANGED <<spec, phase, params, args>>

(* Faulty: a field hands on what the type it stands in has collected.      *)
FaultyFinish ==
  /\ phase = "resolve" /\ next \notin DOMAIN Types /\ pass = Passes
  /\ args' = [i \in DOMAIN Types |-> [k \in DOMAIN Types[i].fields |-> params[i]]]
  /\ phase' = "done"
  /\ UNCHANGED <<spec, pass, next, params>>

Finish ==
  /\ phase = "resolve" /\ next \notin DOMAIN Types /\ pass = Passes
  /\ args' = HandedOn
  /\ phase' = "done"
  /\ UNCHANGED <<spec, pass, next, params>>

Next == Load \/ Resolve \/ NextPass \/ Finish

Spec == Init /\ [][Next]_vars

-----------------------------------------------------------------------------

TypeNames == Range(Names(Types))

(* The lists are of parameters that some type brings, one for each type;   *)
(* nothing is built of a specification that was refused.                   *)
TypeOK ==
  /\ Types \in Seq(Range(Types))
  /\ phase \in {"load", "resolve", "done", "refused"}
  /\ pass \in 1 .. Passes /\ next \in 1 .. Len(Types) + 1
  /\ params \in [DOMAIN Types -> SUBSET TypeNames]
  /\ DOMAIN args = DOMAIN Types
  /\ \A i \in DOMAIN Types : args[i] \in [DOMAIN Types[i].fields -> SUBSET TypeNames]
  /\ phase = "refused" => \A i \in DOMAIN Types : params[i] = {}

Holds(i, j) == Types[j].name \in Elems(i)

Closed(S) == \A i \in S, j \in DOMAIN Types : Holds(i, j) => j \in S

(* A type asks for nothing that it does not contain: each parameter is     *)
(* brought by the type itself or by one reachable through its fields, at   *)
(* every moment of both passes (view.go: plus those of every type it       *)
(* contains).                                                              *)
NothingForeign ==
  \A i \in DOMAIN Types : \A S \in SUBSET DOMAIN Types :
    i \in S /\ Closed(S) => \A n \in params[i] : n \in {Types[j].name : j \in S} /\ Own(n) # {}

(* Two passes do for types in which no chain of fields runs towards later  *)
(* types twice and then on: some set of types, the deep ones, holds every  *)
(* type in front of one it contains, unless that one contains nothing, and *)
(* all that contain a deep type; and no deep type is contained in one in   *)
(* front of it.                                                            *)
Forward(i, j) == Holds(i, j) /\ i < j

IsDeep(S) ==
  /\ \A i, j \in DOMAIN Types : Forward(i, j) /\ (\E k \in DOMAIN Types : Holds(j, k)) => i \in S
  /\ \A i \in DOMAIN Types, j \in S : Holds(i, j) => i \in S
  /\ \A i \in DOMAIN Types, j \in S : ~Forward(i, j)

Shallow == \E S \in SUBSET DOMAIN Types : IsDeep(S)

(* For such types another pass would find nothing new, whatever contains   *)
(* whatever in them, itself included ("a second pass would find nothing    *)
(* new. A deeper model would need to iterate to a fixed point", view.go).  *)
NothingMissing ==
  phase = "done" /\ Shallow => \A i \in DOMAIN Types : params[i] = Collected(i)

(* Every argument a field hands on is a parameter of the type it stands in *)
(* and they are those the type it refers to declares: the TypeScript that  *)
(* is rendered names nothing out of scope, and the shape a caller gives    *)
(* reaches what is nested ("or the caller's shape stops at the boundary"). *)
ArgumentsFit ==
  phase = "done" /\ Shallow =>
    \A i \in DOMAIN Types : \A k \in DOMAIN Types[i].fields :
      LET f == Types[i].fields[k]
      IN /\ args[i][k] \subseteq params[i]
         /\ f.kind \in {"array:ref", "ref"} => Own(f.elem) \subseteq args[i][k]
         /\ \A j \in Named(f.elem) :
              f.kind \in {"array:ref", "ref"} /\ Named(f.elem) = {j} => args[i][k] = params[j]
=============================================================================
