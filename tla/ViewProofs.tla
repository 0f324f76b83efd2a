----------------------------- MODULE ViewProofs -----------------------------
(***************************************************************************)
(* Two passes find every type parameter and no other, for any number of    *)
(* types that contain each other in any way that is Shallow; and what the  *)
(* templates make of a finished view is what it says, for any accepted     *)
(* specification and whatever servers send and callers ask for.            *)
(***************************************************************************)
EXTENDS Rendered, WellFoundedInduction, TLAPS

(* Type i has been resolved for good: in the first pass those that are not *)
(* deep, in the second the others.                                         *)
Settled(i, S) ==
  \/ i \notin S /\ (pass = 2 \/ i < next)
  \/ pass = 2 /\ i < next

Empty(i) == \A k \in DOMAIN Types : ~Holds(i, k)

(* What holds of the lists so far: a settled type's list is what its own   *)
(* fields call for, and a type that contains none has at most its own.     *)
Gathered ==
  /\ \A S \in SUBSET DOMAIN Types : IsDeep(S) =>
       \A i \in DOMAIN Types : Settled(i, S) => params[i] = Collected(i)
  /\ \A i \in DOMAIN Types : Empty(i) => params[i] \subseteq Own(Types[i].name)

(* Nothing is collected before the file is accepted, and the arguments of  *)
(* fields are rendered when both passes are over.                          *)
Staged ==
  /\ spec \in Specs
  /\ phase \in {"resolve", "done"} => Accepted(spec)
  /\ phase \in {"load", "refused"} => params = [i \in DOMAIN Types |-> {}]
  /\ phase = "done" =>
       /\ pass = 2 /\ next \notin DOMAIN Types
       /\ args = HandedOn

IInv == TypeOK /\ NothingForeign /\ Gathered /\ Staged

-----------------------------------------------------------------------------

(* The distance of a number to a bound above it.                           *)
LEMMA Distance ==
  ASSUME NEW n \in Nat, NEW j \in 1 .. n, NEW k \in 1 .. n, ~(n - k < n - j)
  PROVE  n - j \in Nat /\ k <= j
OBVIOUS

(* A non-empty set of positions has a last one.                            *)
LEMMA LastOne ==
  ASSUME NEW n \in Nat, NEW S \in SUBSET (1 .. n), S # {}
  PROVE  \E j \in S : \A k \in S : k <= j
<1> DEFINE T == {n - j : j \in S}
<1>1. T \subseteq Nat /\ T # {}
  <2>1. \A j \in S : n - j \in Nat
    OBVIOUS
  <2> QED  BY <2>1
<1>2. PICK d \in T : \A e \in T : ~(<<e, d>> \in OpToRel(<, Nat))
  <2> HIDE DEF T
  <2> QED  BY <1>1, NatLessThanWellFounded, WFMin
<1>3. \A e \in T : ~(e < d)
  BY <1>1, <1>2 DEF OpToRel
<1>4. PICK j \in S : d = n - j
  OBVIOUS
<1>5. \A k \in S : k <= j
  BY <1>3, <1>4, Distance
<1> QED  BY <1>5

(* The positions of types, and the next one.                               *)
LEMMA Positions ==
  ASSUME TypeOK
  PROVE  /\ Len(Types) \in Nat /\ DOMAIN Types = 1 .. Len(Types)
         /\ next \in 1 .. Len(Types) + 1
         /\ DOMAIN params = DOMAIN Types
BY DEF TypeOK

(* A type collects nothing but names of types that bring a parameter.      *)
LEMMA OwnNames ==
  ASSUME NEW name
  PROVE  /\ Own(name) \subseteq {name} /\ Own(name) \subseteq TypeNames
         /\ Own(name) # {} => Named(name) # {}
         /\ \A n \in Own(name) : Own(n) # {}
<1>1. \A t \in Range(Types) : \E j \in DOMAIN Types : t = Types[j]
  BY DEF Range
<1>2. \A j \in DOMAIN Types : Types[j].name \in TypeNames
  BY DEF TypeNames, Range, Names
<1> QED  BY <1>1, <1>2 DEF Own, Named

(* What a name in a type's list may come from.                             *)
LEMMA Sources ==
  ASSUME NEW i, NEW n \in Collected(i)
  PROVE  \/ n \in Own(Types[i].name)
         \/ \E e \in Elems(i) : n \in Own(e)
         \/ \E e \in Elems(i) : \E j \in Named(e) : n \in params[j]
BY DEF Collected

(* The types a type's elements name are the ones it contains.              *)
LEMMA Inside ==
  ASSUME NEW i, NEW e \in Elems(i), NEW j \in Named(e)
  PROVE  j \in DOMAIN Types /\ Holds(i, j) /\ Types[j].name = e
BY DEF Named, Holds

(* All that a type contains is in its list, once it is what it collects.   *)
LEMMA Includes ==
  ASSUME NEW i, NEW j \in DOMAIN Types, Holds(i, j)
  PROVE  params[j] \subseteq Collected(i) /\ Own(Types[j].name) \subseteq Collected(i)
BY DEF Holds, Named, Collected

(* A type that contains none collects at most its own parameter.           *)
LEMMA EmptyCollects ==
  ASSUME NEW i \in DOMAIN Types, Empty(i)
  PROVE  Collected(i) \subseteq Own(Types[i].name)
<1>1. \A e \in Elems(i) : Named(e) = {}
  BY Inside DEF Empty
<1>2. \A e \in Elems(i) : Own(e) = {}
  BY <1>1, OwnNames
<1> QED  BY <1>1, <1>2, Sources

-----------------------------------------------------------------------------

(* Before the passes every list is empty and nothing is settled.           *)
LEMMA InitIInv == Init => IInv
<1> SUFFICES ASSUME Init PROVE IInv
  OBVIOUS
<1>1. Types \in Seq(Range(Types))
  BY SpecsAssumption DEF Init, Types
<1>2. Len(Types) \in Nat /\ DOMAIN Types = 1 .. Len(Types)
  BY <1>1
<1>3. \A i \in DOMAIN Types : params[i] = {}
  BY DEF Init
<1>4. TypeOK
  <2>1. next \in 1 .. Len(Types) + 1 /\ pass \in 1 .. Passes
    BY <1>2 DEF Init, Passes
  <2>2. DOMAIN args = DOMAIN Types /\ \A i \in DOMAIN Types : args[i] \in [DOMAIN Types[i].fields -> SUBSET TypeNames]
    BY DEF Init
  <2>3. params \in [DOMAIN Types -> SUBSET TypeNames]
    BY DEF Init
  <2> QED  BY <1>1, <1>3, <2>1, <2>2, <2>3 DEF TypeOK, Init
<1>5. NothingForeign
  BY <1>3 DEF NothingForeign
<1>6. Gathered
  <2>1. \A i \in DOMAIN Types : \A S : ~Settled(i, S)
    BY <1>2 DEF Init, Settled
  <2> QED  BY <1>3, <2>1 DEF Gathered
<1>7. Staged
  BY DEF Init, Staged
<1> QED  BY <1>4, <1>5, <1>6, <1>7 DEF IInv

(* What is said of the types alone does not change with the lists.         *)
LEMMA SameTypes ==
  ASSUME UNCHANGED spec
  PROVE  /\ Types' = Types /\ TypeNames' = TypeNames
         /\ \A name : Own(name)' = Own(name) /\ Named(name)' = Named(name)
         /\ \A i : Elems(i)' = Elems(i) /\ (Empty(i)' <=> Empty(i))
         /\ \A i, j : (Holds(i, j)' <=> Holds(i, j))
         /\ \A S : (Closed(S)' <=> Closed(S)) /\ (IsDeep(S)' <=> IsDeep(S))
<1>1. Types' = Types
  BY DEF Types
<1>2. TypeNames' = TypeNames
  BY <1>1 DEF TypeNames
<1>3. \A name : Own(name)' = Own(name) /\ Named(name)' = Named(name)
  BY <1>1 DEF Own, Named
<1>4. \A i : Elems(i)' = Elems(i)
  BY <1>1 DEF Elems
<1>5. \A i, j : (Holds(i, j)' <=> Holds(i, j))
  BY <1>1, <1>4 DEF Holds
<1>6. \A i, j : (Forward(i, j)' <=> Forward(i, j))
  BY <1>5 DEF Forward
<1>7. \A i : (Empty(i)' <=> Empty(i))
  BY <1>1, <1>5 DEF Empty
<1>8. \A S : (Closed(S)' <=> Closed(S))
  BY <1>1, <1>5 DEF Closed
<1>9. \A S : (IsDeep(S)' <=> IsDeep(S))
  BY <1>1, <1>5, <1>6 DEF IsDeep
<1> QED  BY <1>1, <1>2, <1>3, <1>4, <1>5, <1>7, <1>8, <1>9

(* Where the lists do not change either, nothing that is collected does.   *)
LEMMA SameCollected ==
  ASSUME UNCHANGED <<spec, params>>
  PROVE  \A i : Collected(i)' = Collected(i)
BY SameTypes DEF Collected, Types

(* What is collected from the lists after a step.                          *)
LEMMA CollectedNext ==
  ASSUME UNCHANGED spec
  PROVE  \A i : Collected(i)' = Own(Types[i].name) \cup
           UNION {Own(e) \cup UNION {params'[j] : j \in Named(e)} : e \in Elems(i)}
BY SameTypes DEF Collected

(* Loading changes no list.                                                *)
LEMMA LoadIInv == IInv /\ Load => IInv'
<1> SUFFICES ASSUME IInv, Load PROVE IInv'
  OBVIOUS
<1>1. /\ UNCHANGED <<spec, pass, next, params, args>> /\ phase' \in {"resolve", "refused"}
      /\ phase = "load" /\ params = [i \in DOMAIN Types |-> {}]
  BY DEF Load, IInv, Staged
<1>2. TypeOK'
  BY <1>1, SameTypes DEF IInv, TypeOK
<1>3. NothingForeign'
  BY <1>1, SameTypes DEF IInv, NothingForeign
<1>4. Gathered'
  BY <1>1, SameTypes, SameCollected DEF IInv, Gathered, Settled
<1>5. Staged'
  <2>1. phase' = "resolve" => Accepted(spec)
    BY DEF Load
  <2> QED  BY <1>1, <2>1, SameTypes DEF IInv, Staged
<1> QED  BY <1>2, <1>3, <1>4, <1>5 DEF IInv

(* What a step of a pass does, apart from the lists.                       *)
LEMMA ResolveStep ==
  ASSUME TypeOK, Resolve
  PROVE  /\ next \in DOMAIN Types /\ next \in Nat /\ DOMAIN Types \subseteq Nat
         /\ next' = next + 1 /\ next + 1 \in 1 .. Len(Types) + 1
         /\ UNCHANGED <<spec, phase, pass, args>> /\ phase = "resolve"
         /\ params' = [params EXCEPT ![next] = Collected(next)]
         /\ \A i \in DOMAIN Types : i # next => params'[i] = params[i]
         /\ params'[next] = Collected(next)
<1>1. /\ next \in DOMAIN Types /\ next' = next + 1
      /\ UNCHANGED <<spec, phase, pass, args>> /\ phase = "resolve"
      /\ params' = [params EXCEPT ![next] = Collected(next)]
  BY DEF Resolve
<1>2. Len(Types) \in Nat /\ DOMAIN Types = 1 .. Len(Types) /\ DOMAIN params = DOMAIN Types
  BY Positions
<1>3. next + 1 \in 1 .. Len(Types) + 1
  BY <1>1, <1>2
<1> QED  BY <1>1, <1>2, <1>3

(* A pass collects names of types only.                                    *)
LEMMA ResolveType == TypeOK /\ Resolve => TypeOK'
<1> SUFFICES ASSUME TypeOK, Resolve PROVE TypeOK'
  OBVIOUS
<1>1. Collected(next) \subseteq TypeNames
  <2> SUFFICES ASSUME NEW n \in Collected(next) PROVE n \in TypeNames
    OBVIOUS
  <2>1. \A e \in Elems(next) : \A j \in Named(e) : params[j] \subseteq TypeNames
    BY DEF TypeOK, Named
  <2> QED  BY <2>1, Sources, OwnNames
<1>2. params' \in [DOMAIN Types -> SUBSET TypeNames]
  BY <1>1, ResolveStep DEF TypeOK
<1>3. phase' # "refused" /\ next' \in 1 .. Len(Types) + 1 /\ UNCHANGED <<spec, phase, pass, args>>
  BY ResolveStep
<1> QED  BY <1>2, <1>3, SameTypes DEF TypeOK

(* A pass adds nothing to a type that it does not contain.                 *)
LEMMA ResolveForeign == TypeOK /\ NothingForeign /\ Resolve => NothingForeign'
<1> SUFFICES ASSUME TypeOK, NothingForeign, Resolve PROVE NothingForeign'
  OBVIOUS
<1>1. ASSUME NEW S \in SUBSET DOMAIN Types, next \in S, Closed(S), NEW n \in Collected(next)
      PROVE  n \in {Types[j].name : j \in S} /\ Own(n) # {}
  <2>1. CASE n \in Own(Types[next].name)
    BY <1>1, <2>1, OwnNames
  <2>2. CASE \E e \in Elems(next) : n \in Own(e)
    <3>1. PICK e \in Elems(next) : n \in Own(e)
      BY <2>2
    <3>2. PICK j \in Named(e) : TRUE
      BY <3>1, OwnNames
    <3>3. j \in S /\ Types[j].name = e /\ n = e /\ Own(e) # {}
      BY <1>1, <3>1, <3>2, Inside, OwnNames DEF Closed
    <3> QED  BY <3>3
  <2>3. CASE \E e \in Elems(next) : \E j \in Named(e) : n \in params[j]
    <3>0. PICK e \in Elems(next) : \E j \in Named(e) : n \in params[j]
      BY <2>3
    <3>1. PICK j \in Named(e) : n \in params[j]
      BY <3>0
    <3>2. j \in S /\ j \in DOMAIN Types
      BY <1>1, <3>1, Inside DEF Closed
    <3> QED  BY <1>1, <3>1, <3>2 DEF NothingForeign
  <2> QED  BY <1>1, <2>1, <2>2, <2>3, Sources
<1>2. \A i \in DOMAIN Types : \A S \in SUBSET DOMAIN Types :
        i \in S /\ Closed(S) =>
          \A n \in params'[i] : n \in {Types[j].name : j \in S} /\ Own(n) # {}
  BY <1>1, ResolveStep DEF NothingForeign
<1> QED  BY <1>2, ResolveStep, SameTypes DEF NothingForeign

(* The type just resolved has what its fields call for, itself included.   *)
LEMMA ResolvedItself ==
  ASSUME TypeOK, Resolve, NEW n, n = next
  PROVE  Collected(n)' = Collected(n)
<1>1. \A j \in DOMAIN Types : j # n => params'[j] = params[j]
  BY ResolveStep
<1>2. params'[n] = Collected(n) /\ n \in DOMAIN Types
  BY ResolveStep
<1>3. \A e : Named(e) \subseteq DOMAIN Types
  BY DEF Named
<1> DEFINE New == Own(Types[n].name) \cup
              UNION {Own(e) \cup UNION {params'[j] : j \in Named(e)} : e \in Elems(n)}
<1>4. New = Collected(n)
  <2>1. ASSUME NEW x \in Collected(n) PROVE x \in New
    <3>1. CASE \E e \in Elems(n) : \E j \in Named(e) : x \in params[j]
      <4>0. PICK e \in Elems(n) : \E j \in Named(e) : x \in params[j]
        BY <3>1
      <4>1. PICK j \in Named(e) : x \in params[j]
        BY <4>0
      <4>2. x \in params'[j]
        BY <1>1, <1>2, <1>3, <2>1, <4>1
      <4> QED  BY <4>1, <4>2
    <3> QED  BY <2>1, <3>1, Sources
  <2>2. ASSUME NEW x \in New PROVE x \in Collected(n)
    <3>1. CASE \E e \in Elems(n) : \E j \in Named(e) : x \in params'[j]
      <4>0. PICK e \in Elems(n) : \E j \in Named(e) : x \in params'[j]
        BY <3>1
      <4>1. PICK j \in Named(e) : x \in params'[j]
        BY <4>0
      <4>2. CASE j = n
        BY <1>2, <4>1, <4>2
      <4>3. CASE j # n
        BY <1>1, <1>3, <4>1, <4>3 DEF Collected
      <4> QED  BY <4>2, <4>3
    <3>2. CASE x \in Own(Types[n].name) \/ \E e \in Elems(n) : x \in Own(e)
      BY <3>2 DEF Collected
    <3> QED  BY <2>2, <3>1, <3>2
  <2> QED  BY <2>1, <2>2
<1> QED  BY <1>4, ResolveStep, CollectedNext

(* What a type collects depends on the lists of what it contains.          *)
LEMMA UntouchedCollected ==
  ASSUME UNCHANGED spec, NEW i,
         \A j \in DOMAIN Types : Holds(i, j) =>
           \/ params'[j] = params[j]
           \/ params[j] \subseteq Own(Types[j].name) /\ params'[j] \subseteq Own(Types[j].name)
  PROVE  Collected(i)' = Collected(i)
<1> DEFINE New == Own(Types[i].name) \cup
              UNION {Own(e) \cup UNION {params'[j] : j \in Named(e)} : e \in Elems(i)}
<1>1. ASSUME NEW e \in Elems(i), NEW j \in Named(e)
      PROVE  params'[j] \cup Own(e) = params[j] \cup Own(e)
  BY <1>1, Inside
<1>2. ASSUME NEW e \in Elems(i)
      PROVE  Own(e) \cup UNION {params'[j] : j \in Named(e)} = Own(e) \cup UNION {params[j] : j \in Named(e)}
  BY <1>1
<1>3. New = Collected(i)
  BY <1>2 DEF Collected
<1> QED  BY <1>3, CollectedNext

(* A pass keeps what is settled, and settles the type it comes to.         *)
LEMMA ResolveGathered == TypeOK /\ Gathered /\ Resolve => Gathered'
<1> SUFFICES ASSUME TypeOK, Gathered, Resolve PROVE Gathered'
  OBVIOUS
<1>1. \A i \in DOMAIN Types : Empty(i) => params'[i] \subseteq Own(Types[i].name)
  BY ResolveStep, EmptyCollects DEF Gathered
<1>2. ASSUME NEW S \in SUBSET DOMAIN Types, IsDeep(S), NEW i \in DOMAIN Types, Settled(i, S)'
      PROVE  params'[i] = Collected(i)'
  <2>1. CASE i = next
    BY <2>1, ResolveStep, ResolvedItself
  <2>2. CASE i # next
    <3>1. Settled(i, S)
      BY <1>2, <2>2, ResolveStep DEF Settled
    <3>2. params[i] = Collected(i) /\ params'[i] = params[i]
      BY <1>2, <2>2, <3>1, ResolveStep DEF Gathered
    <3>3. ASSUME Holds(i, next)
          PROVE  params'[next] = params[next] \/ Empty(next)
      <4>1. CASE next \in S
        <5>1. i \in S
          BY <1>2, <3>3, <4>1 DEF IsDeep
        <5>2. i < next
          BY <2>2, <3>1, <5>1 DEF Settled
        <5> QED  BY <1>2, <3>3, <4>1, <5>2 DEF IsDeep, Forward
      <4>2. CASE next \notin S /\ pass = 2
        <5>1. Settled(next, S)
          BY <4>2 DEF Settled
        <5> QED  BY <1>2, <5>1, ResolveStep DEF Gathered
      <4>3. CASE next \notin S /\ pass # 2
        <5>1. i \notin S /\ i < next
          BY <3>1, <4>3 DEF Settled
        <5> QED  BY <1>2, <3>3, <5>1, ResolveStep DEF IsDeep, Forward, Empty
      <4> QED  BY <4>1, <4>2, <4>3
    <3>4. \A j \in DOMAIN Types : Holds(i, j) =>
            \/ params'[j] = params[j]
            \/ params[j] \subseteq Own(Types[j].name) /\ params'[j] \subseteq Own(Types[j].name)
      BY <1>1, <3>3, ResolveStep DEF Gathered
    <3> QED  BY <3>2, <3>4, UntouchedCollected, ResolveStep
  <2> QED  BY <2>1, <2>2
<1> QED  BY <1>1, <1>2, ResolveStep, SameTypes DEF Gathered

(* The second pass begins when each type has been resolved once.           *)
LEMMA NextPassIInv == IInv /\ NextPass => IInv'
<1> SUFFICES ASSUME IInv, NextPass PROVE IInv'
  OBVIOUS
<1>1. /\ UNCHANGED <<spec, phase, params, args>> /\ phase = "resolve"
      /\ pass = 1 /\ pass' = 2 /\ next' = 1 /\ next \notin DOMAIN Types
  BY DEF NextPass, Passes, IInv, TypeOK
<1>2. Len(Types) \in Nat /\ DOMAIN Types = 1 .. Len(Types) /\ next \in 1 .. Len(Types) + 1
  BY Positions DEF IInv
<1>3. TypeOK'
  <2>1. next' \in 1 .. Len(Types) + 1 /\ pass' \in 1 .. Passes
    BY <1>1, <1>2 DEF Passes
  <2> QED  BY <1>1, <2>1, SameTypes DEF IInv, TypeOK
<1>4. NothingForeign'
  BY <1>1, SameTypes DEF IInv, NothingForeign
<1>5. \A i \in DOMAIN Types : \A S : Settled(i, S)' => Settled(i, S)
  <2>1. \A i \in DOMAIN Types : i < next /\ ~(i < next')
    BY <1>1, <1>2
  <2> QED  BY <1>1, <2>1 DEF Settled
<1>6. Gathered'
  BY <1>1, <1>5, SameTypes, SameCollected DEF IInv, Gathered
<1>7. Staged'
  BY <1>1, SameTypes DEF IInv, Staged
<1> QED  BY <1>3, <1>4, <1>6, <1>7 DEF IInv

(* While a pass runs no arguments are rendered.                            *)
LEMMA ResolveIInv == IInv /\ Resolve => IInv'
<1> SUFFICES ASSUME IInv, Resolve PROVE IInv'
  OBVIOUS
<1>1. phase = "resolve" /\ phase' = "resolve" /\ UNCHANGED spec
  BY ResolveStep DEF IInv
<1>2. Staged'
  BY <1>1, SameTypes DEF IInv, Staged
<1> QED  BY <1>2, ResolveType, ResolveForeign, ResolveGathered DEF IInv

(* The arguments for a name are the list of the last type of that name.    *)
LEMMA ArgsForLast ==
  ASSUME TypeOK, NEW name, Named(name) # {}
  PROVE  \E j \in Named(name) : ArgsFor(name) = params[j]
<1>1. Named(name) \in SUBSET (1 .. Len(Types)) /\ Len(Types) \in Nat
  BY Positions DEF Named
<1>2. \E j \in Named(name) : \A k \in Named(name) : k <= j
  BY <1>1, LastOne
<1>3. Max(Named(name)) \in Named(name)
  BY <1>1, <1>2 DEF Max
<1> QED  BY <1>3 DEF ArgsFor

(* What is handed on is read off the lists.                                *)
LEMMA SameHanded ==
  ASSUME UNCHANGED <<spec, params>>
  PROVE  HandedOn' = HandedOn
<1>1. \A name : ArgsFor(name)' = ArgsFor(name)
  BY SameTypes DEF ArgsFor
<1>2. Types' = Types
  BY DEF Types
<1> QED  BY <1>1, <1>2 DEF HandedOn, Handed

(* Rendering the arguments changes no list.                                *)
LEMMA FinishIInv == IInv /\ Finish => IInv'
<1> SUFFICES ASSUME IInv, Finish PROVE IInv'
  OBVIOUS
<1>1. /\ UNCHANGED <<spec, pass, next, params>> /\ phase = "resolve" /\ phase' = "done"
      /\ pass = 2 /\ next \notin DOMAIN Types
      /\ args' = HandedOn
  BY DEF Finish, Passes
<1>2. TypeOK'
  <2>1. \A name : ArgsFor(name) \subseteq TypeNames
    <3> SUFFICES ASSUME NEW name PROVE ArgsFor(name) \subseteq TypeNames
      OBVIOUS
    <3>1. CASE Named(name) = {}
      BY <3>1 DEF ArgsFor
    <3>2. CASE Named(name) # {}
      BY <3>2, ArgsForLast DEF IInv, TypeOK, Named
    <3> QED  BY <3>1, <3>2
  <2>2. DOMAIN args' = DOMAIN Types
        /\ \A i \in DOMAIN Types : args'[i] \in [DOMAIN Types[i].fields -> SUBSET TypeNames]
    BY <1>1, <2>1 DEF Handed, HandedOn
  <2> QED  BY <1>1, <2>2, SameTypes DEF IInv, TypeOK
<1>3. NothingForeign'
  BY <1>1, SameTypes DEF IInv, NothingForeign
<1>4. Gathered'
  BY <1>1, SameTypes, SameCollected DEF IInv, Gathered, Settled
<1>5. Staged'
  BY <1>1, SameTypes, SameHanded DEF IInv, Staged
<1> QED  BY <1>2, <1>3, <1>4, <1>5 DEF IInv

(* A step that changes nothing.                                            *)
LEMMA StutterIInv == IInv /\ UNCHANGED vars => IInv'
<1> SUFFICES ASSUME IInv, UNCHANGED vars PROVE IInv'
  OBVIOUS
<1>1. UNCHANGED <<spec, phase, pass, next, params, args>>
  BY DEF vars
<1>2. TypeOK' /\ NothingForeign'
  BY <1>1, SameTypes DEF IInv, TypeOK, NothingForeign
<1>3. Gathered'
  BY <1>1, SameTypes, SameCollected DEF IInv, Gathered, Settled
<1>4. Staged'
  BY <1>1, SameTypes, SameHanded DEF IInv, Staged
<1> QED  BY <1>2, <1>3, <1>4 DEF IInv

(* The invariant of both passes, at every moment of every build.           *)
LEMMA Inductive == Spec => []IInv
<1>1. IInv /\ [Next]_vars => IInv'
  BY LoadIInv, ResolveIInv, NextPassIInv, FinishIInv, StutterIInv DEF Next
<1> QED  BY InitIInv, <1>1, PTL DEF Spec

-----------------------------------------------------------------------------

(* BuildView's lists hold parameters some type brings, one for each type.  *)
THEOREM TypeCorrect == Spec => []TypeOK
<1>1. IInv => TypeOK
  BY DEF IInv
<1> QED  BY <1>1, Inductive, PTL

(* No type asks for a parameter of a type that it does not contain.        *)
THEOREM ForeignFree == Spec => []NothingForeign
<1>1. IInv => NothingForeign
  BY DEF IInv
<1> QED  BY <1>1, Inductive, PTL

(* After two passes a third would find nothing, in shallow types.          *)
LEMMA Complete == IInv => NothingMissing
<1> SUFFICES ASSUME IInv, phase = "done", Shallow,
                    NEW i \in DOMAIN Types
             PROVE  params[i] = Collected(i)
  BY DEF NothingMissing
<1>1. PICK S \in SUBSET DOMAIN Types : IsDeep(S)
  BY DEF Shallow
<1>2. pass = 2 /\ next \notin DOMAIN Types
  BY DEF IInv, Staged
<1>3. i < next
  BY <1>2, Positions DEF IInv
<1>4. Settled(i, S)
  BY <1>2, <1>3 DEF Settled
<1> QED  BY <1>1, <1>4 DEF IInv, Gathered

(* Two passes are enough, whatever the number of types.                    *)
THEOREM MissingFree == Spec => []NothingMissing
BY Inductive, Complete, PTL

(* What a type brings or reaches: it is of a name that every set of types  *)
(* has which holds the type and, with each, all those it contains.         *)
Reached(i) ==
  {n \in TypeNames : Own(n) # {} /\ \A S \in SUBSET DOMAIN Types :
                       i \in S /\ Closed(S) => n \in {Types[j].name : j \in S}}

(* Where nothing is missing, all that a type reaches is in its list.       *)
LEMMA ReachedIsListed ==
  ASSUME IInv, phase = "done", Shallow, NEW i \in DOMAIN Types, NEW n \in Reached(i)
  PROVE  n \in params[i]
<1> DEFINE S == {j \in DOMAIN Types : params[j] \subseteq params[i]}
<1>1. \A j \in DOMAIN Types : params[j] = Collected(j)
  BY Complete DEF NothingMissing
<1>2. Closed(S)
  <2> SUFFICES ASSUME NEW k \in S, NEW j \in DOMAIN Types, Holds(k, j) PROVE params[j] \subseteq params[i]
    BY DEF Closed
  <2>1. params[j] \subseteq Collected(k)
    BY Includes
  <2> QED
    BY <1>1, <2>1
<1>3. i \in S /\ S \in SUBSET DOMAIN Types
  OBVIOUS
<1>4. PICK j \in S : Types[j].name = n
  BY <1>2, <1>3 DEF Reached
<1>5. Own(n) = {n}
  BY DEF Own, Reached
<1>6. n \in Collected(j)
  BY <1>4, <1>5 DEF Collected
<1> QED  BY <1>1, <1>4, <1>6

(* After two passes over shallow types the list of each is exactly what it *)
(* brings or reaches: the least fixed point that the comment of            *)
(* resolveUnknownParams has in mind, in whatever order the types stand.    *)
THEOREM ListsAreWhatIsReached ==
  Spec => [](phase = "done" /\ Shallow => \A i \in DOMAIN Types : params[i] = Reached(i))
<1>1. IInv => (phase = "done" /\ Shallow => \A i \in DOMAIN Types : params[i] = Reached(i))
  <2> SUFFICES ASSUME IInv, phase = "done", Shallow, NEW i \in DOMAIN Types
               PROVE  params[i] = Reached(i)
    OBVIOUS
  <2>1. params[i] \subseteq Reached(i)
    <3> SUFFICES ASSUME NEW n \in params[i] PROVE n \in Reached(i)
      OBVIOUS
    <3>1. n \in TypeNames
      BY DEF IInv, TypeOK
    <3>2. \A S \in SUBSET DOMAIN Types :
            i \in S /\ Closed(S) => n \in {Types[j].name : j \in S} /\ Own(n) # {}
      BY DEF IInv, NothingForeign
    <3>3. Own(n) # {}
      BY <3>2 DEF Closed
    <3> QED
      BY <3>1, <3>2, <3>3 DEF Reached
  <2>2. Reached(i) \subseteq params[i]
    BY ReachedIsListed
  <2> QED
    BY <2>1, <2>2
<1> QED  BY <1>1, Inductive, PTL

(* An accepted file has no type without a name.                            *)
LEMMA TypesAreNamed ==
  ASSUME IInv, phase = "done", NEW i \in DOMAIN Types
  PROVE  Types[i].name # ""
BY DEF IInv, Staged, Accepted, TypeAccepted, Types, Range

(* What a field hands on is declared by the type it stands in, and is what *)
(* the type it refers to declares.                                         *)
LEMMA Fitting == IInv => ArgumentsFit
<1> SUFFICES ASSUME IInv, phase = "done", Shallow,
                    NEW i \in DOMAIN Types, NEW k \in DOMAIN Types[i].fields
             PROVE  LET f == Types[i].fields[k]
                    IN /\ args[i][k] \subseteq params[i]
                       /\ f.kind \in {"array:ref", "ref"} => Own(f.elem) \subseteq args[i][k]
                       /\ \A j \in Named(f.elem) :
                            f.kind \in {"array:ref", "ref"} /\ Named(f.elem) = {j} => args[i][k] = params[j]
  BY DEF ArgumentsFit
<1> DEFINE f == Types[i].fields[k]
<1>1. args[i][k] = IF f.kind \in {"array:ref", "ref"} THEN ArgsFor(f.elem) ELSE {}
  <2>1. args = HandedOn
    BY DEF IInv, Staged
  <2>2. HandedOn[i][k] = Handed(f)
    BY DEF HandedOn
  <2> QED  BY <2>1, <2>2 DEF Handed
<1>2. \A j \in DOMAIN Types : params[j] = Collected(j)
  BY Complete DEF NothingMissing
<1>3. CASE ~(f.kind \in {"array:ref", "ref"})
  BY <1>1, <1>3
<1>4. CASE f.kind \in {"array:ref", "ref"} /\ Named(f.elem) = {}
  BY <1>1, <1>4, OwnNames DEF ArgsFor
<1>5. CASE f.kind \in {"array:ref", "ref"} /\ Named(f.elem) # {}
  <2>1. PICK j \in Named(f.elem) : ArgsFor(f.elem) = params[j]
    BY <1>5, ArgsForLast DEF IInv
  <2>2. j \in DOMAIN Types /\ Types[j].name = f.elem
    BY DEF Named
  <2>3. Own(f.elem) \subseteq params[j]
    BY <1>2, <2>2 DEF Collected
  <2>4. params[j] \subseteq params[i]
    <3>1. CASE f.elem = ""
      BY <2>2, <3>1, TypesAreNamed
    <3>2. CASE f.elem # ""
      <4>1. Holds(i, j)
        BY <2>2, <3>2 DEF Holds, Elems, Range
      <4> QED  BY <1>2, <2>2, <4>1, Includes
    <3> QED  BY <3>1, <3>2
  <2> QED  BY <1>1, <1>5, <2>1, <2>3, <2>4
<1> QED  BY <1>3, <1>4, <1>5

(* The TypeScript that is rendered names no parameter out of scope.        *)
THEOREM ArgumentsAreInScope == Spec => []ArgumentsFit
BY Inductive, Fitting, PTL

-----------------------------------------------------------------------------
(* What the templates make of a finished view.  Nothing here is about      *)
(* steps: a finished view is one of an accepted file.                      *)

LEMMA Finished ==
  ASSUME IInv, Done
  PROVE  spec \in Specs /\ Accepted(spec)
BY DEF IInv, Staged, Done

LEMMA AtMostIsTransitive ==
  ASSUME NEW a \in Int, NEW b \in Int, NEW c \in Int, a <= b, b <= c
  PROVE  a <= c
OBVIOUS

(* A list of numbers has a greatest one at any of the places looked at.    *)
LEMMA GreatestOne ==
  ASSUME NEW n \in Nat, NEW r \in [1 .. n -> Int], NEW S \in SUBSET (1 .. n), S # {}
  PROVE  \E i \in S : \A j \in S : r[j] <= r[i]
<1> DEFINE Tops(T) == {i \in T : \A j \in T : r[j] <= r[i]}
           Bad == {m \in 0 .. n : \E T \in SUBSET (1 .. m) : T # {} /\ Tops(T) = {}}
<1>1. SUFFICES ASSUME Bad # {} PROVE FALSE
  <2>1. n \in 0 .. n
    OBVIOUS
  <2>2. Bad = {}
    <3> HIDE DEF Bad
    <3> QED  BY <1>1
  <2>3. Tops(S) # {}
    BY <2>1, <2>2
  <2> QED  BY <2>3
<1>2. PICK m \in Bad : \A k \in Bad : ~(<<k, m>> \in OpToRel(<, Nat))
  <2>1. Bad \subseteq Nat
    OBVIOUS
  <2> HIDE DEF Bad
  <2> QED  BY <1>1, <2>1, NatLessThanWellFounded, WFMin
<1>3. m \in 0 .. n /\ \A k \in Bad : ~(k < m)
  <2>1. Bad \subseteq 0 .. n /\ 0 .. n \subseteq Nat
    OBVIOUS
  <2> HIDE DEF Bad
  <2> QED  BY <1>2, <2>1 DEF OpToRel
<1>4. PICK T \in SUBSET (1 .. m) : T # {} /\ Tops(T) = {}
  OBVIOUS
<1>5. m - 1 \in 0 .. n /\ m - 1 \notin Bad
  <2>1. m # 0
    BY <1>4
  <2>2. m - 1 \in 0 .. n /\ m - 1 < m
    BY <1>3, <2>1
  <2> QED  BY <1>3, <2>2
<1>6. T \ {m} \in SUBSET (1 .. m - 1)
  BY <1>3
<1>7. CASE T \ {m} = {}
  <2>1. T = {m}
    BY <1>4, <1>7
  <2>2. r[m] \in Int
    BY <1>3, <1>4, <2>1
  <2> QED  BY <1>4, <2>1, <2>2
<1>8. CASE T \ {m} # {}
  <2>1. PICK i \in T \ {m} : \A j \in T \ {m} : r[j] <= r[i]
    BY <1>5, <1>6, <1>8
  <2>2. \A j \in T : r[j] \in Int
    BY <1>3
  <2>3. CASE m \in T /\ r[i] <= r[m]
    <3>1. r[i] \in Int /\ r[m] \in Int /\ r[i] <= r[m]
      BY <2>2, <2>3
    <3>2. ASSUME NEW j \in T PROVE r[j] <= r[m]
      <4>1. r[j] \in Int
        BY <2>2
      <4>2. CASE j = m
        BY <3>1, <4>2
      <4>3. CASE j # m
        <5>1. r[j] <= r[i]
          BY <2>1, <4>3
        <5> QED  BY <3>1, <4>1, <5>1, AtMostIsTransitive
      <4> QED  BY <4>2, <4>3
    <3> QED  BY <1>4, <2>3, <3>2
  <2>4. CASE ~(m \in T /\ r[i] <= r[m])
    <3>1. ASSUME NEW j \in T PROVE r[j] <= r[i]
      <4>1. r[j] \in Int /\ r[i] \in Int
        BY <2>2
      <4>2. CASE j = m
        <5>1. m \in T /\ ~(r[i] <= r[m])
          BY <2>4, <4>2
        <5> QED  BY <4>1, <4>2, <5>1
      <4>3. CASE j # m
        BY <2>1, <4>3
      <4> QED  BY <4>2, <4>3
    <3> QED  BY <1>4, <2>1, <3>1
  <2> QED  BY <2>3, <2>4
<1> QED  BY <1>7, <1>8

(* nakedByPrefix finds a naked code of the prefix if there is one.         *)
LEMMA NakedFormFound ==
  ASSUME spec \in Specs, NEW p, NakedCodes(p) # {}
  PROVE  NakedForm(p) \in NakedCodes(p)
<1> DEFINE n == Len(spec.codes)
           r == [i \in 1 .. n |-> Rank[spec.codes[i].code]]
           S == {i \in 1 .. n : spec.codes[i].code \in NakedCodes(p)}
<1>1. n \in Nat /\ DOMAIN spec.codes = 1 .. n
  BY SpecsAssumption
<1>2. \A c \in Codes(spec) : \E i \in 1 .. n : c = spec.codes[i].code
  BY <1>1 DEF Codes, Range
<1>3. \A i \in 1 .. n : spec.codes[i].code \in DOMAIN Rank
  BY <1>1, SpecsAssumption DEF Codes, Range
<1>4. r \in [1 .. n -> Int]
  BY <1>3, RankAssumption
<1>5. S # {} /\ S \in SUBSET (1 .. n)
  BY <1>2 DEF NakedCodes
<1>6. PICK i \in S : \A j \in S : r[j] <= r[i]
  <2> HIDE DEF n, r, S
  <2> QED  BY <1>1, <1>4, <1>5, GreatestOne
<1>7. \A d \in NakedCodes(p) : Rank[d] <= Rank[spec.codes[i].code]
  BY <1>2, <1>6 DEF NakedCodes
<1>8. spec.codes[i].code \in NakedCodes(p)
  OBVIOUS
<1> QED  BY <1>7, <1>8 DEF NakedForm

LEMMA FallbackFound == IInv => FallbackIsKnown
<1> SUFFICES ASSUME IInv, Done, NEW c \in DOMAIN Rank, Prefix(c) \in spec.prefixes
             PROVE  /\ Normalized(c) \in Codes(spec) /\ Prefix(Normalized(c)) = Prefix(c)
                    /\ c \notin Codes(spec) => IsNaked(Normalized(c))
                    /\ Prefix(c) = "gen" => GeneralNaked \in Codes(spec) /\ IsNaked(GeneralNaked)
  BY DEF FallbackIsKnown
<1>1. NakedCodes(Prefix(c)) # {}
  BY Finished DEF Accepted, CodesOK, NakedCodes
<1>2. NakedForm(Prefix(c)) \in NakedCodes(Prefix(c))
  BY <1>1, Finished, NakedFormFound
<1> QED  BY <1>2 DEF Normalized, GeneralNaked, NakedCodes

(* Every declared prefix has a code to fall back to, for any table of codes*)
(* that validate accepts (ir.go, validateErrorCodes).                      *)
THEOREM EveryCodeFallsBack == Spec => []FallbackIsKnown
BY Inductive, FallbackFound, PTL

-----------------------------------------------------------------------------
(* Accessors.                                                              *)

(* A non-empty set of positions has a first one.                           *)
LEMMA FirstOne ==
  ASSUME NEW S \in SUBSET Nat, S # {}
  PROVE  \E i \in S : \A j \in S : i <= j
<1>1. PICK i \in S : \A j \in S : ~(<<j, i>> \in OpToRel(<, Nat))
  BY NatLessThanWellFounded, WFMin
<1>2. \A j \in S : ~(j < i)
  BY <1>1 DEF OpToRel
<1> QED  BY <1>2

(* An accessor whose steps find the times ts returns at its step i.        *)
Stops(a, ts, i) == i = Len(a) \/ ts[i] # Nothing

(* What the steps of an accessor return from step i on.                    *)
IsChain(From, a, ts) ==
  From = [i \in DOMAIN a |-> IF i = Len(a) \/ ts[i] # Nothing THEN ts[i] ELSE From[i + 1]]

(* From any step on there is a first that returns.                         *)
LEMMA FirstStop ==
  ASSUME NEW a, a \in Seq(Range(a)), NEW ts, NEW i \in 1 .. Len(a)
  PROVE  \E j \in i .. Len(a) :
           Stops(a, ts, j) /\ \A k \in i .. Len(a) : Stops(a, ts, k) => j <= k
<1> DEFINE S == {j \in i .. Len(a) : Stops(a, ts, j)}
<1>1. Len(a) \in S /\ S \in SUBSET Nat
  BY DEF Stops
<1>2. \E j \in S : \A k \in S : j <= k
  <2> HIDE DEF S
  <2> QED  BY <1>1, FirstOne
<1> QED  BY <1>2

(* There is such a chain, and its first step returns what the first step   *)
(* that returns finds.                                                     *)
LEMMA ChainStops ==
  ASSUME NEW a, a \in Seq(Range(a)), a # <<>>, NEW ts
  PROVE  /\ \E g : IsChain(g, a, ts)
         /\ \A From : IsChain(From, a, ts) =>
              \E j \in 1 .. Len(a) :
                /\ From[1] = ts[j]
                /\ Stops(a, ts, j)
                /\ \A k \in 1 .. Len(a) : Stops(a, ts, k) => j <= k
<1> DEFINE n == Len(a)
           IsFirst(i, j) == Stops(a, ts, j) /\ \A k \in i .. n : Stops(a, ts, k) => j <= k
           First(i) == CHOOSE j \in i .. n : IsFirst(i, j)
           G == [i \in DOMAIN a |-> ts[First(i)]]
<1>1. n \in Nat /\ DOMAIN a = 1 .. n /\ 1 \in 1 .. n
  OBVIOUS
<1>2. \A i \in 1 .. n : First(i) \in i .. n /\ IsFirst(i, First(i))
  BY FirstStop
<1> HIDE DEF First
<1>4. ASSUME NEW i \in 1 .. n, Stops(a, ts, i) PROVE First(i) = i
  <2>1. First(i) \in i .. n /\ First(i) <= i
    BY <1>2, <1>4
  <2> QED  BY <2>1
<1>5. ASSUME NEW i \in 1 .. n, ~Stops(a, ts, i)
      PROVE  i + 1 \in 1 .. n /\ First(i) = First(i + 1)
  <2>1. i # n
    BY <1>5 DEF Stops
  <2>2. i + 1 \in 1 .. n
    <3> HIDE DEF n
    <3> QED  BY <1>1, <2>1
  <2>3. First(i) \in i .. n /\ First(i) # i /\ IsFirst(i, First(i))
    BY <1>2, <1>5
  <2>4. First(i + 1) \in i + 1 .. n /\ IsFirst(i + 1, First(i + 1))
    BY <1>2, <2>2
  <2>5. First(i) \in i + 1 .. n /\ First(i + 1) \in i .. n
    BY <1>1, <2>3, <2>4
  <2>6. First(i) <= First(i + 1) /\ First(i + 1) <= First(i)
    BY <2>3, <2>4, <2>5
  <2> QED  BY <1>1, <2>2, <2>5, <2>6
<1> HIDE DEF IsFirst
<1>6. IsChain(G, a, ts)
  <2>1. ASSUME NEW i \in 1 .. n
        PROVE  G[i] = IF i = Len(a) \/ ts[i] # Nothing THEN ts[i] ELSE G[i + 1]
    <3>1. CASE Stops(a, ts, i)
      BY <1>1, <1>4, <3>1 DEF Stops
    <3>2. CASE ~Stops(a, ts, i)
      BY <1>1, <1>5, <3>2 DEF Stops
    <3> QED  BY <3>1, <3>2
  <2> HIDE DEF G
  <2>2. G = [i \in DOMAIN a |-> G[i]]
    BY DEF G
  <2> QED  BY <1>1, <2>1, <2>2 DEF IsChain
<1>7. SUFFICES ASSUME NEW From, IsChain(From, a, ts)
               PROVE  \E j \in 1 .. n : From[1] = ts[j] /\ IsFirst(1, j)
  <2> HIDE DEF G
  <2> QED  BY <1>6 DEF IsFirst
<1>8. \A i \in 1 .. n : From[i] = G[i]
  <2> DEFINE Bad == {i \in 1 .. n : From[i] # G[i]}
  <2>1. SUFFICES ASSUME Bad # {} PROVE FALSE
    <3>1. Bad = {}
      BY <2>1
    <3> QED  BY <3>1
  <2>2. PICK i \in Bad : \A j \in Bad : j <= i
    <3>1. Bad \in SUBSET (1 .. n)
      OBVIOUS
    <3> HIDE DEF Bad
    <3> QED  BY <1>1, <2>1, <3>1, LastOne
  <2>3. i \in 1 .. n /\ From[i] # G[i] /\ \A j \in 1 .. n : From[j] # G[j] => j <= i
    BY <2>2
  <2>4. From[i] = IF i = Len(a) \/ ts[i] # Nothing THEN ts[i] ELSE From[i + 1]
    BY <1>1, <1>7, <2>3 DEF IsChain
  <2>5. G[i] = IF i = Len(a) \/ ts[i] # Nothing THEN ts[i] ELSE G[i + 1]
    <3> HIDE DEF G
    <3> QED  BY <1>1, <1>6, <2>3 DEF IsChain
  <2>6. CASE Stops(a, ts, i)
    BY <2>3, <2>4, <2>5, <2>6 DEF Stops
  <2>7. CASE ~Stops(a, ts, i)
    <3>1. i + 1 \in 1 .. n /\ From[i] = From[i + 1] /\ G[i] = G[i + 1]
      <4> HIDE DEF G
      <4> QED  BY <1>5, <2>3, <2>4, <2>5, <2>7 DEF Stops
    <3> HIDE DEF G
    <3> QED  BY <1>1, <2>3, <3>1
  <2> QED  BY <2>6, <2>7
<1>9. From[1] = ts[First(1)]
  BY <1>1, <1>8
<1> QED  BY <1>1, <1>2, <1>9

(* In both languages only what is above zero is a time, and is that time.  *)
LEMMA TimeIsAboveZero ==
  ASSUME NEW v \in Seconds \cup {Nothing}
  PROVE  /\ GoTime(v) = IF v # Nothing /\ v > 0 THEN v ELSE Nothing
         /\ EpochToDate(v) = IF v # Nothing /\ v > 0 THEN v ELSE Nothing
<1>1. CASE v = Nothing
  BY <1>1 DEF GoTime, EpochToTime, EpochToDate
<1>2. CASE v # Nothing
  <2>1. v \in Int
    BY <1>2, SecondsAssumption
  <2>2. EpochToDate(v) = IF v <= 0 THEN Nothing ELSE v
    BY <1>2 DEF EpochToDate
  <2>3. GoTime(v) = IF v <= 0 THEN Nothing ELSE v
    BY <1>2 DEF GoTime, EpochToTime
  <2> QED  BY <1>2, <2>1, <2>2, <2>3
<1> QED  BY <1>1, <1>2

(* The first of the epochs that is a time.                                 *)
Finds(a, row, time) ==
  LET times == {i \in DOMAIN a : row[a[i]] # Nothing /\ row[a[i]] > 0}
  IN IF times = {} THEN time = Nothing
     ELSE \E i \in times : time = row[a[i]] /\ \A j \in times : i <= j

LEMMA ChainFinds ==
  ASSUME NEW a, a \in Seq(Range(a)), a # <<>>, NEW row, NEW ts,
         \A i \in 1 .. Len(a) :
           ts[i] = IF row[a[i]] # Nothing /\ row[a[i]] > 0 THEN row[a[i]] ELSE Nothing,
         NEW From, IsChain(From, a, ts)
  PROVE  Finds(a, row, From[1])
<1> DEFINE times == {i \in DOMAIN a : row[a[i]] # Nothing /\ row[a[i]] > 0}
<1>1. DOMAIN a = 1 .. Len(a) /\ Len(a) \in Nat
  OBVIOUS
<1>2. \A i \in 1 .. Len(a) :
        (i \in times <=> ts[i] # Nothing) /\ (i \in times => ts[i] = row[a[i]])
  BY <1>1
<1>3. times \subseteq 1 .. Len(a)
  BY <1>1
<1>4. PICK j \in 1 .. Len(a) :
        /\ From[1] = ts[j]
        /\ Stops(a, ts, j)
        /\ \A k \in 1 .. Len(a) : Stops(a, ts, k) => j <= k
  BY ChainStops
<1>5. SUFFICES IF times = {} THEN From[1] = Nothing
               ELSE \E i \in times : From[1] = row[a[i]] /\ \A k \in times : i <= k
  BY DEF Finds
<1> HIDE DEF times
<1>6. \A k \in times : j <= k
  BY <1>2, <1>3, <1>4 DEF Stops
<1>7. CASE j \in times
  BY <1>2, <1>4, <1>6, <1>7
<1>8. CASE j \notin times
  <2>1. j = Len(a) /\ From[1] = Nothing
    BY <1>2, <1>4, <1>8 DEF Stops
  <2>2. times = {}
    BY <1>1, <1>3, <1>6, <1>8, <2>1
  <2> QED  BY <2>1, <2>2
<1> QED  BY <1>7, <1>8

LEMMA AccessorsFindTimes == IInv => FirstTimeWins
<1> SUFFICES ASSUME IInv, Done, NEW t \in Range(Types), NEW a \in Range(t.accessors),
                    NEW row \in [Epochs(t) -> Seconds \cup {Nothing}]
             PROVE  Finds(a, row, GoAccessor(a, row)) /\ Finds(a, row, NodeAccessor(a, row))
  BY DEF FirstTimeWins, Finds
<1> DEFINE gs == [i \in DOMAIN a |-> GoTime(row[a[i]])]
           ds == [i \in DOMAIN a |-> EpochToDate(row[a[i]])]
           GoChain(From) ==
             From = [i \in DOMAIN a |->
                       IF i = Len(a) \/ GoTime(row[a[i]]) # Nothing THEN GoTime(row[a[i]])
                       ELSE From[i + 1]]
           NodeChain(From) ==
             From = [i \in DOMAIN a |->
                       IF i = Len(a) \/ EpochToDate(row[a[i]]) # Nothing
                       THEN EpochToDate(row[a[i]])
                       ELSE From[i + 1]]
           GoFrom == CHOOSE From : GoChain(From)
           NodeFrom == CHOOSE From : NodeChain(From)
<1>1. a \in Seq(Range(a)) /\ AccessorOK(t, a)
  BY Finished, SpecsAssumption DEF Accepted, TypeAccepted, Types
<1>2. a # <<>> /\ DOMAIN a = 1 .. Len(a) /\ Len(a) \in Nat
  BY <1>1 DEF AccessorOK
<1>3. \A i \in 1 .. Len(a) : row[a[i]] \in Seconds \cup {Nothing}
  <2>1. \A i \in 1 .. Len(a) : a[i] \in Epochs(t)
    BY <1>1, <1>2 DEF AccessorOK, Epochs, Range
  <2> QED  BY <2>1
<1>4. GoAccessor(a, row) = GoFrom[1] /\ NodeAccessor(a, row) = NodeFrom[1]
  BY DEF GoAccessor, NodeAccessor
<1>5. \A From : (GoChain(From) <=> IsChain(From, a, gs)) /\ (NodeChain(From) <=> IsChain(From, a, ds))
  BY DEF IsChain
<1>6. \A i \in 1 .. Len(a) :
        /\ gs[i] = IF row[a[i]] # Nothing /\ row[a[i]] > 0 THEN row[a[i]] ELSE Nothing
        /\ ds[i] = IF row[a[i]] # Nothing /\ row[a[i]] > 0 THEN row[a[i]] ELSE Nothing
  BY <1>2, <1>3, TimeIsAboveZero
<1> HIDE DEF gs, ds, GoChain, NodeChain
<1>7. GoChain(GoFrom) /\ NodeChain(NodeFrom)
  BY <1>1, <1>2, <1>5, ChainStops
<1> HIDE DEF GoFrom, NodeFrom
<1> QED  BY <1>1, <1>2, <1>4, <1>5, <1>6, <1>7, ChainFinds

(* Every accessor of every accepted specification returns the first epoch  *)
(* above zero of those it prefers, or says that there is none, in Go and in*)
(* Node (epochToTime, epochToDate).                                        *)
THEOREM AccessorsReturnFirstTime == Spec => []FirstTimeWins
BY Inductive, AccessorsFindTimes, PTL

-----------------------------------------------------------------------------
(* Fields.                                                                 *)

(* The kinds of the fields both targets render.                            *)
LEMMA RenderedKinds ==
  ASSUME IInv, Done, NEW f \in Fields, Rendering(f)
  PROVE  f.kind \in {"string", "enum", "numericString", "epochSeconds", "bool", "extra",
                     "array:string", "array:ref"}
<1>1. PICK t \in Range(Types) : f \in Range(t.fields)
  BY DEF Fields
<1>2. FieldOK(spec, f)
  BY <1>1, Finished DEF Accepted, TypeAccepted, Types
<1> QED  BY <1>2 DEF FieldOK, Resolves, Scalars, Rendering

(* The JSON a field of each kind is read from, in Go and in TypeScript.    *)
LEMMA GoReadsOf ==
  ASSUME NEW f
  PROVE  /\ f.kind \in {"string", "enum", "numericString"} => GoReads(f) = "string"
         /\ f.kind = "epochSeconds" => GoReads(f) = "integer"
         /\ f.kind = "bool" => GoReads(f) = "boolean"
         /\ f.kind = "extra" => GoReads(f) = "object"
         /\ f.kind = "array:string" => GoReads(f) = "strings"
         /\ f.kind = "array:ref" => GoReads(f) = "objects"
<1>1. CASE f.kind \in {"string", "enum", "numericString"}
  <2>1. GoType(f) \in {"string", "*string"}
    BY <1>1 DEF GoType
  <2> QED  BY <1>1, <2>1 DEF GoReads
<1>2. CASE f.kind = "epochSeconds"
  <2>1. GoType(f) = "int64"
    BY <1>2 DEF GoType
  <2> QED  BY <1>2, <2>1 DEF GoReads
<1>3. CASE f.kind = "bool"
  <2>1. GoType(f) = "bool"
    BY <1>3 DEF GoType
  <2> QED  BY <1>3, <2>1 DEF GoReads
<1>4. CASE f.kind = "extra"
  <2>1. GoType(f) = "map[string]any"
    BY <1>4 DEF GoType
  <2> QED  BY <1>4, <2>1 DEF GoReads
<1>5. CASE f.kind = "array:string"
  <2>1. GoType(f) = "[]string"
    BY <1>5 DEF GoType
  <2> QED  BY <1>5, <2>1 DEF GoReads
<1>6. CASE f.kind = "array:ref"
  <2>1. GoType(f) = "[]T"
    BY <1>6 DEF GoType
  <2> QED  BY <1>6, <2>1 DEF GoReads
<1> QED  BY <1>1, <1>2, <1>3, <1>4, <1>5, <1>6

LEMMA NodeReadsOf ==
  ASSUME NEW f
  PROVE  /\ f.kind \in {"string", "enum", "numericString"} => NodeReads(f) = "string"
         /\ f.kind = "epochSeconds" => NodeReads(f) = "number"
         /\ f.kind = "bool" => NodeReads(f) = "boolean"
         /\ f.kind = "extra" => NodeReads(f) = "object"
         /\ f.kind = "array:string" => NodeReads(f) = "strings"
         /\ f.kind = "array:ref" => NodeReads(f) = "objects"
<1>1. CASE f.kind \in {"string", "enum", "numericString"}
  <2>1. TSType(f) \in {"ErrorCode", "string"}
    BY <1>1 DEF TSType
  <2> QED  BY <1>1, <2>1 DEF NodeReads
<1>2. CASE f.kind = "bool"
  <2>1. TSType(f) = "boolean"
    BY <1>2 DEF TSType
  <2> QED  BY <1>2, <2>1 DEF NodeReads
<1>3. CASE f.kind = "extra"
  <2>1. TSType(f) = "Record<string, unknown>"
    BY <1>3 DEF TSType
  <2> QED  BY <1>3, <2>1 DEF NodeReads
<1>4. CASE f.kind \in {"epochSeconds", "array:string", "array:ref"}
  <2>1. TSType(f) \in {"number", "string[]", "T[]"}
    BY <1>4 DEF TSType
  <2> QED  BY <1>4, <2>1 DEF NodeReads
<1> QED  BY <1>1, <1>2, <1>3, <1>4

LEMMA FieldsReadAlike == IInv => OnlyFractionsDiffer
<1> SUFFICES ASSUME IInv, Done, NEW f \in Fields, Rendering(f)
             PROVE  /\ Takes(GoReads(f)) \subseteq Takes(NodeReads(f))
                    /\ Takes(NodeReads(f)) \ Takes(GoReads(f)) =
                         IF f.kind = "epochSeconds" THEN {"fraction"} ELSE {}
  BY DEF OnlyFractionsDiffer
<1>1. CASE f.kind = "epochSeconds"
  <2>1. GoReads(f) = "integer" /\ NodeReads(f) = "number"
    BY <1>1, GoReadsOf, NodeReadsOf
  <2> QED  BY <1>1, <2>1 DEF Takes
<1>2. CASE f.kind # "epochSeconds"
  <2>1. GoReads(f) = NodeReads(f)
    BY <1>2, RenderedKinds, GoReadsOf, NodeReadsOf
  <2> QED  BY <1>2, <2>1
<1> QED  BY <1>1, <1>2

(* For every field of every accepted file Node takes what Go takes, and    *)
(* beyond it only fractions for an epoch (goType, and num of the template).*)
THEOREM ReadsAlikeUpToFractions == Spec => []OnlyFractionsDiffer
BY Inductive, FieldsReadAlike, PTL

(* A field by the way it is written.                                       *)
LEMMA WrittenKinds ==
  ASSUME IInv, Done, NEW f \in Fields, Canonical(f), Rendering(f)
  PROVE  \/ GoReads(f) = "string" /\ f.kind \notin {"array:string", "array:ref"}
         \/ GoReads(f) = "integer" /\ f.kind \notin {"array:string", "array:ref"} /\ ~Optional(f)
         \/ GoReads(f) = "boolean" /\ f.kind \notin {"array:string", "array:ref"} /\ ~Optional(f)
         \/ GoReads(f) = "strings" /\ f.kind = "array:string" /\ ~Optional(f)
         \/ GoReads(f) = "objects" /\ f.kind = "array:ref" /\ ~Optional(f)
<1>1. f.kind \in {"string", "enum", "numericString", "epochSeconds", "bool", "array:string", "array:ref"}
  BY RenderedKinds DEF Canonical
<1> QED  BY <1>1, GoReadsOf DEF Optional

(* A text as it is written, with or without escapes.                       *)
Text(x, escapes) == [text |-> x, escaped |-> x \in escapes]

LEMMA TextsDiffer ==
  ASSUME NEW x \in Texts, NEW y \in Texts
  PROVE  /\ Text(x, Escaped) = Text(y, {}) => x = y /\ x \notin Escaped
         /\ x \notin Escaped => Text(x, Escaped) = Text(x, {})
         /\ Text(x, {}) = Text(y, {}) <=> x = y
         /\ Text(x, Escaped) # Nothing /\ Text(x, {}) # Nothing
<1>1. Text(x, {}) \in [text : Texts, escaped : BOOLEAN]
      /\ Text(x, Escaped) \in [text : Texts, escaped : BOOLEAN]
  BY DEF Text
<1>2. x \notin {} /\ y \notin {}
  OBVIOUS
<1> QED  BY <1>1, <1>2, NothingAssumption DEF Text

(* Equal canonical values of one field mean the same, and what is sent     *)
(* alike is written alike up to escapes.                                   *)
TellsApart(f) ==
  \A x, y \in Sendable(f) :
    /\ GoCanonical(f, x) = NodeCanonical(f, y) => Means(f, x) = Means(f, y)
    /\ NodeCanonical(f, x) = NodeCanonical(f, y) <=> Means(f, x) = Means(f, y)
    /\ Means(f, x) = Means(f, y) /\ GoCanonical(f, x) # NodeCanonical(f, y) =>
         \E t \in Escaped : x = t \/ x = <<t>>

(* A field of strings: absent and empty differ if it is optional.          *)
LEMMA StringTellsApart ==
  ASSUME NEW f, GoReads(f) = "string", f.kind \notin {"array:string", "array:ref"}
  PROVE  TellsApart(f)
<1>1. Sendable(f) = {Nothing} \cup Texts /\ Zero(f) = "" /\ "" \in Texts /\ "" \notin Escaped
  BY TextsAssumption DEF Sendable, Zero
<1>2. \A x \in Texts : \A E : Written(f, x, E) = Text(x, E)
  BY NothingAssumption DEF Written, Text
<1>3. \A E : Written(f, Nothing, E) = Nothing
  BY DEF Written
<1>4. \A x \in Texts : GoCanonical(f, x) = Text(x, Escaped) /\ NodeCanonical(f, x) = Text(x, {}) /\ Means(f, x) = x
  BY <1>1, <1>2, NothingAssumption DEF GoCanonical, NodeCanonical, Means, GoHolds, NodeHolds
<1>5. Optional(f) =>
        GoCanonical(f, Nothing) = Nothing /\ NodeCanonical(f, Nothing) = Nothing /\ Means(f, Nothing) = Nothing
  BY <1>3 DEF GoCanonical, NodeCanonical, Means, GoHolds, NodeHolds
<1>6. ~Optional(f) =>
        /\ GoCanonical(f, Nothing) = Text("", Escaped) /\ NodeCanonical(f, Nothing) = Text("", {})
        /\ Means(f, Nothing) = ""
  BY <1>1, <1>2, NothingAssumption DEF GoCanonical, NodeCanonical, Means, GoHolds, NodeHolds
<1> SUFFICES ASSUME NEW x \in {Nothing} \cup Texts, NEW y \in {Nothing} \cup Texts
             PROVE  /\ GoCanonical(f, x) = NodeCanonical(f, y) => Means(f, x) = Means(f, y)
                    /\ NodeCanonical(f, x) = NodeCanonical(f, y) <=> Means(f, x) = Means(f, y)
                    /\ Means(f, x) = Means(f, y) /\ GoCanonical(f, x) # NodeCanonical(f, y) =>
                         \E t \in Escaped : x = t \/ x = <<t>>
  BY <1>1 DEF TellsApart
<1>7. CASE Optional(f)
  BY <1>4, <1>5, <1>7, TextsDiffer, NothingAssumption
<1>8. CASE ~Optional(f)
  <2> DEFINE Held(z) == IF z = Nothing THEN "" ELSE z
  <2>1. \A z \in {Nothing} \cup Texts :
          /\ Held(z) \in Texts /\ Means(f, z) = Held(z)
          /\ GoCanonical(f, z) = Text(Held(z), Escaped) /\ NodeCanonical(f, z) = Text(Held(z), {})
          /\ Held(z) \in Escaped => z = Held(z)
    BY <1>1, <1>4, <1>6, <1>8, NothingAssumption
  <2> HIDE DEF Held
  <2>2. /\ Text(Held(x), Escaped) = Text(Held(y), {}) => Held(x) = Held(y) /\ Held(x) \notin Escaped
        /\ Held(x) \notin Escaped => Text(Held(x), Escaped) = Text(Held(x), {})
        /\ Text(Held(x), {}) = Text(Held(y), {}) <=> Held(x) = Held(y)
    BY <2>1, TextsDiffer
  <2> QED  BY <2>1, <2>2
<1> QED  BY <1>7, <1>8

(* Numbers and flags: absent is zero.                                      *)
LEMMA ScalarTellsApart ==
  ASSUME NEW f, GoReads(f) \in {"integer", "boolean"}, ~Optional(f),
         f.kind \notin {"array:string", "array:ref"}
  PROVE  TellsApart(f)
<1>1. /\ Zero(f) \in Sendable(f) \ {Nothing} /\ Nothing \in Sendable(f)
  <2>1. CASE GoReads(f) = "integer"
    BY <2>1, SecondsAssumption, NothingAssumption DEF Zero, Sendable
  <2>2. CASE GoReads(f) = "boolean"
    BY <2>2, NothingAssumption DEF Zero, Sendable
  <2> QED  BY <2>1, <2>2
<1>2. \A x : \A E : x # Nothing => Written(f, x, E) = x
  BY DEF Written
<1>3. \A x \in Sendable(f) : GoCanonical(f, x) = Means(f, x) /\ NodeCanonical(f, x) = Means(f, x)
  BY <1>1, <1>2 DEF GoCanonical, NodeCanonical, Means, GoHolds, NodeHolds
<1> QED  BY <1>3 DEF TellsApart

(* Lists of strings: nil, absent and empty are one.                        *)
LEMMA StringsTellApart ==
  ASSUME NEW f, GoReads(f) = "strings", f.kind = "array:string", ~Optional(f)
  PROVE  TellsApart(f)
<1>1. Sendable(f) = {Nothing, <<>>} \cup {<<x>> : x \in Texts} /\ Zero(f) = <<>>
  BY DEF Sendable, Zero
<1>2. \A x \in Texts : \A E : Written(f, <<x>>, E) = <<Text(x, E)>>
  <2> TAKE x \in Texts
  <2> TAKE E
  <2>1. <<x>> # Nothing /\ DOMAIN <<x>> = 1 .. 1 /\ <<x>>[1] = x
    BY NothingAssumption
  <2>2. Written(f, <<x>>, E) = [i \in 1 .. 1 |-> Text(<<x>>[i], E)]
    BY <2>1 DEF Written, Text
  <2> QED  BY <2>1, <2>2
<1>3. \A E : Written(f, <<>>, E) = <<>>
  BY NothingAssumption DEF Written
<1>4. \A x \in Texts : GoCanonical(f, <<x>>) = <<Text(x, Escaped)>> /\ NodeCanonical(f, <<x>>) = <<Text(x, {})>>
                       /\ Means(f, <<x>>) = <<x>>
  BY <1>2, NothingAssumption DEF GoCanonical, NodeCanonical, Means, GoHolds, NodeHolds
<1>5. \A x \in {Nothing, <<>>} : GoCanonical(f, x) = <<>> /\ NodeCanonical(f, x) = <<>> /\ Means(f, x) = <<>>
  BY <1>1, <1>3, NothingAssumption DEF GoCanonical, NodeCanonical, Means, GoHolds, NodeHolds
<1>6. \A x, y : <<x>> # <<>> /\ (<<x>> = <<y>> <=> x = y)
  OBVIOUS
<1> SUFFICES ASSUME NEW x \in {Nothing, <<>>} \cup {<<t>> : t \in Texts},
                    NEW y \in {Nothing, <<>>} \cup {<<t>> : t \in Texts}
             PROVE  /\ GoCanonical(f, x) = NodeCanonical(f, y) => Means(f, x) = Means(f, y)
                    /\ NodeCanonical(f, x) = NodeCanonical(f, y) <=> Means(f, x) = Means(f, y)
                    /\ Means(f, x) = Means(f, y) /\ GoCanonical(f, x) # NodeCanonical(f, y) =>
                         \E t \in Escaped : x = t \/ x = <<t>>
  BY <1>1 DEF TellsApart
<1>7. CASE x \in {Nothing, <<>>}
  BY <1>4, <1>5, <1>6, <1>7
<1>8. CASE x \notin {Nothing, <<>>}
  <2>1. PICK s \in Texts : x = <<s>>
    BY <1>8
  <2>2. CASE y \in {Nothing, <<>>}
    BY <1>4, <1>5, <1>6, <2>1, <2>2
  <2>3. CASE y \notin {Nothing, <<>>}
    <3>1. PICK u \in Texts : y = <<u>>
      BY <2>3
    <3> QED  BY <1>4, <1>6, <2>1, <3>1, TextsDiffer
  <2> QED  BY <2>2, <2>3
<1> QED  BY <1>7, <1>8

(* Lists of objects, item by item: nil, absent and empty are one.          *)
LEMMA ObjectsTellApart ==
  ASSUME NEW f, GoReads(f) = "objects", f.kind = "array:ref", ~Optional(f)
  PROVE  TellsApart(f)
<1>1. Sendable(f) = {Nothing, <<>>} /\ Zero(f) = <<>>
  BY DEF Sendable, Zero
<1>2. \A E : Written(f, <<>>, E) = <<>>
  BY NothingAssumption DEF Written
<1>3. \A x \in {Nothing, <<>>} : GoCanonical(f, x) = <<>> /\ NodeCanonical(f, x) = <<>> /\ Means(f, x) = <<>>
  BY <1>1, <1>2, NothingAssumption DEF GoCanonical, NodeCanonical, Means, GoHolds, NodeHolds
<1> QED  BY <1>1, <1>3 DEF TellsApart

LEMMA FieldsTellApart == IInv => CanonicalTellsApart
<1> SUFFICES ASSUME IInv, Done, NEW f \in Fields, Canonical(f), Rendering(f)
             PROVE  TellsApart(f)
  BY DEF CanonicalTellsApart, TellsApart
<1> QED  BY WrittenKinds, StringTellsApart, ScalarTellsApart, StringsTellApart, ObjectsTellApart

(* Equal canonical output means equal data, in one language and across,    *)
(* for every field of every accepted specification and all texts.          *)
THEOREM CanonicalIsFaithful == Spec => []CanonicalTellsApart
BY Inductive, FieldsTellApart, PTL

-----------------------------------------------------------------------------
(* Requests.                                                               *)

(* Each of the requests with each of the arguments.                        *)
Extended(R, A) == {Append(r, a) : r \in R, a \in A}

LEMMA ExtendedMembers ==
  ASSUME NEW R, NEW A, NEW x
  PROVE  x \in Extended(R, A) <=> \E r \in R : \E a \in A : x = Append(r, a)
BY DEF Extended

(* The requests for the first parameters, and their number.                *)
IsUpto(U, ps) ==
  U = [k \in 0 .. Len(ps) |->
         IF k = 0 THEN {<<>>}
         ELSE Extended(U[k - 1], Arguments(ps[k]))]

Given(ps, k) ==
  {r \in Seq(UNION {Arguments(ps[i]) : i \in 1 .. Len(ps)}) :
     Len(r) = k /\ \A i \in 1 .. k : r[i] \in Arguments(ps[i])}

(* One more parameter has one more argument behind the others.             *)
LEMMA GivenNext ==
  ASSUME NEW ps, ps \in Seq(Range(ps)), NEW k \in 1 .. Len(ps)
  PROVE  Given(ps, k) = Extended(Given(ps, k - 1), Arguments(ps[k]))
<1> DEFINE A == UNION {Arguments(ps[i]) : i \in 1 .. Len(ps)}
<1>1. k \in Nat /\ k - 1 \in Nat /\ Arguments(ps[k]) \subseteq A
  OBVIOUS
<1>2. ASSUME NEW r \in Given(ps, k - 1), NEW a \in Arguments(ps[k])
      PROVE  Append(r, a) \in Given(ps, k)
  <2>1. r \in Seq(A) /\ Len(r) = k - 1 /\ \A i \in 1 .. k - 1 : r[i] \in Arguments(ps[i])
    BY DEF Given
  <2>2. a \in A
    BY <1>1
  <2> HIDE DEF A
  <2>3. /\ Append(r, a) \in Seq(A) /\ Len(Append(r, a)) = k
        /\ \A i \in 1 .. k - 1 : Append(r, a)[i] = r[i]
        /\ Append(r, a)[k] = a
    BY <1>1, <2>1, <2>2
  <2>4. \A i \in 1 .. k : Append(r, a)[i] \in Arguments(ps[i])
    BY <1>1, <2>1, <2>3
  <2> QED  BY <2>3, <2>4 DEF Given, A
<1>3. ASSUME NEW r \in Given(ps, k)
      PROVE  \E s \in Given(ps, k - 1) : \E a \in Arguments(ps[k]) : r = Append(s, a)
  <2>1. r \in Seq(A) /\ Len(r) = k /\ \A i \in 1 .. k : r[i] \in Arguments(ps[i])
    BY DEF Given
  <2> DEFINE s == [i \in 1 .. k - 1 |-> r[i]]
  <2> HIDE DEF A
  <2>2. s \in Seq(A) /\ Len(s) = k - 1
    BY <1>1, <2>1
  <2>3. r = Append(s, r[k])
    BY <1>1, <2>1, <2>2
  <2>4. \A i \in 1 .. k - 1 : s[i] \in Arguments(ps[i])
    BY <1>1, <2>1
  <2>5. s \in Given(ps, k - 1)
    BY <2>2, <2>4 DEF Given, A
  <2>6. r[k] \in Arguments(ps[k])
    BY <1>1, <2>1
  <2> QED  BY <2>3, <2>5, <2>6
<1>4. ASSUME NEW x \in Given(ps, k) PROVE x \in Extended(Given(ps, k - 1), Arguments(ps[k]))
  <2>1. \E s \in Given(ps, k - 1) : \E a \in Arguments(ps[k]) : x = Append(s, a)
    BY <1>3
  <2> QED  BY <2>1, ExtendedMembers
<1>5. ASSUME NEW x \in Extended(Given(ps, k - 1), Arguments(ps[k])) PROVE x \in Given(ps, k)
  <2>1. \E s \in Given(ps, k - 1) : \E a \in Arguments(ps[k]) : x = Append(s, a)
    BY ExtendedMembers
  <2> QED  BY <1>2, <2>1
<1> QED  BY <1>4, <1>5

LEMMA GivenNone ==
  ASSUME NEW ps
  PROVE  Given(ps, 0) = {<<>>}
<1> DEFINE A == UNION {Arguments(ps[i]) : i \in 1 .. Len(ps)}
<1> HIDE DEF A
<1>1. ASSUME NEW r \in Seq(A), Len(r) = 0 PROVE r = <<>>
  BY <1>1
<1>2. <<>> \in Seq(A) /\ Len(<<>>) = 0
  OBVIOUS
<1>3. <<>> \in Given(ps, 0)
  BY <1>2 DEF Given, A
<1>4. \A r \in Given(ps, 0) : r = <<>>
  BY <1>1 DEF Given, A
<1> QED  BY <1>3, <1>4

(* A request gives each parameter an argument of its own.                  *)
LEMMA RequestArguments ==
  ASSUME NEW e, e.params \in Seq(Range(e.params)), NEW r \in Requests(e)
  PROVE  \A k \in DOMAIN e.params : r[k] \in Arguments(e.params[k])
<1> DEFINE ps == e.params
           n == Len(ps)
           G == [k \in 0 .. n |-> Given(ps, k)]
           U == CHOOSE u : IsUpto(u, ps)
<1>1. n \in Nat /\ DOMAIN ps = 1 .. n /\ ps \in Seq(Range(ps))
  OBVIOUS
<1>2. Requests(e) = U[n]
  BY DEF Requests, IsUpto, Extended
<1> HIDE DEF ps
<1>3. \A k \in 1 .. n : k - 1 \in 0 .. n /\ k \in 0 .. n
  <2> HIDE DEF n
  <2> QED  BY <1>1
<1>4. ASSUME NEW k \in 0 .. n
      PROVE  G[k] = IF k = 0 THEN {<<>>} ELSE Extended(G[k - 1], Arguments(ps[k]))
  <2>1. CASE k = 0
    BY <2>1, GivenNone
  <2>2. CASE k # 0
    <3>1. k \in 1 .. n
      BY <1>1, <2>2
    <3>2. G[k] = Given(ps, k) /\ G[k - 1] = Given(ps, k - 1)
      BY <1>3, <3>1
    <3> HIDE DEF G
    <3> QED  BY <1>1, <2>2, <3>1, <3>2, GivenNext
  <2> QED  BY <2>1, <2>2
<1>5. IsUpto(G, ps)
  <2>1. G = [k \in 0 .. n |-> G[k]]
    OBVIOUS
  <2> HIDE DEF G
  <2> QED  BY <1>4, <2>1 DEF IsUpto
<1>6. IsUpto(U, ps)
  <2> HIDE DEF G
  <2> QED  BY <1>5
<1> HIDE DEF U
<1>7. \A k \in 0 .. n : U[k] = G[k]
  <2> DEFINE Bad == {k \in 0 .. n : U[k] # G[k]}
  <2>1. SUFFICES ASSUME Bad # {} PROVE FALSE
    <3>1. Bad = {}
      BY <2>1
    <3> QED  BY <3>1
  <2>2. PICK k \in Bad : \A j \in Bad : k <= j
    <3>1. Bad \in SUBSET Nat
      OBVIOUS
    <3> HIDE DEF Bad
    <3> QED  BY <2>1, <3>1, FirstOne
  <2>3. k \in 0 .. n /\ U[k] # G[k]
    OBVIOUS
  <2>4. U[k] = IF k = 0 THEN {<<>>} ELSE Extended(U[k - 1], Arguments(ps[k]))
    BY <1>6, <2>3 DEF IsUpto
  <2>5. k # 0
    BY <1>4, <2>3, <2>4
  <2>6. k - 1 \in 0 .. n /\ ~(k <= k - 1)
    BY <1>1, <2>3, <2>5
  <2>7. U[k - 1] = G[k - 1]
    BY <2>2, <2>6
  <2> HIDE DEF G
  <2> QED  BY <1>4, <2>3, <2>4, <2>5, <2>7
<1>8. r \in Given(ps, n)
  BY <1>1, <1>2, <1>7
<1> QED  BY <1>1, <1>8 DEF Given, ps

(* Rounding a whole number of seconds below zero either way is the same.   *)
LEMMA WholeSeconds ==
  ASSUME NEW h \in Int, h < 0, h % 2 = 0
  PROVE  -((-h) \div 2) = h \div 2
OBVIOUS

(* toUnixSeconds gives the second a moment falls into.                     *)
LEMMA SameSecond ==
  ASSUME NEW m \in Moments
  PROVE  ToUnixSeconds(m) = UnixSecond(m)
BY WholeSeconds, MomentsAssumption DEF ToUnixSeconds, UnixSecond

(* The parameters of an endpoint that is rendered.                         *)
LEMMA EncodedParams ==
  ASSUME IInv, Done, NEW e \in Encoded
  PROVE  /\ e.params \in Seq(Range(e.params))
         /\ \A k \in DOMAIN e.params : ParamOK(spec, e.params[k])
<1>1. e \in Range(spec.endpoints) /\ spec \in Specs /\ EndpointsOK(spec)
  BY Finished DEF Encoded, Accepted
<1>2. \A p \in Range(e.params) : ParamOK(spec, p)
  BY <1>1 DEF EndpointsOK, EndpointOK
<1> QED  BY <1>1, <1>2, SpecsAssumption DEF Range

LEMMA EncodersAgree == IInv => SameQuery
<1> SUFFICES ASSUME IInv, Done, NEW e \in Encoded, NEW r \in Requests(e)
             PROVE  GoQuery(e.params, r) = NodeQuery(e.params, r)
  BY DEF SameQuery
<1>1. ASSUME NEW k \in DOMAIN e.params
      PROVE  GoSends(e.params[k], r[k]) = NodeSends(e.params[k], r[k])
  <2>1. r[k] \in Arguments(e.params[k])
    BY <1>1, EncodedParams, RequestArguments
  <2>2. CASE IsMoment(e.params[k], r[k])
    <3>1. r[k] \in Moments
      BY <2>1, <2>2 DEF IsMoment, Arguments
    <3> QED  BY <2>2, <3>1, SameSecond DEF GoSends, NodeSends
  <2>3. CASE ~IsMoment(e.params[k], r[k])
    BY <2>3 DEF GoSends, NodeSends
  <2> QED  BY <2>2, <2>3
<1>2. [k \in DOMAIN e.params |-> GoSends(e.params[k], r[k])]
        = [k \in DOMAIN e.params |-> NodeSends(e.params[k], r[k])]
  BY <1>1
<1> QED  BY <1>2 DEF GoQuery, NodeQuery

(* Both SDKs ask the same of a server, whatever the caller and the         *)
(* specification ask for.                                                  *)
THEOREM SameIsAsked == Spec => []SameQuery
BY Inductive, EncodersAgree, PTL

(* What the first parameters have put into a query whose keys are all      *)
(* different.                                                              *)
Wires(ps) == {p.wire : p \in Range(ps)}

PlaceOf(ps, w) == CHOOSE i \in DOMAIN ps : ps[i].wire = w

Filled(ps, sent, k) ==
  [w \in Wires(ps) |-> IF PlaceOf(ps, w) <= k THEN sent[PlaceOf(ps, w)] ELSE <<>>]

IsQuery(Q, ps, sent) ==
  Q = [k \in 0 .. Len(ps) |->
         IF k = 0 THEN [w \in Wires(ps) |-> <<>>] ELSE Put(Q[k - 1], ps[k], sent[k])]

(* Parameters with keys of their own, and what is sent for them.           *)
Sending(ps, sent) ==
  /\ ps \in Seq(Range(ps))
  /\ \A i, j \in DOMAIN ps : ps[i].wire = ps[j].wire => i = j
  /\ \A k \in DOMAIN ps : ps[k].serialize = "repeated" => sent[k] \in Seq(Ids)

LEMMA Places ==
  ASSUME NEW ps, NEW sent, Sending(ps, sent)
  PROVE  /\ Len(ps) \in Nat /\ DOMAIN ps = 1 .. Len(ps)
         /\ \A w \in Wires(ps) : PlaceOf(ps, w) \in DOMAIN ps /\ ps[PlaceOf(ps, w)].wire = w
         /\ \A k \in DOMAIN ps : ps[k].wire \in Wires(ps) /\ PlaceOf(ps, ps[k].wire) = k
<1>1. Len(ps) \in Nat /\ DOMAIN ps = 1 .. Len(ps)
  BY DEF Sending
<1>2. ASSUME NEW w \in Wires(ps)
      PROVE  PlaceOf(ps, w) \in DOMAIN ps /\ ps[PlaceOf(ps, w)].wire = w
  <2>1. \E i \in DOMAIN ps : ps[i].wire = w
    BY DEF Wires, Range
  <2> QED  BY <2>1 DEF PlaceOf
<1>3. \A k \in DOMAIN ps : ps[k].wire \in Wires(ps)
  BY DEF Wires, Range
<1>4. \A k \in DOMAIN ps : PlaceOf(ps, ps[k].wire) = k
  BY <1>2, <1>3 DEF Sending
<1> QED  BY <1>1, <1>2, <1>3, <1>4

(* One parameter fills its own key and no other.                           *)
LEMMA FilledNext ==
  ASSUME NEW ps, NEW sent, Sending(ps, sent), NEW k \in DOMAIN ps
  PROVE  Filled(ps, sent, k) = Put(Filled(ps, sent, k - 1), ps[k], sent[k])
<1> DEFINE q == Filled(ps, sent, k - 1)
           put == Put(q, ps[k], sent[k])
<1>1. k \in Nat /\ \A w \in Wires(ps) : PlaceOf(ps, w) \in Nat
  BY Places
<1>2. q = [w \in Wires(ps) |-> q[w]]
  BY DEF Filled
<1>3. ps[k].wire \in Wires(ps) /\ PlaceOf(ps, ps[k].wire) = k
  BY Places
<1>4. q[ps[k].wire] = <<>>
  <2>1. ~(k <= k - 1)
    BY <1>1
  <2> QED  BY <1>3, <2>1 DEF Filled
<1>5. ASSUME NEW w \in Wires(ps), w # ps[k].wire
      PROVE  Filled(ps, sent, k)[w] = q[w]
  <2>1. PlaceOf(ps, w) # k
    BY <1>5, Places
  <2>2. PlaceOf(ps, w) <= k <=> PlaceOf(ps, w) <= k - 1
    BY <1>1, <2>1
  <2> QED  BY <2>2 DEF Filled
<1>6. Filled(ps, sent, k)[ps[k].wire] = sent[k]
  <2>1. k <= k
    BY <1>1
  <2> QED  BY <1>3, <2>1 DEF Filled
<1>7. Filled(ps, sent, k) = [w \in Wires(ps) |-> Filled(ps, sent, k)[w]]
  BY DEF Filled
<1> HIDE DEF q
<1>8. put = [w \in Wires(ps) |-> IF w = ps[k].wire THEN sent[k] ELSE q[w]]
  <2>1. CASE sent[k] = <<>>
    <3>1. put = q
      BY <2>1 DEF Put
    <3> QED  BY <1>2, <1>4, <2>1, <3>1
  <2>2. CASE sent[k] # <<>> /\ ps[k].serialize = "repeated"
    <3>1. <<>> \o sent[k] = sent[k]
      <4>1. sent[k] \in Seq(Ids)
        BY <2>2 DEF Sending
      <4> QED  BY <4>1
    <3>2. put = [q EXCEPT ![ps[k].wire] = q[ps[k].wire] \o sent[k]]
      BY <2>2 DEF Put
    <3> QED  BY <1>2, <1>4, <3>1, <3>2
  <2>3. CASE sent[k] # <<>> /\ ps[k].serialize # "repeated"
    <3>1. put = [q EXCEPT ![ps[k].wire] = sent[k]]
      BY <2>3 DEF Put
    <3> QED  BY <1>2, <3>1
  <2> QED  BY <2>1, <2>2, <2>3
<1> QED  BY <1>5, <1>6, <1>7, <1>8 DEF q

(* Before the first parameter every key is empty.                          *)
LEMMA FilledNone ==
  ASSUME NEW ps, NEW sent, Sending(ps, sent)
  PROVE  Filled(ps, sent, 0) = [w \in Wires(ps) |-> <<>>]
<1>1. \A w \in Wires(ps) : ~(PlaceOf(ps, w) <= 0)
  BY Places
<1> QED  BY <1>1 DEF Filled

(* Where every parameter has a key of its own, the query has under it what *)
(* was sent for the parameter.                                             *)
LEMMA QueryHolds ==
  ASSUME NEW ps, NEW sent, Sending(ps, sent), NEW k \in DOMAIN ps
  PROVE  Query(ps, sent)[ps[k].wire] = sent[k]
<1> DEFINE n == Len(ps)
           G == [i \in 0 .. n |-> Filled(ps, sent, i)]
           Q == CHOOSE q : IsQuery(q, ps, sent)
<1>1. n \in Nat /\ DOMAIN ps = 1 .. n
  BY Places
<1>2. Query(ps, sent) = Q[n]
  BY DEF Query, IsQuery, Wires
<1> HIDE DEF n
<1>3. ASSUME NEW i \in 0 .. n
      PROVE  G[i] = IF i = 0 THEN [w \in Wires(ps) |-> <<>>] ELSE Put(G[i - 1], ps[i], sent[i])
  <2>1. CASE i = 0
    BY <2>1, FilledNone
  <2>2. CASE i # 0
    <3>1. i \in DOMAIN ps /\ i - 1 \in 0 .. n
      BY <1>1, <2>2
    <3>2. G[i] = Filled(ps, sent, i) /\ G[i - 1] = Filled(ps, sent, i - 1)
      BY <3>1
    <3> HIDE DEF G
    <3> QED  BY <2>2, <3>1, <3>2, FilledNext
  <2> QED  BY <2>1, <2>2
<1>4. IsQuery(G, ps, sent)
  <2>1. G = [i \in 0 .. n |-> G[i]]
    OBVIOUS
  <2> HIDE DEF G
  <2> QED  BY <1>3, <2>1 DEF IsQuery, n
<1>5. IsQuery(Q, ps, sent)
  <2> HIDE DEF G
  <2> QED  BY <1>4
<1> HIDE DEF Q
<1>6. \A i \in 0 .. n : Q[i] = G[i]
  <2> DEFINE Bad == {i \in 0 .. n : Q[i] # G[i]}
  <2>1. SUFFICES ASSUME Bad # {} PROVE FALSE
    <3>1. Bad = {}
      BY <2>1
    <3> QED  BY <3>1
  <2>2. PICK i \in Bad : \A j \in Bad : i <= j
    <3>1. Bad \in SUBSET Nat
      OBVIOUS
    <3> HIDE DEF Bad
    <3> QED  BY <2>1, <3>1, FirstOne
  <2>3. i \in 0 .. n /\ Q[i] # G[i]
    OBVIOUS
  <2>4. Q[i] = IF i = 0 THEN [w \in Wires(ps) |-> <<>>] ELSE Put(Q[i - 1], ps[i], sent[i])
    BY <1>5, <2>3 DEF IsQuery, n
  <2>5. i # 0
    BY <1>3, <2>3, <2>4
  <2>6. i - 1 \in 0 .. n /\ ~(i <= i - 1)
    BY <1>1, <2>3, <2>5
  <2>7. Q[i - 1] = G[i - 1]
    BY <2>2, <2>6
  <2> HIDE DEF G
  <2> QED  BY <1>3, <2>3, <2>4, <2>5, <2>7
<1>7. Query(ps, sent) = Filled(ps, sent, n)
  BY <1>1, <1>2, <1>6
<1>8. PlaceOf(ps, ps[k].wire) = k /\ ps[k].wire \in Wires(ps) /\ k <= n
  BY <1>1, Places
<1> QED  BY <1>7, <1>8 DEF Filled

(* A parameter's values tell what was asked for.                           *)
LEMMA SendsTell ==
  ASSUME NEW p, ParamOK(spec, p), NEW a \in Arguments(p), NEW b \in Arguments(p),
         GoSends(p, a) = GoSends(p, b)
  PROVE  Asked(p, a) = Asked(p, b)
<1>0. p.serialize \in {"unixSeconds", "optInOne", "repeated", "valueWithDefault"}
  BY DEF ParamOK
<1>1. CASE p.serialize = "unixSeconds"
  <2>1. a \in {Nothing} \cup Moments /\ b \in {Nothing} \cup Moments
    BY <1>1 DEF Arguments
  <2>2. \A m \in Moments : UnixSecond(m) \in Int /\ UnixSecond(m) # Nothing
    BY MomentsAssumption, NothingAssumption DEF UnixSecond
  <2>3. \A x \in {Nothing} \cup Moments :
          GoSends(p, x) = IF x = Nothing THEN <<>> ELSE <<UnixSecond(x)>>
    BY <1>1, <2>2 DEF GoSends, IsMoment, Values
  <2>4. \A x : Asked(p, x) = IF x = Nothing THEN Nothing ELSE UnixSecond(x)
    BY <1>1 DEF Asked
  <2> QED  BY <2>1, <2>3, <2>4
<1>2. CASE p.serialize = "optInOne"
  <2>1. a \in BOOLEAN /\ b \in BOOLEAN
    BY <1>2 DEF Arguments
  <2>2. \A x : GoSends(p, x) = IF x THEN <<"1">> ELSE <<>>
    BY <1>2 DEF GoSends, IsMoment, Values
  <2>3. \A x : Asked(p, x) = x
    BY <1>2 DEF Asked
  <2> QED  BY <2>1, <2>2, <2>3
<1>3. CASE p.serialize = "repeated"
  <2>1. \A x : GoSends(p, x) = x /\ Asked(p, x) = x
    BY <1>3 DEF GoSends, IsMoment, Values, Asked
  <2> QED  BY <2>1
<1>4. CASE p.serialize = "valueWithDefault"
  <2>1. \A x : GoSends(p, x) = <<IF x = Nothing THEN spec.default ELSE x>>
    BY <1>4 DEF GoSends, IsMoment, Values
  <2>2. \A x : Asked(p, x) = IF x = Nothing THEN spec.default ELSE x
    BY <1>4 DEF Asked
  <2> QED  BY <2>1, <2>2
<1> QED  BY <1>0, <1>1, <1>2, <1>3, <1>4

(* What is sent for the parameters of a request.                           *)
LEMMA RequestSending ==
  ASSUME IInv, Done, NEW e \in Encoded, OwnKeys(e), NEW r \in Requests(e)
  PROVE  Sending(e.params, [k \in DOMAIN e.params |-> GoSends(e.params[k], r[k])])
<1> DEFINE ps == e.params
<1>1. ps \in Seq(Range(ps)) /\ \A k \in DOMAIN ps : r[k] \in Arguments(ps[k])
  BY EncodedParams, RequestArguments
<1>2. ASSUME NEW k \in DOMAIN ps, ps[k].serialize = "repeated"
      PROVE  GoSends(ps[k], r[k]) \in Seq(Ids)
  <2>1. r[k] \in {<<>>} \cup {<<a>> : a \in Ids} \cup (Ids \X Ids)
    BY <1>1, <1>2 DEF Arguments
  <2>2. r[k] \in Seq(Ids)
    <3>1. CASE r[k] = <<>>
      BY <3>1
    <3>2. CASE r[k] \in {<<a>> : a \in Ids}
      <4>1. PICK a \in Ids : r[k] = <<a>>
        BY <3>2
      <4> QED  BY <4>1
    <3>3. CASE r[k] \in Ids \X Ids
      <4>1. PICK a \in Ids, b \in Ids : r[k] = <<a, b>>
        BY <3>3
      <4> QED  BY <4>1
    <3> QED  BY <2>1, <3>1, <3>2, <3>3
  <2> QED  BY <1>2, <2>2 DEF GoSends, IsMoment, Values
<1> QED  BY <1>1, <1>2 DEF Sending, OwnKeys

LEMMA QueriesTell == IInv => QueryTellsAll
<1> SUFFICES ASSUME IInv, Done, NEW e \in Encoded, OwnKeys(e),
                    NEW r \in Requests(e), NEW s \in Requests(e),
                    GoQuery(e.params, r) = GoQuery(e.params, s),
                    NEW k \in DOMAIN e.params
             PROVE  Asked(e.params[k], r[k]) = Asked(e.params[k], s[k])
  BY DEF QueryTellsAll
<1> DEFINE p == e.params[k]
<1>1. ParamOK(spec, p) /\ r[k] \in Arguments(p) /\ s[k] \in Arguments(p)
  BY EncodedParams, RequestArguments
<1>2. /\ GoQuery(e.params, r)[p.wire] = GoSends(p, r[k])
      /\ GoQuery(e.params, s)[p.wire] = GoSends(p, s[k])
  BY RequestSending, QueryHolds DEF GoQuery
<1> QED  BY <1>1, <1>2, SendsTell

(* No request is lost on the way to the query, for any parameters with     *)
(* keys of their own and anything a caller may ask for.                    *)
THEOREM RequestsAreTold == Spec => []QueryTellsAll
BY Inductive, QueriesTell, PTL

=============================================================================
