---------------------------- MODULE FieldsProofs ----------------------------
(***************************************************************************)
(* The two SDKs take a conforming object apart alike, for all keys, types, *)
(* values and lengths of it.                                               *)
(***************************************************************************)
EXTENDS Fields, TLAPS

(* What the decoders have gathered of the members read so far.  last says  *)
(* of each key what was sent under it; on a conforming object Go's struct  *)
(* and its error are functions of last, though it never looks at it.       *)
Gathered ==
  /\ \A k \in Keys : last[k] # Absent =>
       \E j \in 1 .. pos : object[j].key = k /\ object[j].value = last[k]
  /\ WellSpelled /\ NoRepeats =>
       /\ \A f \in Declared : field[f] = IF last[f] \in Takes[f] THEN last[f] ELSE Zero
       /\ err = "type" <=> \E f \in Declared : last[f] \notin Takes[f] \cup {Null, Absent}

(* What a decoder that has finished yielded.                               *)
Finished ==
  /\ go # Pending => pos = Len(object)
       /\ go = IF err # "none" THEN Rejected ELSE Accepted(field, GoUnknown)
  /\ node # Pending => pos = Len(object)
       /\ node = IF \A f \in Declared : last[f] \in Takes[f] \cup {Absent, Null}
                 THEN Accepted(NodeFields, NodeUnknown) ELSE Rejected

IInv == TypeOK /\ Gathered /\ Finished

(* A position of which a successor is in a range is not its end.           *)
LEMMA Below ==
  ASSUME NEW n \in Nat, NEW p \in Nat, p + 1 \in 1 .. n
  PROVE  p # n
OBVIOUS

USE KnownAssumption, FoldAssumption, TakesAssumption, MarksAssumption, ObjectsAssumption

-----------------------------------------------------------------------------

(* An object is a sequence of members.                                     *)
LEMMA ObjectType ==
  ASSUME NEW o \in Objects
  PROVE  /\ o \in Seq(Members) /\ Len(o) \in Nat /\ DOMAIN o = 1 .. Len(o)
         /\ \A i \in 1 .. Len(o) : o[i].key \in Keys /\ o[i].value \in Values \cup {Null}
<1>1. o \in Seq(Members)
  OBVIOUS
<1>2. Len(o) \in Nat /\ DOMAIN o = 1 .. Len(o) /\ \A i \in 1 .. Len(o) : o[i] \in Members
  BY <1>1
<1>3. \A m \in Members : m.key \in Keys /\ m.value \in Values \cup {Null}
  BY DEF Members
<1> QED
  BY <1>1, <1>2, <1>3

(* Declared names are keys, spelled as they are, and the marks no values.  *)
LEMMA DeclaredType ==
  ASSUME NEW f \in Declared
  PROVE  /\ f \in Keys /\ Fold[f] = f /\ Takes[f] \subseteq Values
         /\ {Null, Absent, Zero} \cap Takes[f] = {}
BY DEF Known

(* A step reads a member of the object that no step read before.           *)
LEMMA CurrentType ==
  ASSUME TypeOK, Read
  PROVE  /\ pos \in Nat /\ pos + 1 \in 1 .. Len(object) /\ DOMAIN object = 1 .. Len(object)
         /\ Current.key \in Keys /\ Current.value \in Values \cup {Null}
         /\ Fold[Current.key] \in Keys
<1>1. /\ pos \in Nat /\ pos + 1 \in 1 .. Len(object) /\ DOMAIN object = 1 .. Len(object)
  BY ObjectType DEF TypeOK, Read
<1>2. Current.key \in Keys /\ Current.value \in Values \cup {Null}
  BY <1>1, ObjectType DEF TypeOK, Current
<1> QED
  BY <1>1, <1>2

(* What either decoder yields of the keys it kept is a result.             *)
LEMMA UnknownType ==
  ASSUME TypeOK, NEW K \in SUBSET (Keys \ Known), \A k \in K : last[k] # Absent,
         NEW f \in [Declared -> Values \cup {Zero}]
  PROVE  Accepted(f, [k \in K |-> last[k]]) \in Results
<1>1. [k \in K |-> last[k]] \in [K -> Values \cup {Null}]
  BY DEF TypeOK
<1> QED
  BY <1>1 DEF Accepted, Results

(* Before any member is read the decoders have gathered nothing.           *)
LEMMA InitIInv == Init => IInv
<1> SUFFICES ASSUME Init PROVE IInv
  OBVIOUS
<1>1. TypeOK
  <2>1. Pending \in Results
    BY DEF Results
  <2> QED
    BY <2>1, ObjectType DEF Init, TypeOK
<1>2. Gathered
  BY DeclaredType DEF Init, Gathered
<1>3. Finished
  BY DEF Init, Finished
<1> QED
  BY <1>1, <1>2, <1>3 DEF IInv

(* The step that reads a member preserves the invariant.                   *)
LEMMA ReadIInv ==
  ASSUME IInv, Read
  PROVE  IInv'
<1> DEFINE k == Current.key
           v == Current.value
           f == Fold[Current.key]
<1>1. /\ pos \in Nat /\ pos + 1 \in 1 .. Len(object) /\ DOMAIN object = 1 .. Len(object)
      /\ k \in Keys /\ v \in Values \cup {Null} /\ f \in Keys
  BY CurrentType DEF IInv
<1>2. /\ pos' = pos + 1 /\ last' = [last EXCEPT ![k] = v]
      /\ UNCHANGED <<object, go, node>>
  BY DEF Read
<1>3. TypeOK'
  <2>1. last' \in [Keys -> Values \cup {Null, Absent}]
    BY <1>1, <1>2 DEF IInv, TypeOK
  <2>2. /\ field' \in [Declared -> Values \cup {Zero}] /\ err' \in {"none", "type"}
        /\ \A g \in Declared : field'[g] # Zero => field'[g] \in Takes[g]
    BY DEF IInv, TypeOK, Read
  <2> QED
    BY <1>1, <1>2, <2>1, <2>2 DEF IInv, TypeOK
<1>4. Gathered'
  <2>1. ASSUME NEW l \in Keys, last'[l] # Absent
        PROVE  \E j \in 1 .. pos' : object'[j].key = l /\ object'[j].value = last'[l]
    <3>1. CASE l = k
      <4>1. object[pos + 1].key = l /\ object[pos + 1].value = last'[l]
        BY <1>1, <1>2, <3>1 DEF IInv, TypeOK, Current
      <4> QED
        BY <1>1, <1>2, <4>1
    <3>2. CASE l # k
      <4>1. last'[l] = last[l]
        BY <1>1, <1>2, <3>2 DEF IInv, TypeOK
      <4>2. PICK j \in 1 .. pos : object[j].key = l /\ object[j].value = last[l]
        BY <2>1, <4>1 DEF IInv, Gathered
      <4> QED
        BY <1>1, <1>2, <4>1, <4>2
    <3> QED
      BY <3>1, <3>2
  <2>2. ASSUME WellSpelled', NoRepeats'
        PROVE  /\ \A g \in Declared :
                    field'[g] = IF last'[g] \in Takes[g] THEN last'[g] ELSE Zero
               /\ err' = "type" <=> \E g \in Declared : last'[g] \notin Takes[g] \cup {Null, Absent}
    <3>1. WellSpelled /\ NoRepeats
      BY <1>2, <2>2 DEF WellSpelled, NoRepeats
    <3>2. f \in Declared => k = f
      BY <1>1, <3>1, DeclaredType DEF WellSpelled, Current
    <3>3. k \in Declared => f = k /\ last[k] = Absent
      <4>1. ASSUME k \in Declared, last[k] # Absent PROVE FALSE
        <5>1. PICK j \in 1 .. pos : object[j].key = k
          BY <1>1, <4>1 DEF IInv, Gathered
        <5> QED
          BY <1>1, <3>1, <4>1, <5>1 DEF NoRepeats, Current
      <4> QED
        BY <4>1, DeclaredType
    <3>4. /\ \A g \in Declared : field[g] = IF last[g] \in Takes[g] THEN last[g] ELSE Zero
          /\ err = "type" <=> \E g \in Declared : last[g] \notin Takes[g] \cup {Null, Absent}
      BY <3>1 DEF IInv, Gathered
    <3>5. \A g \in Keys : last'[g] = IF g = k THEN v ELSE last[g]
      BY <1>1, <1>2 DEF IInv, TypeOK
    <3>6. CASE f \in Declared /\ v \in Takes[f] /\ field' = [field EXCEPT ![f] = v] /\ err' = err
      BY <1>1, <3>2, <3>3, <3>4, <3>5, <3>6, DeclaredType DEF IInv, TypeOK
    <3>7. CASE f \in Declared /\ v \notin Takes[f] \cup {Null} /\ err' = "type" /\ field' = field
      BY <1>1, <3>2, <3>3, <3>4, <3>5, <3>7, DeclaredType DEF IInv, TypeOK
    <3>8. CASE (f \notin Declared \/ v = Null) /\ field' = field /\ err' = err
      BY <1>1, <3>2, <3>3, <3>4, <3>5, <3>8, DeclaredType DEF IInv, TypeOK
    <3> QED
      BY <3>6, <3>7, <3>8 DEF Read
  <2> QED
    BY <2>1, <2>2 DEF Gathered
<1>5. Finished'
  <2>1. pos # Len(object)
    <3>1. Len(object) \in Nat
      BY ObjectType DEF IInv, TypeOK
    <3> QED
      BY <1>1, <3>1, Below
  <2>2. go = Pending /\ node = Pending
    BY <2>1 DEF IInv, Finished
  <2> QED
    BY <1>2, <2>2 DEF Finished, Pending
<1> QED
  BY <1>3, <1>4, <1>5 DEF IInv

(* So do the steps that finish a decoder.                                  *)
LEMMA FinishIInv ==
  ASSUME IInv, GoFinishes \/ NodeFinishes
  PROVE  IInv'
<1>1. UNCHANGED <<object, pos, field, err, last>>
  BY DEF GoFinishes, NodeFinishes
<1>2. Accepted(field, GoUnknown) \in Results
  <2>1. field \in [Declared -> Values \cup {Zero}]
    BY DEF IInv, TypeOK
  <2> QED
    BY <2>1, UnknownType DEF IInv, GoUnknown
<1>3. Accepted(NodeFields, NodeUnknown) \in Results
  <2>1. NodeFields \in [Declared -> Values \cup {Zero}]
    BY DeclaredType DEF IInv, TypeOK, NodeFields
  <2> QED
    BY <2>1, UnknownType DEF IInv, NodeUnknown
<1>4. Rejected \in Results /\ Pending \in Results
  BY DEF Results
<1>5. go' \in Results /\ node' \in Results
  BY <1>2, <1>3, <1>4 DEF IInv, TypeOK, GoFinishes, NodeFinishes
<1>6. TypeOK' /\ Gathered'
  BY <1>1, <1>5 DEF IInv, TypeOK, Gathered, WellSpelled, NoRepeats
<1>7. GoUnknown' = GoUnknown /\ NodeUnknown' = NodeUnknown /\ NodeFields' = NodeFields
  BY <1>1 DEF GoUnknown, NodeUnknown, NodeFields
<1>8. Finished'
  BY <1>1, <1>7 DEF IInv, Finished, GoFinishes, NodeFinishes
<1> QED
  BY <1>6, <1>8 DEF IInv

(* IInv holds in every reachable state.                                    *)
LEMMA InductiveIInv == Spec => []IInv
<1>1. IInv /\ [Next]_vars => IInv'
  <2>1. ASSUME IInv, UNCHANGED vars PROVE IInv'
    BY <2>1 DEF vars, IInv, TypeOK, Gathered, Finished, WellSpelled, NoRepeats,
                GoUnknown, NodeUnknown, NodeFields
  <2> QED
    BY <2>1, ReadIInv, FinishIInv DEF Next
<1> QED
  BY InitIInv, <1>1, PTL DEF Spec

-----------------------------------------------------------------------------

(* The decoders' state and their results keep their types, and no field of *)
(* Go's struct ever holds a value of another type than its own.            *)
THEOREM TypeCorrect == Spec => []TypeOK
BY InductiveIInv, PTL DEF IInv

(* UnmarshalJSON and the Node parsers agree on every object whose declared *)
(* keys come once and in the specified case.                               *)
THEOREM DecodersAgree == Spec => []SameIfConforming
<1>1. IInv => SameIfConforming
  <2> SUFFICES ASSUME IInv, go # Pending, node # Pending, WellSpelled, NoRepeats
               PROVE  go = node
    BY DEF SameIfConforming
  <2>1. \A f \in Declared : last[f] \in Values \cup {Null, Absent}
    BY DeclaredType DEF IInv, TypeOK
  <2>2. err = "type" <=> ~(\A f \in Declared : last[f] \in Takes[f] \cup {Absent, Null})
    BY DEF IInv, Gathered
  <2>3. ASSUME err = "none" PROVE field = NodeFields
    <3>1. \A f \in Declared : field[f] = IF last[f] \in {Absent, Null} THEN Zero ELSE last[f]
      BY <2>2, <2>3, DeclaredType DEF IInv, Gathered
    <3>2. field = [f \in Declared |-> field[f]]
      BY DEF IInv, TypeOK
    <3> QED
      BY <3>1, <3>2 DEF NodeFields
  <2>4. GoUnknown = NodeUnknown
    BY DEF GoUnknown, NodeUnknown
  <2>5. /\ go = IF err # "none" THEN Rejected ELSE Accepted(field, GoUnknown)
        /\ node = IF \A f \in Declared : last[f] \in Takes[f] \cup {Absent, Null}
                  THEN Accepted(NodeFields, NodeUnknown) ELSE Rejected
    BY DEF IInv, Finished
  <2>6. err = "none" \/ err = "type"
    BY DEF IInv, TypeOK
  <2>7. CASE err = "none"
    BY <2>2, <2>3, <2>4, <2>5, <2>7
  <2>8. CASE err = "type"
    BY <2>2, <2>5, <2>8
  <2> QED
    BY <2>6, <2>7, <2>8
<1> QED
  BY <1>1, InductiveIInv, PTL
-----------------------------------------------------------------------------
(* Nothing is lost and nothing invented.                                   *)

(* What was sent last under a key is in last, what is in a field was sent  *)
(* under a spelling of its name, and a field of a well spelled object has  *)
(* what was sent last under it, unless that is null or an error was met.   *)
Sound ==
  /\ \A j \in 1 .. pos :
       (\A i \in j + 1 .. pos : object[i].key # object[j].key) =>
         last[object[j].key] = object[j].value
  /\ \A f \in Declared : field[f] # Zero =>
       \E j \in 1 .. pos : Fold[object[j].key] = f /\ object[j].value = field[f]
  /\ WellSpelled /\ err = "none" =>
       \A f \in Declared : last[f] \notin {Null, Absent} => field[f] = last[f]

(* The step that reads a member keeps that.                                *)
LEMMA ReadSound ==
  ASSUME IInv, Sound, Read
  PROVE  Sound'
<1> DEFINE k == Current.key
           v == Current.value
           f == Fold[Current.key]
<1>1. /\ pos \in Nat /\ pos + 1 \in 1 .. Len(object) /\ DOMAIN object = 1 .. Len(object)
      /\ k \in Keys /\ v \in Values \cup {Null} /\ f \in Keys
  BY CurrentType DEF IInv
<1>2. /\ pos' = pos + 1 /\ last' = [last EXCEPT ![k] = v] /\ object' = object
  BY DEF Read
<1>3. \A l \in Keys : last'[l] = IF l = k THEN v ELSE last[l]
  BY <1>1, <1>2 DEF IInv, TypeOK
<1>4. object[pos + 1].key = k /\ object[pos + 1].value = v
  BY DEF Current
<1>5. \/ f \in Declared /\ v \in Takes[f] /\ field' = [field EXCEPT ![f] = v] /\ err' = err
      \/ f \in Declared /\ v \notin Takes[f] \cup {Null} /\ err' = "type" /\ field' = field
      \/ (f \notin Declared \/ v = Null) /\ field' = field /\ err' = err
  BY DEF Read
<1>6. ASSUME NEW j \in 1 .. pos', \A i \in j + 1 .. pos' : object[i].key # object[j].key
      PROVE  last'[object[j].key] = object[j].value
  <2>1. CASE j = pos + 1
    BY <1>1, <1>3, <1>4, <2>1
  <2>2. CASE j # pos + 1
    <3>1. j \in 1 .. pos /\ pos + 1 \in j + 1 .. pos' /\ j \in 1 .. Len(object)
      BY <1>1, <1>2, <2>2
    <3>2. object[j].key # k /\ object[j].key \in Keys
      BY <1>4, <1>6, <3>1, ObjectType DEF IInv, TypeOK
    <3>3. \A i \in j + 1 .. pos : object[i].key # object[j].key
      BY <1>1, <1>2, <1>6, <3>1
    <3>4. last[object[j].key] = object[j].value
      BY <3>1, <3>3 DEF Sound
    <3> QED
      BY <1>3, <3>2, <3>4
  <2> QED
    BY <2>1, <2>2
<1>7. ASSUME NEW g \in Declared, field'[g] # Zero
      PROVE  \E j \in 1 .. pos' : Fold[object[j].key] = g /\ object[j].value = field'[g]
  <2>1. CASE field'[g] = field[g]
    <3>1. PICK j \in 1 .. pos : Fold[object[j].key] = g /\ object[j].value = field[g]
      BY <1>7, <2>1 DEF Sound
    <3>2. j \in 1 .. pos'
      BY <1>1, <1>2
    <3> QED
      BY <2>1, <3>1, <3>2
  <2>2. CASE field'[g] # field[g]
    <3>1. g = f /\ field'[g] = v
      BY <1>5, <2>2 DEF IInv, TypeOK
    <3>2. pos + 1 \in 1 .. pos'
      BY <1>1, <1>2
    <3> QED
      BY <1>4, <3>1, <3>2
  <2> QED
    BY <2>1, <2>2
<1>8. ASSUME WellSpelled', err' = "none", NEW g \in Declared, last'[g] \notin {Null, Absent}
      PROVE  field'[g] = last'[g]
  <2>1. WellSpelled
    BY <1>2, <1>8 DEF WellSpelled
  <2>2. f \in Declared => k = f
    BY <1>1, <1>4, <2>1, DeclaredType DEF WellSpelled
  <2>3. k \in Declared => f = k
    BY DeclaredType
  <2>4. err = "none"
    BY <1>5, <1>8
  <2>5. last[g] \notin {Null, Absent} => field[g] = last[g]
    BY <2>1, <2>4 DEF Sound
  <2>6. g \in Keys
    BY DeclaredType
  <2>7. CASE g = k
    <3>1. last'[g] = v /\ v # Null /\ f = g
      BY <1>3, <1>8, <2>3, <2>6, <2>7
    <3>2. v \in Takes[f] /\ field' = [field EXCEPT ![f] = v]
      BY <1>5, <1>8, <3>1
    <3> QED
      BY <3>1, <3>2 DEF IInv, TypeOK
  <2>8. CASE g # k
    <3>1. last'[g] = last[g]
      BY <1>3, <2>6, <2>8
    <3>2. field'[g] = field[g]
      BY <1>5, <2>2, <2>8 DEF IInv, TypeOK
    <3> QED
      BY <1>8, <2>5, <3>1, <3>2
  <2> QED
    BY <2>7, <2>8
<1>9. Fold' = Fold /\ object' = object
  BY <1>2
<1> QED
  BY <1>6, <1>7, <1>8, <1>9 DEF Sound

(* Sound holds in every reachable state, too.                              *)
LEMMA InductiveSound == Spec => [](IInv /\ Sound)
<1>1. Init => Sound
  <2> SUFFICES ASSUME Init PROVE Sound
    OBVIOUS
  <2>1. pos = 0 /\ (\A f \in Declared : field[f] = Zero)
    BY DEF Init
  <2>2. \A f \in Declared : last[f] = Absent
    BY DeclaredType DEF Init
  <2> QED
    BY <2>1, <2>2 DEF Sound
<1>2. IInv /\ Sound /\ [Next]_vars => Sound'
  <2> SUFFICES ASSUME IInv, Sound, [Next]_vars PROVE Sound'
    OBVIOUS
  <2>1. CASE Read
    BY <2>1, ReadSound
  <2>2. CASE GoFinishes \/ NodeFinishes \/ UNCHANGED vars
    <3>1. UNCHANGED <<object, pos, field, err, last>>
      BY <2>2 DEF GoFinishes, NodeFinishes, vars
    <3> QED
      BY <3>1 DEF Sound, WellSpelled
  <2> QED
    BY <2>1, <2>2 DEF Next
<1> QED
  BY InductiveIInv, <1>1, <1>2, PTL DEF Spec

(* An accepted result of either decoder is made of field and last.         *)
LEMMA AcceptedForms ==
  ASSUME IInv
  PROVE  /\ go.verdict = "accepted" =>
              pos = Len(object) /\ err = "none" /\ go = Accepted(field, GoUnknown)
         /\ node.verdict = "accepted" =>
              pos = Len(object) /\ node = Accepted(NodeFields, NodeUnknown)
BY DEF IInv, Finished, Pending, Rejected

(* What was sent last under a key is in last once all members are read.    *)
LEMMA LastIsKept ==
  ASSUME IInv, Sound, pos = Len(object), NEW i \in DOMAIN object, IsLast(i)
  PROVE  /\ object[i].key \in Keys /\ object[i].value \in Values \cup {Null}
         /\ last[object[i].key] = object[i].value
<1>1. i \in 1 .. Len(object)
  BY ObjectType DEF IInv, TypeOK
<1>2. object[i].key \in Keys /\ object[i].value \in Values \cup {Null}
  BY <1>1, ObjectType DEF IInv, TypeOK
<1> QED
  BY <1>1, <1>2 DEF Sound, IsLast

(* Both decoders keep what was sent last under every key that no other part*)
(* consumes, Go of well spelled objects (UnmarshalJSON, unknownFields).    *)
THEOREM NothingIsLost == Spec => []NothingLost
<1>1. IInv /\ Sound => NothingLost
  <2> SUFFICES ASSUME IInv, Sound PROVE NothingLost
    OBVIOUS
  <2>1. ASSUME node.verdict = "accepted", NEW i \in {i \in DOMAIN object : IsLast(i)}
        PROVE  LET k == object[i].key
                   v == object[i].value
               IN /\ k \in Declared /\ v # Null => node.fields[k] = v
                  /\ k \notin Known => k \in DOMAIN node.unknown /\ node.unknown[k] = v
    <3>1. node.fields = NodeFields /\ node.unknown = NodeUnknown /\ pos = Len(object)
      BY <2>1, AcceptedForms DEF Accepted
    <3>2. /\ object[i].key \in Keys /\ object[i].value \in Values \cup {Null}
          /\ last[object[i].key] = object[i].value /\ object[i].value # Absent
      BY <3>1, LastIsKept
    <3> QED
      BY <3>1, <3>2 DEF NodeFields, NodeUnknown
  <2>2. ASSUME WellSpelled, go.verdict = "accepted", NEW i \in {i \in DOMAIN object : IsLast(i)}
        PROVE  LET k == object[i].key
                   v == object[i].value
               IN /\ k \in Declared /\ v # Null => go.fields[k] = v
                  /\ k \notin Known => k \in DOMAIN go.unknown /\ go.unknown[k] = v
    <3>1. go.fields = field /\ go.unknown = GoUnknown /\ pos = Len(object) /\ err = "none"
      BY <2>2, AcceptedForms DEF Accepted
    <3>2. /\ object[i].key \in Keys /\ object[i].value \in Values \cup {Null}
          /\ last[object[i].key] = object[i].value /\ object[i].value # Absent
      BY <3>1, LastIsKept
    <3>3. object[i].key \in Declared /\ object[i].value # Null =>
            field[object[i].key] = object[i].value
      BY <2>2, <3>1, <3>2 DEF Sound
    <3> QED
      BY <3>1, <3>2, <3>3 DEF GoUnknown
  <2> QED
    BY <2>1, <2>2 DEF NothingLost, Keeps
<1> QED
  BY <1>1, InductiveSound, PTL

(* Neither decoder yields a value that was not sent under that key, or, in *)
(* Go, under another spelling of it.                                       *)
THEOREM NothingIsInvented == Spec => []NothingInvented
<1>1. IInv /\ Sound => NothingInvented
  <2> SUFFICES ASSUME IInv, Sound PROVE NothingInvented
    OBVIOUS
  <2>1. \A j \in 1 .. pos : j \in DOMAIN object /\ object[j] \in Members /\ object[j].key \in Keys
    <3>1. /\ object \in Seq(Members) /\ DOMAIN object = 1 .. Len(object) /\ Len(object) \in Nat
          /\ \A j \in 1 .. Len(object) : object[j].key \in Keys
      BY ObjectType DEF IInv, TypeOK
    <3>2. \A j \in 1 .. Len(object) : object[j] \in Members
      BY <3>1
    <3>3. pos \in 0 .. Len(object)
      BY DEF IInv, TypeOK
    <3>4. \A j \in 1 .. pos : j \in 1 .. Len(object)
      BY <3>1, <3>3
    <3> QED
      BY <3>1, <3>2, <3>4
  <2>2. \A m \in Members : m = [key |-> m.key, value |-> m.value]
    BY DEF Members
  <2>3. \A k \in Keys : last[k] # Absent => Sent(k, last[k])
    BY <2>1, <2>2 DEF IInv, Gathered, Sent
  <2>4. ASSUME NEW f \in Declared, field[f] # Zero
        PROVE  \E k \in Keys : Fold[k] = f /\ Sent(k, field[f])
    <3>1. PICK j \in 1 .. pos : Fold[object[j].key] = f /\ object[j].value = field[f]
      BY <2>4 DEF Sound
    <3> QED
      BY <2>1, <2>2, <3>1 DEF Sent
  <2>5. ASSUME NEW f \in Declared, NodeFields[f] # Zero
        PROVE  f \in Keys /\ Fold[f] = f /\ Sent(f, NodeFields[f])
    BY <2>3, <2>5, DeclaredType DEF NodeFields
  <2>6. ASSUME node.verdict = "accepted"
        PROVE  /\ \A k \in DOMAIN node.unknown : k \notin Known /\ Sent(k, node.unknown[k])
               /\ \A f \in Declared : node.fields[f] # Zero =>
                    f \in Keys /\ Fold[f] = f /\ Sent(f, node.fields[f])
    <3>1. node.fields = NodeFields /\ node.unknown = NodeUnknown
      BY <2>6, AcceptedForms DEF Accepted
    <3> QED
      BY <2>3, <2>5, <3>1 DEF NodeUnknown
  <2>7. ASSUME go.verdict = "accepted", go # node
        PROVE  /\ \A k \in DOMAIN go.unknown : k \notin Known /\ Sent(k, go.unknown[k])
               /\ \A f \in Declared : go.fields[f] # Zero =>
                    \E k \in Keys : Fold[k] = f /\ Sent(k, go.fields[f])
    <3>1. go.fields = field /\ go.unknown = GoUnknown
      BY <2>7, AcceptedForms DEF Accepted
    <3> QED
      BY <2>3, <2>4, <3>1 DEF GoUnknown
  <2> QED
    BY <2>6, <2>7 DEF NothingInvented
<1> QED
  BY <1>1, InductiveSound, PTL
=============================================================================
