------------------------------- MODULE Fields -------------------------------
(***************************************************************************)
(* How both SDKs take one JSON object, a transaction or an account, apart  *)
(* into the fields the specification declares and the unknown ones they    *)
(* keep: UnmarshalJSON of sdk/go/models.go; parseTransaction, parseAccount *)
(* and unknownFields of sdk/node/src/normalize.ts.  An object is the       *)
(* sequence of its members as sent; a key may come twice, and may be       *)
(* spelled in another case.                                                *)
(*                                                                         *)
(* Declared fields are strings, numbers and booleans.  A step reads one    *)
(* member: it is seen by Go's decode into the struct, and by the decodes   *)
(* that keep one value per exact key, Go's into a map and JSON.parse.      *)
(***************************************************************************)
EXTENDS Naturals, Sequences

CONSTANTS
  Keys,       \* keys a server may send
  Declared,   \* wire names of declared fields
  Excluded,   \* unknownExclude: consumed elsewhere, such as org
  Fold,       \* Fold[k]: the declared or excluded name k spells, else k
  Values,     \* JSON values other than null
  Takes,      \* Takes[f]: the values of the type of field f, the same in
              \* both languages (where they differ is a matter of Decode)
  Null,
  Absent,     \* no member with this key
  Zero,       \* the zero value of a field
  Objects     \* the objects considered

Members == [key : Keys, value : Values \cup {Null}]

Known == Declared \cup Excluded

ASSUME KnownAssumption == Known \subseteq Keys /\ Declared \cap Excluded = {}
ASSUME FoldAssumption == Fold \in [Keys -> Keys] /\ \A k \in Known : Fold[k] = k
ASSUME TakesAssumption == Takes \in [Declared -> SUBSET Values]
ASSUME MarksAssumption ==
  /\ {Null, Absent, Zero} \cap Values = {}
  /\ Null # Absent /\ Null # Zero /\ Absent # Zero
ASSUME ObjectsAssumption == Objects \subseteq Seq(Members)

VARIABLES
  object,   \* the object as sent, never changed
  pos,      \* members read so far
  field,    \* field[f]: Go's struct
  err,      \* the error Go's decoder has saved, "none" or "type"
  last,     \* last[k]: the last value sent under k: Go's map, Node's object
  go,       \* what UnmarshalJSON yields
  node      \* what parseTransaction or parseAccount yields

vars == <<object, pos, field, err, last, go, node>>

Pending  == [verdict |-> "pending", fields |-> <<>>, unknown |-> <<>>]
Rejected == [verdict |-> "rejected", fields |-> <<>>, unknown |-> <<>>]
Accepted(f, u) == [verdict |-> "accepted", fields |-> f, unknown |-> u]

-----------------------------------------------------------------------------

(* Faulty: a key that is null is not kept.                                 *)
FaultyGoUnknown ==
  [k \in {k \in Keys \ Known : last[k] \notin {Absent, Null}} |-> last[k]]

(* all, after every known key was deleted from it.                         *)
GoUnknown == [k \in {k \in Keys \ Known : last[k] # Absent} |-> last[k]]

(* Faulty: what another part consumes is reported as unknown, too.         *)
FaultyNodeUnknown == [k \in {k \in Keys \ Declared : last[k] # Absent} |-> last[k]]

(* unknownFields: every entry whose key is not known.                      *)
NodeUnknown == [k \in {k \in Keys \ Known : last[k] # Absent} |-> last[k]]

(* str, num and bool: absent and null are the zero value.                  *)
NodeFields == [f \in Declared |-> IF last[f] \in {Absent, Null} THEN Zero ELSE last[f]]

Init ==
  /\ object \in Objects
  /\ pos = 0
  /\ field = [f \in Declared |-> Zero]
  /\ err = "none"
  /\ last = [k \in Keys |-> Absent]
  /\ go = Pending /\ node = Pending

Current == object[pos + 1]

(* Faulty: a value is assigned whatever its type.                          *)
FaultyRead ==
  /\ pos < Len(object)
  /\ pos' = pos + 1
  /\ last' = [last EXCEPT ![Current.key] = Current.value]
  /\ field' = IF Fold[Current.key] \in Declared
              THEN [field EXCEPT ![Fold[Current.key]] = Current.value] ELSE field
  /\ UNCHANGED <<object, err, go, node>>

(* encoding/json matches the key in any case, leaves the field as it is    *)
(* for a null, and goes on after a value of the wrong type.                *)
Read ==
  /\ pos < Len(object)
  /\ pos' = pos + 1
  /\ last' = [last EXCEPT ![Current.key] = Current.value]
  /\ LET f == Fold[Current.key]
     IN \/ /\ f \in Declared /\ Current.value \in Takes[f]
           /\ field' = [field EXCEPT ![f] = Current.value]
           /\ UNCHANGED err
        \/ /\ f \in Declared /\ Current.value \notin Takes[f] \cup {Null}
           /\ err' = "type"
           /\ UNCHANGED field
        \/ /\ f \notin Declared \/ Current.value = Null
           /\ UNCHANGED <<field, err>>
  /\ UNCHANGED <<object, go, node>>

GoFinishes ==
  /\ pos = Len(object) /\ go = Pending
  /\ go' = IF err # "none" THEN Rejected ELSE Accepted(field, GoUnknown)
  /\ UNCHANGED <<object, pos, field, err, last, node>>

(* Faulty: null is taken for a value of the wrong type.                    *)
FaultyNodeFinishes ==
  /\ pos = Len(object) /\ node = Pending
  /\ node' = IF \A f \in Declared : last[f] \in Takes[f] \cup {Absent}
             THEN Accepted(NodeFields, NodeUnknown) ELSE Rejected
  /\ UNCHANGED <<object, pos, field, err, last, go>>

NodeFinishes ==
  /\ pos = Len(object) /\ node = Pending
  /\ node' = IF \A f \in Declared : last[f] \in Takes[f] \cup {Absent, Null}
             THEN Accepted(NodeFields, NodeUnknown) ELSE Rejected
  /\ UNCHANGED <<object, pos, field, err, last, go>>

Next == Read \/ GoFinishes \/ NodeFinishes

Spec == Init /\ [][Next]_vars

-----------------------------------------------------------------------------

Results ==
  {Pending, Rejected} \cup
    [verdict : {"accepted"},
     fields : [Declared -> Values \cup {Zero}],
     unknown : UNION {[K -> Values \cup {Null}] : K \in SUBSET (Keys \ Known)}]

(* The decoders and their results keep their types; above all, no field of *)
(* Go's struct ever holds a value of another type than its own.            *)
TypeOK ==
  /\ object \in Objects /\ pos \in 0 .. Len(object)
  /\ field \in [Declared -> Values \cup {Zero}] /\ err \in {"none", "type"}
  /\ \A f \in Declared : field[f] # Zero => field[f] \in Takes[f]
  /\ last \in [Keys -> Values \cup {Null, Absent}]
  /\ go \in Results /\ node \in Results

(* Objects as the two decoders were written for: each key in the case the  *)
(* specification gives it, and no declared one twice.                      *)
WellSpelled == \A i \in DOMAIN object : Fold[object[i].key] \in Declared => object[i].key \in Declared

NoRepeats ==
  \A i, j \in DOMAIN object : object[i].key = object[j].key /\ object[i].key \in Declared => i = j

(* On such an object both SDKs give the same verdict, the same fields and  *)
(* the same unknown ones, in whatever order the members come, whatever     *)
(* their values and however often an unknown key is repeated ("the two     *)
(* SDKs accept and reject exactly the same payloads").                     *)
SameIfConforming ==
  go # Pending /\ node # Pending /\ WellSpelled /\ NoRepeats => go = node

IsLast(i) == \A j \in i + 1 .. Len(object) : object[j].key # object[i].key

(* Nothing an accepted object said last under a key is lost: it is in its  *)
(* field, or among the unknown ones, null included, unless another part    *)
(* consumes it ("nothing is lost", models.go).  Of Go only for well spelled*)
(* objects: in others a misspelled key may overwrite the right one's value.*)
Keeps(out) ==
  out.verdict = "accepted" =>
    \A i \in {i \in DOMAIN object : IsLast(i)} :
      LET k == object[i].key
          v == object[i].value
      IN /\ k \in Declared /\ v # Null => out.fields[k] = v
         /\ k \notin Known => k \in DOMAIN out.unknown /\ out.unknown[k] = v

NothingLost == Keeps(node) /\ (WellSpelled => Keeps(go))

(* ... and nothing is invented: what a field or an unknown key holds was   *)
(* sent, under that key or, in Go, another spelling of it, and no known key*)
(* is reported as an unknown one.                                          *)
Sent(k, v) == \E i \in DOMAIN object : object[i] = [key |-> k, value |-> v]

NothingInvented ==
  \A out \in {go, node} : out.verdict = "accepted" =>
    /\ \A k \in DOMAIN out.unknown : k \notin Known /\ Sent(k, out.unknown[k])
    /\ \A f \in Declared : out.fields[f] # Zero =>
         \E k \in Keys : Fold[k] = f /\ (out = node => k = f) /\ Sent(k, out.fields[f])
=============================================================================
