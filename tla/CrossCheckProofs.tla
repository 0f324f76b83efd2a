-------------------------- MODULE CrossCheckProofs --------------------------
(***************************************************************************)
(* A pass of the cross-language script means agreement, for any fixtures   *)
(* and whatever the two programs make of them.                             *)
(***************************************************************************)
EXTENDS CrossCheck, TLAPS

(* Of what a loop has counted it has set aside all that did not pass, and  *)
(* the second loop is only come to with every golden fixture in order.     *)
Sifted ==
  /\ loop = "golden" /\ exit # "failed" =>
       \A f \in checked : go[f] # Fails /\ node[f] # Fails /\ (f \notin failed => go[f] = node[f])
  /\ loop = "golden" => exit # "ok"
  /\ loop = "malformed" =>
       /\ \A f \in checked \ failed : go[f] = Fails /\ node[f] = Fails
       /\ golden # {}
       /\ \A f \in golden : go[f] # Fails /\ node[f] # Fails /\ (f \notin failed => go[f] = node[f])
  /\ exit = "ok" => todo = {} /\ failed = {}
  /\ \A f \in Names \ (golden \cup malformed) : go[f] = Fails /\ node[f] = Fails

(* There is something to complain about.                                   *)
Fault ==
  \/ golden = {}
  \/ \E f \in golden : go[f] # node[f] \/ go[f] = Fails
  \/ \E f \in malformed : go[f] # Fails \/ node[f] # Fails

(* What is set aside was, and the script has only failed for a reason.     *)
Blamed ==
  /\ failed # {} => Fault
  /\ exit = "failed" => Fault

IInv == TypeOK /\ Sifted

USE NamesAssumption, FailsAssumption

-----------------------------------------------------------------------------

(* What a loop is handed are fixtures, or the glob itself.                 *)
LEMMA GivenNames ==
  ASSUME TypeOK
  PROVE  /\ Given \subseteq golden \cup malformed \cup {Unmatched}
         /\ Given \subseteq Names
         /\ loop = "golden" => golden \subseteq Given
         /\ loop = "malformed" => malformed \subseteq Given
BY DEF TypeOK, Given, Glob, Names

(* Before the first fixture nothing has been counted.                      *)
LEMMA InitIInv == Init => IInv
BY DEF Init, IInv, TypeOK, Sifted, Given

(* The inputs of the script never change, and with them what a loop gets.  *)
LEMMA SameGiven ==
  ASSUME UNCHANGED <<inputs, loop>>
  PROVE  Given' = Given
BY DEF inputs, Given

(* A golden fixture is counted: the script stops where a program fails.    *)
LEMMA CheckGoldenIInv ==
  ASSUME IInv, NEW f \in Names, CheckGolden(f)
  PROVE  IInv'
<1>1. /\ UNCHANGED <<golden, expects, malformed, go, node, loop>>
      /\ loop = "golden" /\ exit = "none" /\ f \in todo
      /\ todo' = todo \ {f} /\ checked' = checked \cup {f}
      /\ exit' = IF Fails \in {go[f], node[f]} THEN "failed" ELSE exit
      /\ failed' = IF go[f] = node[f] THEN failed ELSE failed \cup {f}
  BY DEF CheckGolden, inputs
<1>2. f \in golden \cup malformed \cup {Unmatched} /\ f \notin checked
  BY <1>1, GivenNames DEF IInv, TypeOK
<1>3. TypeOK'
  <2>1. Given' = Given
    BY <1>1, SameGiven DEF inputs
  <2> QED  BY <1>1, <1>2, <2>1 DEF IInv, TypeOK
<1>4. Sifted'
  BY <1>1, <1>2 DEF IInv, TypeOK, Sifted
<1> QED  BY <1>3, <1>4 DEF IInv

(* The second loop begins when every golden fixture was read.              *)
LEMMA EndGoldenIInv == IInv /\ EndGolden => IInv'
<1> SUFFICES ASSUME IInv, EndGolden PROVE IInv'
  OBVIOUS
<1>1. /\ UNCHANGED <<golden, expects, malformed, go, node, failed>>
      /\ loop = "golden" /\ exit = "none" /\ todo = {} /\ checked = Given
  BY DEF EndGolden, inputs, IInv, TypeOK
<1>2. CASE checked = {}
  <2>1. exit' = "failed" /\ UNCHANGED <<loop, todo, checked>>
    BY <1>2 DEF EndGolden
  <2>2. Given' = Given
    BY <1>1, <2>1, SameGiven DEF inputs
  <2> QED  BY <1>1, <1>2, <2>1, <2>2 DEF IInv, TypeOK, Sifted
<1>3. CASE checked # {}
  <2>1. loop' = "malformed" /\ todo' = Glob(malformed, FALSE) /\ checked' = {} /\ UNCHANGED exit
    BY <1>3 DEF EndGolden
  <2>2. Given' = todo'
    BY <1>1, <2>1 DEF Given
  <2>3. TypeOK'
    BY <1>1, <2>1, <2>2 DEF IInv, TypeOK
  <2>4. golden # {}
    <3>1. ASSUME golden = {} PROVE FALSE
      <4>1. checked \subseteq {Unmatched} /\ Unmatched \in Names
        BY <1>1, <3>1 DEF Given, Glob, Names
      <4>2. Unmatched \in checked
        BY <1>3, <4>1
      <4>3. Unmatched \notin golden \cup malformed
        BY DEF IInv, TypeOK
      <4> QED  BY <1>1, <4>1, <4>2, <4>3 DEF IInv, Sifted
    <3> QED  BY <3>1
  <2>5. \A f \in golden : f \in checked
    BY <1>1, GivenNames DEF IInv
  <2>6. Sifted'
    BY <1>1, <2>1, <2>4, <2>5 DEF IInv, Sifted
  <2> QED  BY <2>3, <2>6 DEF IInv
<1> QED  BY <1>2, <1>3

(* A malformed fixture is counted.                                         *)
LEMMA CheckMalformedIInv ==
  ASSUME IInv, NEW f \in Names, CheckMalformed(f)
  PROVE  IInv'
<1>1. /\ UNCHANGED <<golden, expects, malformed, go, node, loop, exit>>
      /\ loop = "malformed" /\ exit = "none" /\ f \in todo
      /\ todo' = todo \ {f} /\ checked' = checked \cup {f}
      /\ failed' = IF go[f] = Fails /\ node[f] = Fails THEN failed ELSE failed \cup {f}
  BY DEF CheckMalformed, inputs
<1>2. f \in golden \cup malformed \cup {Unmatched} /\ f \notin checked
  BY <1>1, GivenNames DEF IInv, TypeOK
<1>3. TypeOK'
  <2>1. Given' = Given
    BY <1>1, SameGiven DEF inputs
  <2> QED  BY <1>1, <1>2, <2>1 DEF IInv, TypeOK
<1>4. Sifted'
  BY <1>1, <1>2 DEF IInv, TypeOK, Sifted
<1> QED  BY <1>3, <1>4 DEF IInv

(* The verdict.                                                            *)
LEMMA EndMalformedIInv == IInv /\ EndMalformed => IInv'
<1> SUFFICES ASSUME IInv, EndMalformed PROVE IInv'
  OBVIOUS
<1>1. /\ UNCHANGED <<golden, expects, malformed, go, node, loop, todo, checked, failed>>
      /\ loop = "malformed" /\ todo = {}
      /\ exit' = IF checked = {} \/ failed # {} THEN "failed" ELSE "ok"
  BY DEF EndMalformed, inputs
<1>2. Given' = Given
  BY <1>1, SameGiven DEF inputs
<1>3. TypeOK'
  BY <1>1, <1>2 DEF IInv, TypeOK
<1>4. Sifted'
  BY <1>1 DEF IInv, Sifted, Names
<1> QED  BY <1>3, <1>4 DEF IInv

(* A step that changes nothing.                                            *)
LEMMA StutterIInv == IInv /\ UNCHANGED vars => IInv'
<1> SUFFICES ASSUME IInv, UNCHANGED vars PROVE IInv'
  OBVIOUS
<1>1. UNCHANGED <<golden, expects, malformed, go, node, loop, todo, checked, failed, exit>>
  BY DEF vars
<1>2. Given' = Given
  BY <1>1, SameGiven DEF inputs
<1> QED  BY <1>1, <1>2 DEF IInv, TypeOK, Sifted, Names

(* The invariant holds throughout both loops.                              *)
LEMMA Inductive == Spec => []IInv
<1>1. IInv /\ [Next]_vars => IInv'
  BY CheckGoldenIInv, CheckMalformedIInv, EndGoldenIInv, EndMalformedIInv, StutterIInv DEF Next
<1> QED  BY InitIInv, <1>1, PTL DEF Spec

-----------------------------------------------------------------------------
(* Failures.                                                               *)

(* The inputs stay, and so what is wrong with them does.                   *)
LEMMA FaultStays ==
  ASSUME UNCHANGED <<golden, malformed, go, node>>
  PROVE  Fault' = Fault
BY DEF Fault

(* No loop is handed nothing, except the first when there are expectations *)
(* only; the second gets malformed fixtures or a name that nothing has.    *)
LEMMA Handed ==
  ASSUME TypeOK
  PROVE  /\ loop = "golden" => Given \subseteq golden \/ golden = {}
         /\ loop = "malformed" => Given # {} /\ Given \subseteq malformed \cup {Unmatched}
         /\ Unmatched \in Names \ (golden \cup malformed)
BY DEF TypeOK, Given, Glob, Names

(* Whatever the script sets aside, or fails on, is a fault of a fixture.   *)
LEMMA NextBlamed == IInv /\ Blamed /\ [Next]_vars => Blamed'
<1> SUFFICES ASSUME IInv, Blamed, [Next]_vars PROVE Blamed'
  OBVIOUS
<1>1. UNCHANGED <<golden, malformed, go, node>>
  BY DEF Next, vars, inputs, CheckGolden, CheckMalformed, EndGolden, EndMalformed
<1>2. Fault' = Fault
  BY <1>1, FaultStays
<1>3. CASE UNCHANGED vars
  BY <1>2, <1>3 DEF vars, Blamed
<1>4. ASSUME NEW f \in Names, CheckGolden(f) PROVE Blamed'
  <2>1. f \in golden \/ golden = {}
    BY <1>4, Handed DEF IInv, TypeOK, CheckGolden
  <2>2. go[f] # node[f] \/ Fails \in {go[f], node[f]} => Fault
    BY <2>1 DEF Fault
  <2> QED
    BY <1>2, <1>4, <2>2 DEF CheckGolden, Blamed
<1>5. ASSUME NEW f \in Names, CheckMalformed(f) PROVE Blamed'
  <2>1. f \in malformed \/ f = Unmatched
    BY <1>5, Handed DEF IInv, TypeOK, CheckMalformed
  <2>2. go[f] # Fails \/ node[f] # Fails => Fault
    BY <2>1, Handed DEF Fault, IInv, Sifted
  <2> QED
    BY <1>2, <1>5, <2>2 DEF CheckMalformed, Blamed
<1>6. CASE EndGolden
  <2>1. checked = {} => golden = {}
    BY <1>6, GivenNames DEF IInv, TypeOK, EndGolden
  <2> QED
    BY <1>2, <1>6, <2>1 DEF EndGolden, Blamed, Fault
<1>7. CASE EndMalformed
  <2>1. checked # {}
    BY <1>7, Handed DEF IInv, TypeOK, EndMalformed
  <2> QED
    BY <1>2, <1>7, <2>1 DEF EndMalformed, Blamed
<1> QED
  BY <1>3, <1>4, <1>5, <1>6, <1>7 DEF Next

-----------------------------------------------------------------------------

(* Each loop counts what it was handed and nothing else.                   *)
THEOREM TypeCorrect == Spec => []TypeOK
<1>1. IInv => TypeOK
  BY DEF IInv
<1> QED  BY <1>1, Inductive, PTL

(* The closing line of the script is true when it is printed.              *)
THEOREM AgreementIsMeant == Spec => []PassMeansAgreement
<1>1. IInv => PassMeansAgreement
  <2> SUFFICES ASSUME IInv, exit = "ok" PROVE PassMeansAgreement
    BY DEF PassMeansAgreement
  <2>1. loop = "malformed" /\ todo = {} /\ failed = {}
    BY DEF IInv, TypeOK, Sifted
  <2>2. malformed \subseteq checked
    BY <2>1, GivenNames DEF IInv, TypeOK
  <2> QED  BY <2>1, <2>2 DEF IInv, Sifted, PassMeansAgreement
<1> QED  BY <1>1, Inductive, PTL

(* The script fails only where a fixture is to blame: neither set -e nor a *)
(* glob without a match make it fail on SDKs that do what they should.     *)
THEOREM FailuresAreMeant == Spec => []FailMeansDisagreement
<1>1. Init => Blamed
  BY DEF Init, Blamed
<1>2. Blamed => FailMeansDisagreement
  BY DEF Blamed, Fault, FailMeansDisagreement
<1> QED  BY <1>1, <1>2, Inductive, NextBlamed, PTL DEF Spec
=============================================================================
