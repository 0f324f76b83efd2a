----------------------------- MODULE CrossCheck -----------------------------
(***************************************************************************)
(* The loops of scripts/cross-language-check.sh over the fixtures: every   *)
(* golden response has to give the same canonical output in both SDKs, and *)
(* every malformed one has to be rejected by both.  The script runs under  *)
(* set -e, and bash hands on a glob that matches nothing as it is written. *)
(***************************************************************************)
EXTENDS Naturals, FiniteSets

CONSTANTS
  Golden,      \* names that fixtures in spec/golden may have
  Malformed,   \* names that fixtures in spec/malformed may have
  Outputs,     \* canonical outputs
  Fails,       \* a program that exits with an error
  Unmatched    \* the literal *.json of a glob without a match

ASSUME NamesAssumption ==
  Golden \cap Malformed = {} /\ Unmatched \notin Golden \cup Malformed
ASSUME FailsAssumption == Fails \notin Outputs

Names == Golden \cup Malformed \cup {Unmatched}

VARIABLES
  golden,     \* the fixtures there are ...
  expects,    \* ... and whether spec/golden holds any *.expect.json
  malformed,
  go,         \* go[f]: what the Go canonicalizer makes of f
  node,       \* node[f]: what the Node one makes of it
  loop,       \* the loop the script is in
  todo,       \* the fixtures it has not yet come to
  checked,    \* the fixtures counted by the loop
  failed,     \* the fixtures that did not pass, in both loops
  exit        \* the script's exit

vars == <<golden, expects, malformed, go, node, loop, todo, checked, failed, exit>>
inputs == <<golden, expects, malformed, go, node>>

(* A directory's *.json, as the for loop sees it.                          *)
Glob(fixtures, others) == IF fixtures = {} /\ ~others THEN {Unmatched} ELSE fixtures

Outcomes == Outputs \cup {Fails}

(* A file that is not there makes both programs fail.                      *)
Init ==
  /\ golden \in SUBSET Golden /\ expects \in BOOLEAN /\ malformed \in SUBSET Malformed
  /\ go \in {g \in [Names -> Outcomes] : \A f \in Names \ (golden \cup malformed) : g[f] = Fails}
  /\ node \in {n \in [Names -> Outcomes] : \A f \in Names \ (golden \cup malformed) : n[f] = Fails}
  /\ loop = "golden" /\ todo = Glob(golden, expects)
  /\ checked = {} /\ failed = {} /\ exit = "none"

(* The assignment of an output fails with its program, and so the script.  *)
CheckGolden(f) ==
  /\ loop = "golden" /\ exit = "none" /\ f \in todo
  /\ todo' = todo \ {f} /\ checked' = checked \cup {f}
  /\ failed' = IF go[f] = node[f] THEN failed ELSE failed \cup {f}
  /\ exit' = IF Fails \in {go[f], node[f]} THEN "failed" ELSE exit
  /\ UNCHANGED <<inputs, loop>>

(* Faulty: one counter for both loops.                                     *)
FaultyEndGolden ==
  /\ loop = "golden" /\ exit = "none" /\ todo = {}
  /\ IF checked = {}
     THEN exit' = "failed" /\ UNCHANGED <<loop, todo>>
     ELSE loop' = "malformed" /\ todo' = Glob(malformed, FALSE) /\ UNCHANGED exit
  /\ UNCHANGED <<inputs, checked, failed>>

(* No golden fixture: the script fails.  Else the second loop begins.      *)
EndGolden ==
  /\ loop = "golden" /\ exit = "none" /\ todo = {}
  /\ IF checked = {}
     THEN exit' = "failed" /\ UNCHANGED <<loop, todo, checked>>
     ELSE /\ loop' = "malformed" /\ todo' = Glob(malformed, FALSE) /\ checked' = {}
          /\ UNCHANGED exit
  /\ UNCHANGED <<inputs, failed>>

(* Faulty: one SDK that rejects it is enough.                              *)
FaultyCheckMalformed(f) ==
  /\ loop = "malformed" /\ exit = "none" /\ f \in todo
  /\ todo' = todo \ {f} /\ checked' = checked \cup {f}
  /\ failed' = IF Fails \in {go[f], node[f]} THEN failed ELSE failed \cup {f}
  /\ UNCHANGED <<inputs, loop, exit>>

(* Faulty: the rejection ends the script, as everywhere under set -e.      *)
FaultyRejection(f) ==
  /\ loop = "malformed" /\ exit = "none" /\ f \in todo
  /\ todo' = todo \ {f} /\ checked' = checked \cup {f}
  /\ failed' = IF go[f] = Fails /\ node[f] = Fails THEN failed ELSE failed \cup {f}
  /\ exit' = IF Fails \in {go[f], node[f]} THEN "failed" ELSE exit
  /\ UNCHANGED <<inputs, loop>>

(* Any failure of the program counts as a rejection.                       *)
CheckMalformed(f) ==
  /\ loop = "malformed" /\ exit = "none" /\ f \in todo
  /\ todo' = todo \ {f} /\ checked' = checked \cup {f}
  /\ failed' = IF go[f] = Fails /\ node[f] = Fails THEN failed ELSE failed \cup {f}
  /\ UNCHANGED <<inputs, loop, exit>>

EndMalformed ==
  /\ loop = "malformed" /\ exit = "none" /\ todo = {}
  /\ exit' = IF checked = {} \/ failed # {} THEN "failed" ELSE "ok"
  /\ UNCHANGED <<inputs, loop, todo, checked, failed>>

Next ==
  \/ \E f \in Names : CheckGolden(f) \/ CheckMalformed(f)
  \/ EndGolden \/ EndMalformed

Spec == Init /\ [][Next]_vars

-----------------------------------------------------------------------------

Given == IF loop = "golden" THEN Glob(golden, expects) ELSE Glob(malformed, FALSE)

(* A loop counts what it was handed and nothing else.                      *)
TypeOK ==
  /\ golden \subseteq Golden /\ malformed \subseteq Malformed /\ expects \in BOOLEAN
  /\ go \in [Names -> Outcomes] /\ node \in [Names -> Outcomes]
  /\ loop \in {"golden", "malformed"} /\ exit \in {"none", "ok", "failed"}
  /\ todo \cup checked = Given /\ todo \cap checked = {}
  /\ failed \subseteq golden \cup malformed \cup {Unmatched}

(* A pass means what the closing line says: there are golden fixtures, the *)
(* SDKs read every one of them and agree on it, and both reject every      *)
(* malformed one, a mistake in the first loop included that only the end   *)
(* of the second reports.                                                  *)
PassMeansAgreement ==
  exit = "ok" =>
    /\ golden # {}
    /\ \A f \in golden : go[f] = node[f] /\ go[f] # Fails
    /\ \A f \in malformed : go[f] = Fails /\ node[f] = Fails

(* A failure means that a fixture is to blame: there is no golden one, or  *)
(* the SDKs do not both read one of them alike, or one of them takes a     *)
(* malformed one.  A rejection, though a failure of a program under set -e,*)
(* is what the second loop asks for.                                       *)
FailMeansDisagreement ==
  exit = "failed" =>
    \/ golden = {}
    \/ \E f \in golden : go[f] # node[f] \/ go[f] = Fails
    \/ \E f \in malformed : go[f] # Fails \/ node[f] # Fails

(* An empty fixture directory does not report as a pass.                   *)
NothingCheckedIsNoPass == exit = "ok" => golden # {} /\ malformed # {}
=============================================================================
