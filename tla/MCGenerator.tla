----------------------------- MODULE MCGenerator -----------------------------
EXTENDS Generator, TLC

(* Two files of Go and one of Node.  Version 2 of the source changes the   *)
(* first, keeps the second and drops the third; version 3 does not render  *)
(* for Node.                                                               *)
MCLang == <<"go", "go", "node">>
MCSources == {"v1", "v2", "v3"}
MCRendered ==
  [v1 |-> <<"a", "b", "c">>, v2 |-> <<"d", "b", "none">>, v3 |-> <<"a", "b", "c">>]
MCContents == {"a", "b", "c", "d", "hand", "none", "torn"}
MCBroken == {<<"v3", "node">>}

MCHand == {"hand", "none"}

MCJobs == {<<"go">>, <<"verify">>, <<"go", "node", "verify">>}

(* The shells are interchangeable, and no liveness is checked.             *)
Interchangeable == Permutations(Shells)
=============================================================================
