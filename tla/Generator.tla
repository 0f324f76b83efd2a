------------------------------ MODULE Generator ------------------------------
(***************************************************************************)
(* The commands of cmd/simplefin-gen over a working tree: generate renders *)
(* one language in memory and writes its files one by one, verify renders  *)
(* every language and compares it with what is on disk, and                *)
(* scripts/cross-language-check.sh runs them in a row.  Several jobs may   *)
(* run at once, each may be killed or fail at any point, and a developer   *)
(* edits the sources and the generated files meanwhile.                    *)
(*                                                                         *)
(* The spec and the templates together are one source.  A command takes    *)
(* them as they are when it begins: go run embeds the templates, and the   *)
(* spec is loaded before anything is rendered.  Files are numbered in the  *)
(* order in which verify visits them: by language, and sorted in each.     *)
(***************************************************************************)
EXTENDS Naturals, Sequences

CONSTANTS
  Shells,     \* where jobs run
  Langs,      \* the language targets
  NFiles,     \* how many files any source renders
  Lang,       \* Lang[f]: the language whose output directory f is in
  Sources,    \* versions of the spec and the templates
  Contents,   \* what may be in a file
  Hand,       \* what a developer may leave there
  Rendered,   \* Rendered[s][f]: what s renders for f, or NoFile
  Broken,     \* <<s, l>>: loading, rendering or go/format fails
  Jobs,       \* the sequences of commands run as one: a language or "verify"
  NoFile,     \* nothing is rendered for, or is on disk at, a path
  Torn,       \* a file that was truncated and not yet written
  NoSource,   \* no command has begun
  MaxEdits    \* bound: the changes a developer makes

Files == 1 .. NFiles
Commands == Langs \cup {"verify"}
Trees == [source : Sources, disk : [Files -> Contents]]

ASSUME FilesAssumption == NFiles \in Nat /\ Lang \in [Files -> Langs] /\ "verify" \notin Langs
ASSUME JobsAssumption == Jobs \subseteq Seq(Commands) \ {<<>>}
ASSUME RenderedAssumption ==
  /\ Rendered \in [Sources -> [Files -> Contents \ {Torn}]]
  /\ {NoFile, Torn} \subseteq Contents /\ Hand \subseteq Contents /\ Broken \subseteq Sources \X Langs
ASSUME NoSourceAssumption == NoSource \notin Sources
ASSUME MaxEditsAssumption == MaxEdits \in Nat

VARIABLES
  source,     \* the spec and the templates of the working tree
  disk,       \* disk[f]: the file in the working tree
  committed,  \* the tree that was committed last
  edits,      \* changes the developer has made
  job,        \* job[p]: the job the shell runs or ran last
  cmds,       \* cmds[p]: its commands from the current one on
  from,       \* from[p]: what the current command renders from
  todo,       \* todo[p]: the files it has not yet written or compared
  open,       \* open[p]: the first of them is truncated and being written
  stale,      \* stale[p]: verify has met a file that is missing or differs
  exit,       \* exit[p]: "none" until the job has ended
  quiet,      \* quiet[p]: nobody disturbed the job since it started (history)
  clean       \* clean[p]: nor touched the commit it was started on (history)

tree == <<source, disk>>
shell == <<job, cmds, from, todo, open, stale, exit>>
vars == <<tree, committed, edits, shell, quiet, clean>>

-----------------------------------------------------------------------------

Emitted(s) == {f \in Files : Rendered[s][f] # NoFile}

(* The files a command is about, and the languages it renders.             *)
Covered(cmd) == {f \in Files : cmd = "verify" \/ Lang[f] = cmd}
Targets(cmd) == IF cmd = "verify" THEN Langs ELSE {cmd}

First(S) == CHOOSE f \in S : \A g \in S : f <= g

Current(p) == cmds[p][1]
Begun(p) == cmds[p] # <<>> /\ from[p] # NoSource

(* What a change of the working tree by q does to what the others rely on. *)
Disturb(q, harmless) ==
  /\ quiet' = [p \in Shells |-> quiet[p] /\ (p = q \/ harmless)]
  /\ clean' = [p \in Shells |-> clean[p] /\ p = q]

Init ==
  /\ source \in Sources
  /\ disk = Rendered[source]
  /\ committed = [source |-> source, disk |-> disk]
  /\ edits = 0
  /\ job = [p \in Shells |-> <<>>]
  /\ cmds = [p \in Shells |-> <<>>]
  /\ from = [p \in Shells |-> NoSource]
  /\ todo = [p \in Shells |-> {}]
  /\ open = [p \in Shells |-> FALSE]
  /\ stale = [p \in Shells |-> FALSE]
  /\ exit = [p \in Shells |-> "none"]
  /\ quiet = [p \in Shells |-> FALSE]
  /\ clean = [p \in Shells |-> FALSE]

(* A job is started in a shell whose last one has ended.                   *)
Run(p, j) ==
  /\ cmds[p] = <<>>
  /\ job' = [job EXCEPT ![p] = j]
  /\ cmds' = [cmds EXCEPT ![p] = j]
  /\ exit' = [exit EXCEPT ![p] = "none"]
  /\ quiet' = [quiet EXCEPT ![p] = TRUE]
  /\ clean' = [clean EXCEPT ![p] = committed = [source |-> source, disk |-> disk]]
  /\ UNCHANGED <<tree, committed, edits, from, todo, open, stale>>

(* The job ends, its last command or (set -e) the one that failed.         *)
Exit(p, how) ==
  /\ cmds' = [cmds EXCEPT ![p] = <<>>]
  /\ from' = [from EXCEPT ![p] = NoSource]
  /\ todo' = [todo EXCEPT ![p] = {}]
  /\ open' = [open EXCEPT ![p] = FALSE]
  /\ exit' = [exit EXCEPT ![p] = how]
  /\ UNCHANGED <<tree, committed, edits, job, stale>>

(* generate renders all its files before it writes the first.  verify does *)
(* so one language at a time, with comparisons in between; as these change *)
(* nothing, a language that cannot be rendered has it fail here already.   *)
Begin(p) ==
  /\ cmds[p] # <<>> /\ from[p] = NoSource
  /\ \A l \in Targets(Current(p)) : <<source, l>> \notin Broken
  /\ from' = [from EXCEPT ![p] = source]
  /\ todo' = [todo EXCEPT ![p] = Emitted(source) \cap Covered(Current(p))]
  /\ stale' = [stale EXCEPT ![p] = FALSE]
  /\ UNCHANGED <<tree, committed, edits, job, cmds, open, exit, quiet, clean>>

(* os.WriteFile truncates the file ...                                     *)
Truncate(p) ==
  /\ Begun(p) /\ Current(p) # "verify" /\ todo[p] # {} /\ ~open[p]
  /\ disk' = [disk EXCEPT ![First(todo[p])] = Torn]
  /\ open' = [open EXCEPT ![p] = TRUE]
  /\ Disturb(p, TRUE)
  /\ UNCHANGED <<source, committed, edits, job, cmds, from, todo, stale, exit>>

(* Faulty: the file is not closed.                                         *)
FaultyFill(p) ==
  /\ Begun(p) /\ open[p]
  /\ disk' = [disk EXCEPT ![First(todo[p])] = Rendered[from[p]][First(todo[p])]]
  /\ todo' = [todo EXCEPT ![p] = @ \ {First(@)}]
  /\ Disturb(p, TRUE)
  /\ UNCHANGED <<source, committed, edits, job, cmds, from, open, stale, exit>>

(* ... and writes it.                                                      *)
Fill(p) ==
  /\ Begun(p) /\ open[p]
  /\ disk' = [disk EXCEPT ![First(todo[p])] = Rendered[from[p]][First(todo[p])]]
  /\ open' = [open EXCEPT ![p] = FALSE]
  /\ todo' = [todo EXCEPT ![p] = @ \ {First(@)}]
  /\ Disturb(p, from[p] = source)
  /\ UNCHANGED <<source, committed, edits, job, cmds, from, stale, exit>>

(* Faulty: a missing file is passed over.                                  *)
FaultyCompare(p) ==
  /\ Begun(p) /\ Current(p) = "verify" /\ todo[p] # {}
  /\ LET f == First(todo[p])
     IN /\ stale' = [stale EXCEPT ![p] = @ \/ disk[f] \notin {NoFile, Rendered[from[p]][f]}]
        /\ todo' = [todo EXCEPT ![p] = @ \ {f}]
  /\ UNCHANGED <<tree, committed, edits, job, cmds, from, open, exit, quiet, clean>>

(* verify reads one file; it goes on after one that is missing or differs. *)
Compare(p) ==
  /\ Begun(p) /\ Current(p) = "verify" /\ todo[p] # {}
  /\ LET f == First(todo[p])
     IN /\ stale' = [stale EXCEPT ![p] = @ \/ disk[f] # Rendered[from[p]][f]]
        /\ todo' = [todo EXCEPT ![p] = @ \ {f}]
  /\ UNCHANGED <<tree, committed, edits, job, cmds, from, open, exit, quiet, clean>>

(* Faulty: what verify has found stale does not make it fail.              *)
FaultyEnd(p) ==
  /\ Begun(p) /\ todo[p] = {}
  /\ Exit(p, "ok")
  /\ UNCHANGED <<quiet, clean>>

(* The command ends: verify fails if a file was stale, the job goes on     *)
(* with its next command, or is done.                                      *)
End(p) ==
  /\ Begun(p) /\ todo[p] = {}
  /\ \/ Current(p) = "verify" /\ stale[p] /\ Exit(p, "failed")
     \/ ~(Current(p) = "verify" /\ stale[p]) /\ Tail(cmds[p]) = <<>> /\ Exit(p, "ok")
     \/ /\ ~(Current(p) = "verify" /\ stale[p]) /\ Tail(cmds[p]) # <<>>
        /\ cmds' = [cmds EXCEPT ![p] = Tail(@)]
        /\ from' = [from EXCEPT ![p] = NoSource]
        /\ UNCHANGED <<tree, committed, edits, job, todo, open, stale, exit>>
  /\ UNCHANGED <<quiet, clean>>

(* Faulty: without set -e the job goes on after a command that failed.     *)
FaultyFail(p) ==
  /\ cmds[p] # <<>>
  /\ IF Tail(cmds[p]) = <<>>
     THEN Exit(p, "failed")
     ELSE /\ cmds' = [cmds EXCEPT ![p] = Tail(@)]
          /\ from' = [from EXCEPT ![p] = NoSource]
          /\ todo' = [todo EXCEPT ![p] = {}]
          /\ open' = [open EXCEPT ![p] = FALSE]
          /\ UNCHANGED <<tree, committed, edits, job, stale, exit>>
  /\ Disturb(p, ~open[p])

(* The source does not load or render, an error of the file system, or the *)
(* process is killed.  A file being written stays as it is.                *)
Fail(p) ==
  /\ cmds[p] # <<>>
  /\ Exit(p, "failed")
  /\ Disturb(p, ~open[p])

-----------------------------------------------------------------------------
(* The developer.                                                          *)

Developer(newSource, newDisk, newCommitted) ==
  /\ edits < MaxEdits
  /\ edits' = edits + 1
  /\ source' = newSource /\ disk' = newDisk /\ committed' = newCommitted
  /\ quiet' = [p \in Shells |-> quiet[p] /\ <<source, disk>>' = <<source, disk>>]
  /\ clean' = [p \in Shells |-> FALSE]
  /\ UNCHANGED shell

ChangeSource == \E s \in Sources \ {source} : Developer(s, disk, committed)
EditFile == \E f \in Files, t \in Hand :
              disk[f] # t /\ Developer(source, [disk EXCEPT ![f] = t], committed)
Commit == Developer(source, disk, [source |-> source, disk |-> disk])
Checkout == Developer(committed.source, committed.disk, committed)

Next ==
  \/ \E p \in Shells :
       \/ \E j \in Jobs : Run(p, j)
       \/ Begin(p) \/ Truncate(p) \/ Fill(p) \/ Compare(p) \/ End(p) \/ Fail(p)
  \/ ChangeSource \/ EditFile \/ Commit \/ Checkout

Spec == Init /\ [][Next]_vars

-----------------------------------------------------------------------------

TypeOK ==
  /\ source \in Sources /\ disk \in [Files -> Contents] /\ committed \in Trees
  /\ edits \in 0 .. MaxEdits
  /\ job \in [Shells -> Seq(Commands)] /\ cmds \in [Shells -> Seq(Commands)]
  /\ from \in [Shells -> Sources \cup {NoSource}]
  /\ todo \in [Shells -> SUBSET Files]
  /\ open \in [Shells -> BOOLEAN] /\ stale \in [Shells -> BOOLEAN]
  /\ exit \in [Shells -> {"none", "ok", "failed"}]
  /\ quiet \in [Shells -> BOOLEAN] /\ clean \in [Shells -> BOOLEAN]
  /\ \A p \in Shells : open[p] => todo[p] # {} /\ Begun(p) /\ Current(p) # "verify"

Has(j, cmd) == \E i \in DOMAIN j : j[i] = cmd

BeingWritten(f) == \E p \in Shells : open[p] /\ First(todo[p]) = f

(* A job that ended well leaves every file it generated or verified as the *)
(* source renders it, until somebody changes the source or a file: also    *)
(* after an earlier generate was killed half way or a file was edited by   *)
(* hand, and with other jobs of the same source writing the same files     *)
(* (cmdVerify: nothing hand-edited survives silently).                     *)
OkMeansUpToDate ==
  \A p \in Shells : exit[p] = "ok" /\ quiet[p] =>
    \A i \in DOMAIN job[p] : \A f \in Emitted(source) \cap Covered(job[p][i]) :
      disk[f] = Rendered[source][f] \/ BeingWritten(f)

CommitIsUpToDate ==
  \A f \in Emitted(committed.source) : committed.disk[f] = Rendered[committed.source][f]

(* verify, run on a fresh checkout as CI does, passes only a commit whose  *)
(* generated files are what its own source renders (ci.yml: fails if a     *)
(* generated file was hand-edited or the output was not regenerated).      *)
VerifyGuardsTheCommit ==
  \A p \in Shells : exit[p] = "ok" /\ clean[p] /\ job[p] = <<"verify">> => CommitIsUpToDate

(* So does any job that runs verify ("Verifying generated output matches   *)
(* what is committed", cross-language-check.sh).                           *)
EveryVerifyGuardsTheCommit ==
  \A p \in Shells : exit[p] = "ok" /\ clean[p] /\ Has(job[p], "verify") => CommitIsUpToDate

(* No verify complains of an untouched checkout whose generated files are  *)
(* as its source renders them, not even after the generates of its own job,*)
(* one of which may have been killed over a file: set -e ends the job      *)
(* before its verify meets what is torn.                                   *)
NoFalseAlarm ==
  \A p \in Shells :
    clean[p] /\ Begun(p) /\ Current(p) = "verify" /\ stale[p] => ~CommitIsUpToDate
=============================================================================
