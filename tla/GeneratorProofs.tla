--------------------------- MODULE GeneratorProofs ---------------------------
(***************************************************************************)
(* What a job that ended well says of the files, for any number of shells, *)
(* files and languages, all sources, all jobs and any number of edits.     *)
(***************************************************************************)
EXTENDS Generator, NaturalsInduction, WellFoundedInduction, TLAPS

(* A file is as the source renders it, or somebody is writing it.          *)
UpToDate(f) == disk[f] = Rendered[source][f] \/ BeingWritten(f)

(* The commands a shell has left are the last ones of its job.             *)
Remaining ==
  \A p \in Shells :
    /\ Len(cmds[p]) <= Len(job[p])
    /\ \A i \in 1 .. Len(cmds[p]) : cmds[p][i] = job[p][Len(job[p]) - Len(cmds[p]) + i]

(* While nobody disturbed the job of p, its command works from the present *)
(* source; the files it has dealt with are up to date, or verify has found *)
(* a stale one; and so are those of the commands that are over.            *)
FreshAt(p) ==
  quiet[p] /\ exit[p] # "failed" =>
    /\ Begun(p) =>
         /\ from[p] = source
         /\ \A f \in (Emitted(source) \cap Covered(Current(p))) \ todo[p] :
              UpToDate(f) \/ (Current(p) = "verify" /\ stale[p])
    /\ \A i \in 1 .. Len(job[p]) - Len(cmds[p]) :
         \A f \in Emitted(source) \cap Covered(job[p][i]) : UpToDate(f)

(* While nobody touched the commit on which p runs verify alone, the tree  *)
(* is that commit, and what verify compared is as its source renders it.   *)
GuardAt(p) ==
  clean[p] /\ job[p] = <<"verify">> /\ exit[p] # "failed" =>
    /\ committed.source = source /\ committed.disk = disk
    /\ Begun(p) =>
         /\ from[p] = source
         /\ ~stale[p] => \A f \in Emitted(source) \ todo[p] : disk[f] = Rendered[source][f]
    /\ exit[p] = "ok" => \A f \in Emitted(source) : disk[f] = Rendered[source][f]

(* On a checkout that nobody else touches, of a commit that is up to date, *)
(* every file is as the source renders it but for the one p is writing,    *)
(* and no verify of its job has met another.                               *)
AlarmAt(p) ==
  clean[p] /\ cmds[p] # <<>> /\ CommitIsUpToDate =>
    /\ committed.source = source
    /\ from[p] \in {NoSource, source}
    /\ \A f \in Emitted(source) :
         disk[f] = Rendered[source][f] \/ (open[p] /\ First(todo[p]) = f)
    /\ Begun(p) => todo[p] \subseteq Emitted(source)
    /\ Begun(p) /\ Current(p) = "verify" => ~stale[p]

(* A shell with commands left has not ended its job; one without has none  *)
(* begun.                                                                  *)
Running ==
  \A p \in Shells : /\ cmds[p] # <<>> => exit[p] = "none"
                    /\ cmds[p] = <<>> => from[p] = NoSource

Fresh == \A p \in Shells : FreshAt(p)

Guarding == \A p \in Shells : GuardAt(p)

Calm == \A p \in Shells : AlarmAt(p)

IInv == TypeOK /\ Remaining /\ Running /\ Fresh /\ Guarding

USE FilesAssumption, JobsAssumption, RenderedAssumption, NoSourceAssumption, MaxEditsAssumption

-----------------------------------------------------------------------------

(* A set of files that is not empty has a first one.                       *)
LEMMA FirstFile ==
  ASSUME NEW S \in SUBSET Files, S # {}
  PROVE  First(S) \in S
<1>1. S \subseteq Nat
  BY DEF Files
<1>2. PICK d \in S : \A e \in S : ~(<<e, d>> \in OpToRel(<, Nat))
  BY <1>1, NatLessThanWellFounded, WFMin
<1>3. \A e \in S : ~(e < d)
  BY <1>1, <1>2 DEF OpToRel
<1>4. \A e \in S : d <= e
  BY <1>1, <1>3
<1> QED
  BY <1>4 DEF First

(* What a command may be, and the files it renders.                        *)
LEMMA Cover ==
  ASSUME NEW s \in Sources, NEW cmd
  PROVE  /\ Emitted(s) \subseteq Files /\ Covered(cmd) \subseteq Files
         /\ Covered("verify") = Files
         /\ \A f \in Files : Rendered[s][f] \in Contents /\ Rendered[s][f] # Torn
BY DEF Emitted, Covered

(* A command that runs is one of its job's.                                *)
LEMMA CommandType ==
  ASSUME TypeOK, NEW p \in Shells
  PROVE  /\ Len(cmds[p]) \in Nat /\ Len(job[p]) \in Nat
         /\ cmds[p] # <<>> => Len(cmds[p]) >= 1 /\ Current(p) \in Commands
         /\ Begun(p) => from[p] \in Sources
         /\ todo[p] \subseteq Files
         /\ todo[p] # {} => First(todo[p]) \in todo[p] /\ First(todo[p]) \in Files
<1>1. cmds[p] \in Seq(Commands) /\ job[p] \in Seq(Commands) /\ todo[p] \subseteq Files
      /\ from[p] \in Sources \cup {NoSource}
  BY DEF TypeOK
<1>2. cmds[p] # <<>> => Len(cmds[p]) >= 1 /\ Current(p) \in Commands
  BY <1>1 DEF Current
<1> QED
  BY <1>1, <1>2, FirstFile DEF Begun

(* Nothing is being written by a shell whose command has not begun, is     *)
(* verify or has no file left.                                             *)
LEMMA Opens ==
  ASSUME TypeOK, NEW p \in Shells, open[p]
  PROVE  todo[p] # {} /\ cmds[p] # <<>> /\ from[p] # NoSource /\ Current(p) # "verify"
BY DEF TypeOK, Begun

-----------------------------------------------------------------------------
(* TypeOK.                                                                 *)

(* The sources and shells start well typed.                                *)
LEMMA InitType == Init => TypeOK
<1> SUFFICES ASSUME Init PROVE TypeOK
  OBVIOUS
<1>1. source \in Sources /\ disk \in [Files -> Contents]
  BY DEF Init
<1>2. committed \in Trees
  BY <1>1 DEF Init, Trees
<1>3. <<>> \in Seq(Commands)
  OBVIOUS
<1>4. /\ job \in [Shells -> Seq(Commands)] /\ cmds \in [Shells -> Seq(Commands)]
      /\ from \in [Shells -> Sources \cup {NoSource}] /\ todo \in [Shells -> SUBSET Files]
  BY <1>3 DEF Init
<1>5. /\ open \in [Shells -> BOOLEAN] /\ stale \in [Shells -> BOOLEAN]
      /\ exit \in [Shells -> {"none", "ok", "failed"}]
      /\ quiet \in [Shells -> BOOLEAN] /\ clean \in [Shells -> BOOLEAN]
      /\ \A p \in Shells : ~open[p]
  BY DEF Init
<1>6. edits \in 0 .. MaxEdits
  BY DEF Init
<1> QED
  BY <1>1, <1>2, <1>4, <1>5, <1>6 DEF TypeOK

(* A job is one of the jobs, and its commands are commands.                *)
LEMMA RunType ==
  ASSUME TypeOK, NEW p \in Shells, NEW j \in Jobs, Run(p, j)
  PROVE  TypeOK'
<1>1. j \in Seq(Commands)
  OBVIOUS
<1>2. job' \in [Shells -> Seq(Commands)] /\ cmds' \in [Shells -> Seq(Commands)]
  BY <1>1 DEF TypeOK, Run
<1>3. exit' \in [Shells -> {"none", "ok", "failed"}] /\ quiet' \in [Shells -> BOOLEAN]
  BY DEF TypeOK, Run
<1>4. clean' \in [Shells -> BOOLEAN]
  BY DEF TypeOK, Run
<1>5. ~open[p]
  BY Opens DEF Run
<1>6. \A q \in Shells : open'[q] => todo'[q] # {} /\ Begun(q)' /\ Current(q)' # "verify"
  BY <1>5 DEF TypeOK, Run, Begun, Current
<1> QED
  BY <1>2, <1>3, <1>4, <1>6 DEF TypeOK, Run, Trees, tree

(* The end of a job.                                                       *)
LEMMA ExitType ==
  ASSUME TypeOK, NEW p \in Shells, NEW how \in {"ok", "failed"}, Exit(p, how),
         quiet' \in [Shells -> BOOLEAN], clean' \in [Shells -> BOOLEAN]
  PROVE  TypeOK'
<1>1. <<>> \in Seq(Commands)
  OBVIOUS
<1>2. /\ cmds' \in [Shells -> Seq(Commands)] /\ from' \in [Shells -> Sources \cup {NoSource}]
      /\ todo' \in [Shells -> SUBSET Files]
      /\ exit' \in [Shells -> {"none", "ok", "failed"}]
  BY <1>1 DEF TypeOK, Exit
<1>3. open' \in [Shells -> BOOLEAN] /\ ~open'[p]
      /\ \A q \in Shells : q # p => open'[q] = open[q]
  BY DEF TypeOK, Exit
<1>4. \A q \in Shells : open'[q] => todo'[q] # {} /\ Begun(q)' /\ Current(q)' # "verify"
  BY <1>3 DEF TypeOK, Exit, Begun, Current
<1> QED
  BY <1>2, <1>3, <1>4 DEF TypeOK, Exit, Trees, tree

(* The steps of a command.                                                 *)
LEMMA StepType ==
  ASSUME TypeOK, NEW p \in Shells, Begin(p) \/ Truncate(p) \/ Fill(p) \/ Compare(p)
  PROVE  TypeOK'
<1>1. /\ todo[p] \subseteq Files
      /\ todo[p] # {} => First(todo[p]) \in todo[p] /\ First(todo[p]) \in Files
      /\ Begun(p) => from[p] \in Sources
  BY CommandType
<1>2. source' \in Sources /\ committed' \in Trees /\ edits' \in 0 .. MaxEdits
      /\ job' \in [Shells -> Seq(Commands)] /\ cmds' \in [Shells -> Seq(Commands)]
      /\ exit' \in [Shells -> {"none", "ok", "failed"}]
  BY DEF TypeOK, Begin, Truncate, Fill, Compare, tree
<1>3. quiet' \in [Shells -> BOOLEAN] /\ clean' \in [Shells -> BOOLEAN]
  <2>1. CASE Begin(p) \/ Compare(p)
    BY <2>1 DEF TypeOK, Begin, Compare
  <2>2. CASE Truncate(p)
    BY <2>2 DEF TypeOK, Truncate, Disturb
  <2>3. CASE Fill(p)
    BY <2>3 DEF TypeOK, Fill, Disturb
  <2> QED
    BY <2>1, <2>2, <2>3
<1>4. CASE Begin(p)
  <2>1. source \in Sources /\ ~open[p]
    BY <1>4, Opens DEF TypeOK, Begin
  <2>2. /\ from' \in [Shells -> Sources \cup {NoSource}] /\ todo' \in [Shells -> SUBSET Files]
        /\ stale' \in [Shells -> BOOLEAN] /\ open' = open /\ disk' = disk
    BY <1>4, <2>1, Cover DEF TypeOK, Begin, tree
  <2>3. \A q \in Shells : open'[q] => todo'[q] # {} /\ Begun(q)' /\ Current(q)' # "verify"
    BY <1>4, <2>1 DEF TypeOK, Begin, Begun, Current
  <2> QED
    BY <1>2, <1>3, <2>2, <2>3 DEF TypeOK
<1>5. CASE Truncate(p)
  <2>1. /\ disk' \in [Files -> Contents] /\ open' \in [Shells -> BOOLEAN]
        /\ UNCHANGED <<from, todo, stale, cmds>>
    BY <1>5 DEF TypeOK, Truncate
  <2>2. \A q \in Shells : open'[q] => todo'[q] # {} /\ Begun(q)' /\ Current(q)' # "verify"
    BY <1>5, <2>1 DEF TypeOK, Truncate, Begun, Current
  <2> QED
    BY <1>2, <1>3, <2>1, <2>2 DEF TypeOK
<1>6. CASE Fill(p)
  <2>1. Rendered[from[p]][First(todo[p])] \in Contents
    BY <1>1, <1>6, Cover, Opens DEF Fill
  <2>2. /\ disk' \in [Files -> Contents] /\ open' \in [Shells -> BOOLEAN]
        /\ todo' \in [Shells -> SUBSET Files] /\ UNCHANGED <<from, stale, cmds>>
    BY <1>6, <2>1 DEF TypeOK, Fill
  <2>3. \A q \in Shells : open'[q] => todo'[q] # {} /\ Begun(q)' /\ Current(q)' # "verify"
    BY <1>6, <2>2 DEF TypeOK, Fill, Begun, Current
  <2> QED
    BY <1>2, <1>3, <2>2, <2>3 DEF TypeOK
<1>7. CASE Compare(p)
  <2>1. ~open[p]
    BY <1>7, Opens DEF Compare
  <2>2. /\ stale' \in [Shells -> BOOLEAN] /\ todo' \in [Shells -> SUBSET Files]
        /\ UNCHANGED <<disk, open, from, cmds>>
    BY <1>7 DEF TypeOK, Compare, tree
  <2>3. \A q \in Shells : open'[q] => todo'[q] # {} /\ Begun(q)' /\ Current(q)' # "verify"
    BY <1>7, <2>1, <2>2 DEF TypeOK, Compare, Begun, Current
  <2> QED
    BY <1>2, <1>3, <2>2, <2>3 DEF TypeOK
<1> QED
  BY <1>4, <1>5, <1>6, <1>7

(* The ends of commands and jobs.                                          *)
LEMMA EndType ==
  ASSUME TypeOK, NEW p \in Shells, End(p) \/ Fail(p)
  PROVE  TypeOK'
<1>1. quiet' \in [Shells -> BOOLEAN] /\ clean' \in [Shells -> BOOLEAN]
  <2>1. CASE End(p)
    BY <2>1 DEF TypeOK, End
  <2>2. CASE Fail(p)
    BY <2>2 DEF TypeOK, Fail, Disturb
  <2> QED
    BY <2>1, <2>2
<1>2. CASE Exit(p, "ok") \/ Exit(p, "failed")
  BY <1>1, <1>2, ExitType
<1>3. CASE /\ Begun(p) /\ todo[p] = {} /\ Tail(cmds[p]) # <<>>
           /\ cmds' = [cmds EXCEPT ![p] = Tail(@)]
           /\ from' = [from EXCEPT ![p] = NoSource]
           /\ UNCHANGED <<tree, committed, edits, job, todo, open, stale, exit>>
  <2>1. Tail(cmds[p]) \in Seq(Commands)
    BY <1>3 DEF TypeOK, Begun
  <2>2. cmds' \in [Shells -> Seq(Commands)] /\ from' \in [Shells -> Sources \cup {NoSource}]
    BY <1>3, <2>1 DEF TypeOK
  <2>3. ~open[p]
    BY <1>3, Opens
  <2>4. \A q \in Shells : open'[q] => todo'[q] # {} /\ Begun(q)' /\ Current(q)' # "verify"
    BY <1>3, <2>3 DEF TypeOK, Begun, Current
  <2> QED
    BY <1>1, <1>3, <2>2, <2>4 DEF TypeOK, tree
<1> QED
  BY <1>2, <1>3 DEF End, Fail

(* The developer's.                                                        *)
DeveloperActs == ChangeSource \/ EditFile \/ Commit \/ Checkout

LEMMA DeveloperSteps ==
  ASSUME TypeOK, DeveloperActs
  PROVE  /\ UNCHANGED shell /\ edits' \in 0 .. MaxEdits
         /\ source' \in Sources /\ disk' \in [Files -> Contents] /\ committed' \in Trees
         /\ quiet' = [p \in Shells |-> quiet[p] /\ <<source, disk>>' = <<source, disk>>]
         /\ clean' = [p \in Shells |-> FALSE]
<1>1. PICK s, d, c : Developer(s, d, c) /\ s \in Sources /\ d \in [Files -> Contents] /\ c \in Trees
  <2>1. CASE ChangeSource
    BY <2>1 DEF TypeOK, ChangeSource
  <2>2. CASE EditFile
    <3>1. PICK f \in Files, t \in Hand : Developer(source, [disk EXCEPT ![f] = t], committed)
      BY <2>2 DEF EditFile
    <3>2. [disk EXCEPT ![f] = t] \in [Files -> Contents]
      BY <3>1 DEF TypeOK
    <3> QED
      BY <3>1, <3>2 DEF TypeOK
  <2>3. CASE Commit
    <3>1. [source |-> source, disk |-> disk] \in Trees
      BY DEF TypeOK, Trees
    <3> QED
      BY <2>3, <3>1 DEF TypeOK, Commit
  <2>4. CASE Checkout
    <3>1. committed.source \in Sources /\ committed.disk \in [Files -> Contents]
      BY DEF TypeOK, Trees
    <3> QED
      BY <2>4, <3>1 DEF TypeOK, Checkout
  <2> QED
    BY <2>1, <2>2, <2>3, <2>4 DEF DeveloperActs
<1>2. edits' \in 0 .. MaxEdits
  BY <1>1 DEF TypeOK, Developer
<1> QED
  BY <1>1, <1>2 DEF Developer

(* Every step keeps the types.                                             *)
LEMMA NextType ==
  ASSUME TypeOK, [Next]_vars
  PROVE  TypeOK'
<1>1. CASE UNCHANGED vars
  BY <1>1 DEF TypeOK, vars, tree, shell, Begun, Current
<1>2. CASE DeveloperActs
  <2>1. quiet' \in [Shells -> BOOLEAN] /\ clean' \in [Shells -> BOOLEAN]
    BY <1>2, DeveloperSteps
  <2> QED
    BY <1>2, <2>1, DeveloperSteps DEF TypeOK, shell, Begun, Current
<1>3. CASE \E p \in Shells :
             \/ \E j \in Jobs : Run(p, j)
             \/ Begin(p) \/ Truncate(p) \/ Fill(p) \/ Compare(p) \/ End(p) \/ Fail(p)
  BY <1>3, RunType, StepType, EndType
<1> QED
  BY <1>1, <1>2, <1>3 DEF Next, DeveloperActs

-----------------------------------------------------------------------------
(* The commands a shell has left.                                          *)

(* Where the rest of a sequence's tail is.                                 *)
LEMMA Shift ==
  ASSUME NEW a \in Nat, NEW b \in Nat, NEW i \in 1 .. b - 1
  PROVE  a - b + (i + 1) = a - (b - 1) + i
OBVIOUS

(* An action of one shell leaves the jobs of the others alone.             *)
LEMMA NextRemaining ==
  ASSUME TypeOK, Remaining, Running, [Next]_vars
  PROVE  Remaining' /\ Running'
<1>1. CASE UNCHANGED <<job, cmds, exit, from>>
  BY <1>1 DEF Remaining, Running
<1>2. ASSUME NEW p \in Shells, NEW j \in Jobs, Run(p, j) PROVE Remaining' /\ Running'
  <2>1. Len(j) \in Nat
    OBVIOUS
  <2>2. /\ job' = [job EXCEPT ![p] = j] /\ cmds' = [cmds EXCEPT ![p] = j]
        /\ exit' = [exit EXCEPT ![p] = "none"]
    BY <1>2 DEF Run
  <2>3. cmds[p] = <<>> /\ from' = from
    BY <1>2 DEF Run
  <2>4. from[p] = NoSource
    BY <2>3 DEF Running
  <2> QED
    BY <2>1, <2>2, <2>3, <2>4 DEF TypeOK, Remaining, Running
<1>3. ASSUME NEW p \in Shells, NEW how \in {"ok", "failed"}, Exit(p, how)
      PROVE  Remaining' /\ Running'
  <2>1. /\ job' = job /\ cmds' = [cmds EXCEPT ![p] = <<>>] /\ exit' = [exit EXCEPT ![p] = how]
    BY <1>3 DEF Exit
  <2>2. Len(job[p]) \in Nat /\ Len(<<>>) = 0
    BY CommandType
  <2>3. /\ cmds'[p] = <<>> /\ from'[p] = NoSource
        /\ \A q \in Shells : q # p =>
             cmds'[q] = cmds[q] /\ exit'[q] = exit[q] /\ from'[q] = from[q]
    BY <1>3, <2>1 DEF TypeOK, Exit
  <2>4. Remaining'
    <3>1. 0 <= Len(job'[p]) /\ Len(cmds'[p]) = 0
      BY <2>1, <2>2, <2>3
    <3>2. \A i \in 1 .. Len(cmds'[p]) : FALSE
      BY <3>1
    <3>3. \A q \in Shells : q # p => cmds'[q] = cmds[q] /\ job'[q] = job[q]
      BY <2>1, <2>3
    <3>4. ASSUME NEW q \in Shells
          PROVE  /\ Len(cmds'[q]) <= Len(job'[q])
                 /\ \A i \in 1 .. Len(cmds'[q]) :
                      cmds'[q][i] = job'[q][Len(job'[q]) - Len(cmds'[q]) + i]
      <4>1. CASE q = p
        BY <3>1, <3>2, <4>1
      <4>2. CASE q # p
        <5>1. /\ Len(cmds[q]) <= Len(job[q])
              /\ \A i \in 1 .. Len(cmds[q]) : cmds[q][i] = job[q][Len(job[q]) - Len(cmds[q]) + i]
          BY DEF Remaining
        <5>2. cmds'[q] = cmds[q] /\ job'[q] = job[q]
          BY <3>3, <4>2
        <5> QED
          BY <5>1, <5>2, Zenon
      <4> QED
        BY <4>1, <4>2
    <3> QED
      BY <3>4, Zenon DEF Remaining
  <2>5. Running'
    BY <2>3 DEF Running
  <2> QED
    BY <2>4, <2>5
<1>4. ASSUME NEW p \in Shells, Begun(p), cmds' = [cmds EXCEPT ![p] = Tail(@)],
             from' = [from EXCEPT ![p] = NoSource], UNCHANGED <<job, exit>>
      PROVE  Remaining' /\ Running'
  <2>1. cmds[p] \in Seq(Commands) /\ cmds[p] # <<>> /\ Len(job[p]) \in Nat
    BY <1>4, CommandType DEF TypeOK, Begun
  <2>2. /\ Len(Tail(cmds[p])) = Len(cmds[p]) - 1
        /\ \A i \in 1 .. Len(cmds[p]) - 1 : Tail(cmds[p])[i] = cmds[p][i + 1]
    BY <2>1
  <2>3. ASSUME NEW q \in Shells
        PROVE  /\ Len(cmds'[q]) <= Len(job'[q])
               /\ \A i \in 1 .. Len(cmds'[q]) :
                    cmds'[q][i] = job'[q][Len(job'[q]) - Len(cmds'[q]) + i]
    <3>1. CASE q = p
      <4>1. cmds'[q] = Tail(cmds[p]) /\ job'[q] = job[p]
        BY <1>4, <3>1 DEF TypeOK
      <4>2. Len(cmds[p]) <= Len(job[p]) /\ Len(cmds[p]) \in Nat
        BY CommandType DEF Remaining
      <4>3. ASSUME NEW i \in 1 .. Len(cmds[p]) - 1
            PROVE  Tail(cmds[p])[i] = job[p][Len(job[p]) - (Len(cmds[p]) - 1) + i]
        <5>1. i + 1 \in 1 .. Len(cmds[p])
          BY <4>2
        <5>2. cmds[p][i + 1] = job[p][Len(job[p]) - Len(cmds[p]) + (i + 1)]
          BY <5>1 DEF Remaining
        <5>3. Len(job[p]) - Len(cmds[p]) + (i + 1) = Len(job[p]) - (Len(cmds[p]) - 1) + i
          <6>1. PICK a \in Nat, b \in Nat : a = Len(job[p]) /\ b = Len(cmds[p])
            BY <2>1, <4>2
          <6>2. i \in 1 .. b - 1
            BY <6>1
          <6> QED
            BY <6>1, <6>2, Shift
        <5> QED
          BY <2>2, <5>2, <5>3
      <4>4. Len(cmds[p]) - 1 <= Len(job[p])
        BY <2>1, <4>2
      <4> QED
        BY <2>2, <4>1, <4>3, <4>4
    <3>2. CASE q # p
      BY <1>4, <3>2 DEF TypeOK, Remaining
    <3> QED
      BY <3>1, <3>2
  <2>4. Running'
    BY <1>4, <2>1 DEF TypeOK, Running
  <2> QED
    BY <2>3, <2>4 DEF Remaining
<1>5. CASE DeveloperActs
  BY <1>1, <1>5, DeveloperSteps DEF shell
<1>6. CASE UNCHANGED vars
  BY <1>1, <1>6 DEF vars, shell
<1>7. ASSUME NEW p \in Shells, Begin(p) \/ Truncate(p) \/ Fill(p) \/ Compare(p)
      PROVE  Remaining' /\ Running'
  <2>1. UNCHANGED <<job, cmds, exit>> /\ cmds[p] # <<>>
        /\ \A q \in Shells : q # p => from'[q] = from[q]
    BY <1>7 DEF TypeOK, Begin, Truncate, Fill, Compare, Begun
  <2> QED
    BY <2>1 DEF Remaining, Running
<1>8. ASSUME NEW p \in Shells, End(p) \/ Fail(p) PROVE Remaining' /\ Running'
  <2>1. \/ Exit(p, "ok") \/ Exit(p, "failed")
        \/ /\ Begun(p) /\ cmds' = [cmds EXCEPT ![p] = Tail(@)]
           /\ from' = [from EXCEPT ![p] = NoSource] /\ UNCHANGED <<job, exit>>
    BY <1>8 DEF End, Fail
  <2> QED
    BY <1>3, <1>4, <2>1
<1> QED
  BY <1>1, <1>2, <1>5, <1>6, <1>7, <1>8 DEF Next, DeveloperActs

-----------------------------------------------------------------------------
(* What a job that nobody disturbs has dealt with.                         *)

(* Files stay up to date while no file and no writer of one changes.       *)
LEMMA Keeps ==
  ASSUME UNCHANGED <<source, disk>>,
         \A p \in Shells : open[p] => open'[p] /\ todo'[p] = todo[p],
         NEW f, UpToDate(f)
  PROVE  UpToDate(f)'
BY DEF UpToDate, BeingWritten

(* They do when a shell starts to write a file, ...                        *)
LEMMA TruncateKeeps ==
  ASSUME TypeOK, NEW p \in Shells, Truncate(p), NEW f \in Files, UpToDate(f)
  PROVE  UpToDate(f)'
<1>1. /\ source' = source /\ todo' = todo /\ open' = [open EXCEPT ![p] = TRUE]
      /\ disk' = [disk EXCEPT ![First(todo[p])] = Torn]
  BY DEF Truncate
<1>2. \A q \in Shells : open[q] => open'[q]
  BY <1>1 DEF TypeOK
<1>3. CASE f = First(todo[p])
  BY <1>1, <1>3 DEF TypeOK, UpToDate, BeingWritten
<1>4. CASE f # First(todo[p])
  <2>1. disk'[f] = disk[f]
    BY <1>1, <1>4 DEF TypeOK
  <2> QED
    BY <1>1, <1>2, <2>1 DEF UpToDate, BeingWritten
<1> QED
  BY <1>3, <1>4

(* ... and when it writes what the present source renders.                 *)
LEMMA FillKeeps ==
  ASSUME TypeOK, NEW p \in Shells, Fill(p), from[p] = source, NEW f \in Files,
         UpToDate(f) \/ f = First(todo[p])
  PROVE  UpToDate(f)'
<1>1. /\ source' = source /\ \A q \in Shells : q # p => todo'[q] = todo[q] /\ open'[q] = open[q]
      /\ disk' = [disk EXCEPT ![First(todo[p])] = Rendered[source][First(todo[p])]]
  BY DEF TypeOK, Fill
<1>2. CASE f = First(todo[p])
  BY <1>1, <1>2 DEF TypeOK, UpToDate
<1>3. CASE f # First(todo[p])
  <2>1. disk'[f] = disk[f]
    BY <1>1, <1>3 DEF TypeOK
  <2> QED
    BY <1>1, <1>3, <2>1 DEF UpToDate, BeingWritten
<1> QED
  BY <1>2, <1>3

(* A shell that does nothing has dealt with the same files.                *)
LEMMA FreshStays ==
  ASSUME TypeOK, NEW q \in Shells, FreshAt(q), quiet'[q] => quiet[q], source' = source,
         /\ job'[q] = job[q] /\ cmds'[q] = cmds[q] /\ from'[q] = from[q]
         /\ todo'[q] = todo[q] /\ stale'[q] = stale[q] /\ exit'[q] = exit[q],
         quiet'[q] => \A f \in Files : UpToDate(f) => UpToDate(f)'
  PROVE  FreshAt(q)'
<1>1. SUFFICES ASSUME quiet'[q], exit[q] # "failed" PROVE FreshAt(q)'
  BY DEF FreshAt
<1>2. Emitted(source)' = Emitted(source) /\ Begun(q)' = Begun(q) /\ Current(q)' = Current(q)
  BY DEF Emitted, Begun, Current
<1>3. Emitted(source) \subseteq Files /\ quiet[q]
  BY <1>1 DEF Emitted
<1>4. ASSUME Begun(q)
      PROVE  /\ from[q] = source
             /\ \A f \in (Emitted(source) \cap Covered(Current(q))) \ todo[q] :
                  UpToDate(f)' \/ (Current(q) = "verify" /\ stale[q])
  BY <1>1, <1>3, <1>4 DEF FreshAt
<1>5. \A i \in 1 .. Len(job[q]) - Len(cmds[q]) :
        \A f \in Emitted(source) \cap Covered(job[q][i]) : UpToDate(f)'
  BY <1>1, <1>3 DEF FreshAt
<1>6. Begun(q)' => from'[q] = source' /\
        \A f \in (Emitted(source)' \cap Covered(Current(q)')) \ todo'[q] :
           UpToDate(f)' \/ (Current(q)' = "verify" /\ stale'[q])
  BY <1>2, <1>4
<1>7. \A i \in 1 .. Len(job'[q]) - Len(cmds'[q]) :
        \A f \in Emitted(source)' \cap Covered(job'[q][i]) : UpToDate(f)'
  BY <1>2, <1>5
<1> QED
  BY <1>2, <1>6, <1>7 DEF FreshAt

(* A shell does not touch what the others keep.                            *)
LEMMA OthersKeep ==
  ASSUME TypeOK, NEW p \in Shells,
         \/ \E j \in Jobs : Run(p, j)
         \/ Begin(p) \/ Truncate(p) \/ Fill(p) \/ Compare(p) \/ End(p) \/ Fail(p),
         NEW q \in Shells, q # p
  PROVE  /\ job'[q] = job[q] /\ cmds'[q] = cmds[q] /\ from'[q] = from[q]
         /\ todo'[q] = todo[q] /\ open'[q] = open[q] /\ stale'[q] = stale[q]
         /\ exit'[q] = exit[q] /\ source' = source /\ committed' = committed
         /\ quiet'[q] => quiet[q]
         /\ clean'[q] => clean[q] /\ disk' = disk
<1>1. CASE \E j \in Jobs : Run(p, j)
  BY <1>1 DEF TypeOK, Run, tree
<1>2. CASE Begin(p) \/ Compare(p)
  BY <1>2 DEF TypeOK, Begin, Compare, tree
<1>3. CASE Truncate(p) \/ Fill(p)
  BY <1>3 DEF TypeOK, Truncate, Fill, Disturb
<1>4. CASE Fail(p)
  BY <1>4 DEF TypeOK, Fail, Exit, Disturb, tree
<1>5. CASE End(p)
  BY <1>5 DEF TypeOK, End, Exit, tree
<1> QED
  BY <1>1, <1>2, <1>3, <1>4, <1>5

(* Whatever a shell does while q is undisturbed, files stay up to date.    *)
LEMMA StepKeeps ==
  ASSUME IInv, NEW p \in Shells,
         \/ \E j \in Jobs : Run(p, j)
         \/ Begin(p) \/ Truncate(p) \/ Fill(p) \/ Compare(p) \/ End(p) \/ Fail(p),
         NEW q \in Shells, quiet'[q], exit'[q] # "failed"
  PROVE  /\ source' = source
         /\ \A f \in Files : UpToDate(f) => UpToDate(f)'
<1>1. CASE Truncate(p)
  BY <1>1, TruncateKeeps DEF IInv, Truncate
<1>2. CASE Fill(p)
  <2>1. from[p] = source
    <3>1. CASE q = p
      <4>1. quiet[p] /\ exit[p] # "failed" /\ Begun(p)
        BY <1>2, <3>1 DEF IInv, TypeOK, Fill, Disturb
      <4> QED
        BY <4>1 DEF IInv, Fresh, FreshAt
    <3>2. CASE q # p
      BY <1>2, <3>2 DEF IInv, TypeOK, Fill, Disturb
    <3> QED
      BY <3>1, <3>2
  <2> QED
    BY <1>2, <2>1, FillKeeps DEF IInv, Fill
<1>3. CASE (\E j \in Jobs : Run(p, j)) \/ Begin(p) \/ Compare(p) \/ End(p) \/ Fail(p)
  <2>1. UNCHANGED <<source, disk>>
    BY <1>3 DEF Run, Begin, Compare, End, Fail, Exit, tree
  <2>2. ~open[p]
    <3>1. CASE \E j \in Jobs : Run(p, j)
      BY <3>1, Opens DEF IInv, Run
    <3>2. CASE Begin(p) \/ Compare(p)
      BY <3>2, Opens DEF IInv, Begin, Compare
    <3>3. CASE End(p)
      <4>1. todo[p] = {}
        BY <3>3 DEF End
      <4> QED
        BY <4>1, Opens DEF IInv
    <3>4. CASE Fail(p)
      <4>1. exit' = [exit EXCEPT ![p] = "failed"]
        BY <3>4 DEF Fail, Exit
      <4>2. q # p
        BY <4>1 DEF IInv, TypeOK
      <4> QED
        BY <3>4, <4>2 DEF IInv, TypeOK, Fail, Disturb
    <3> QED
      BY <1>3, <3>1, <3>2, <3>3, <3>4
  <2>3. \A r \in Shells : r # p => todo'[r] = todo[r] /\ open'[r] = open[r]
    BY <1>3, OthersKeep DEF IInv
  <2>4. \A r \in Shells : open[r] => open'[r] /\ todo'[r] = todo[r]
    BY <2>2, <2>3
  <2> QED
    BY <2>1, <2>4, Keeps
<1> QED
  BY <1>1, <1>2, <1>3

(* Where the command that is over was in its job.                          *)
LEMMA LastDone ==
  ASSUME NEW a \in Nat, NEW b \in Nat, NEW i \in 1 .. a - (b - 1)
  PROVE  i \in 1 .. a - b \/ i = a - b + 1
OBVIOUS

(* The command that is over joins those that were.                         *)
LEMMA CommandOver ==
  ASSUME IInv, NEW p \in Shells, Begun(p), todo[p] = {}, quiet[p],
         ~(Current(p) = "verify" /\ stale[p])
  PROVE  /\ from[p] = source /\ exit[p] = "none"
         /\ \A i \in 1 .. Len(job[p]) - (Len(cmds[p]) - 1) :
              \A f \in Emitted(source) \cap Covered(job[p][i]) : UpToDate(f)
<1>1. cmds[p] # <<>> /\ Len(cmds[p]) \in Nat /\ Len(job[p]) \in Nat /\ Len(cmds[p]) >= 1
      /\ Len(cmds[p]) <= Len(job[p])
  BY CommandType DEF IInv, Begun, Remaining
<1>2. exit[p] = "none"
  BY <1>1 DEF IInv, Running
<1>3. Current(p) = job[p][Len(job[p]) - Len(cmds[p]) + 1]
  <2>1. 1 \in 1 .. Len(cmds[p])
    BY <1>1
  <2> QED
    BY <2>1 DEF IInv, Remaining, Current
<1>4. from[p] = source /\ \A f \in Emitted(source) \cap Covered(Current(p)) : UpToDate(f)
  BY <1>2 DEF IInv, Fresh, FreshAt
<1>5. \A i \in 1 .. Len(job[p]) - Len(cmds[p]) :
        \A f \in Emitted(source) \cap Covered(job[p][i]) : UpToDate(f)
  BY <1>2 DEF IInv, Fresh, FreshAt
<1>6. \A i \in 1 .. Len(job[p]) - (Len(cmds[p]) - 1) :
        i \in 1 .. Len(job[p]) - Len(cmds[p]) \/ i = Len(job[p]) - Len(cmds[p]) + 1
  BY <1>1, LastDone
<1> QED
  BY <1>2, <1>3, <1>4, <1>5, <1>6

(* What the shell that steps has dealt with.                               *)
LEMMA OwnFresh ==
  ASSUME IInv, NEW p \in Shells,
         \/ \E j \in Jobs : Run(p, j)
         \/ Begin(p) \/ Truncate(p) \/ Fill(p) \/ Compare(p) \/ End(p) \/ Fail(p)
  PROVE  FreshAt(p)'
<1>1. SUFFICES ASSUME quiet'[p], exit'[p] # "failed" PROVE FreshAt(p)'
  BY DEF FreshAt
<1>2. source' = source /\ Emitted(source)' = Emitted(source)
      /\ \A f \in Emitted(source) : UpToDate(f) => UpToDate(f)'
  <2>1. source' = source /\ \A f \in Files : UpToDate(f) => UpToDate(f)'
    BY <1>1, StepKeeps
  <2> QED
    BY <2>1 DEF Emitted
<1>3. CASE \E j \in Jobs : Run(p, j)
  <2>1. PICK j \in Jobs : Run(p, j)
    BY <1>3
  <2>2. job'[p] = j /\ cmds'[p] = j /\ from'[p] = NoSource /\ Len(j) \in Nat
    BY <2>1 DEF IInv, TypeOK, Running, Run
  <2>3. ~Begun(p)'
    BY <2>2 DEF Begun
  <2>4. \A i \in 1 .. Len(job'[p]) - Len(cmds'[p]) : FALSE
    BY <2>2
  <2> QED
    BY <2>3, <2>4 DEF FreshAt
<1>4. CASE Begin(p)
  <2>1. /\ from'[p] = source /\ todo'[p] = Emitted(source) \cap Covered(Current(p))
        /\ job' = job /\ cmds' = cmds /\ quiet[p] /\ exit[p] # "failed"
    BY <1>1, <1>4 DEF IInv, TypeOK, Begin
  <2>2. Current(p)' = Current(p)
    BY <2>1 DEF Current
  <2>3. \A i \in 1 .. Len(job[p]) - Len(cmds[p]) :
          \A f \in Emitted(source) \cap Covered(job[p][i]) : UpToDate(f)'
    BY <1>2, <2>1 DEF IInv, Fresh, FreshAt
  <2> QED
    BY <1>2, <2>1, <2>2, <2>3 DEF FreshAt
<1>5. CASE Truncate(p) \/ Fill(p) \/ Compare(p)
  <2>1. /\ job' = job /\ cmds' = cmds /\ from' = from /\ exit' = exit /\ quiet[p]
        /\ Begun(p)
    BY <1>1, <1>5 DEF IInv, TypeOK, Truncate, Fill, Compare, Disturb
  <2>2. Current(p)' = Current(p)
    BY <2>1 DEF Current
  <2>3. /\ from[p] = source
        /\ \A f \in (Emitted(source) \cap Covered(Current(p))) \ todo[p] :
             UpToDate(f)' \/ (Current(p) = "verify" /\ stale[p])
        /\ \A i \in 1 .. Len(job[p]) - Len(cmds[p]) :
             \A f \in Emitted(source) \cap Covered(job[p][i]) : UpToDate(f)'
    BY <1>1, <1>2, <2>1 DEF IInv, Fresh, FreshAt
  <2>4. \A f \in (Emitted(source) \cap Covered(Current(p))) \ todo'[p] :
          UpToDate(f)' \/ (Current(p) = "verify" /\ stale'[p])
    <3>1. CASE Truncate(p)
      BY <2>3, <3>1 DEF Truncate
    <3>2. CASE Fill(p)
      <4>1. PICK g \in Files : g = First(todo[p])
        BY <3>2, Opens, CommandType DEF IInv, Fill
      <4>2. todo'[p] = todo[p] \ {g} /\ stale' = stale
        BY <3>2, <4>1 DEF IInv, TypeOK, Fill
      <4>3. UpToDate(g)'
        BY <2>3, <3>2, <4>1, FillKeeps DEF IInv
      <4> QED
        BY <2>3, <4>2, <4>3
    <3>3. CASE Compare(p)
      <4>1. PICK g \in Files : g = First(todo[p])
        BY <3>3, CommandType DEF IInv, Compare
      <4>2. /\ todo'[p] = todo[p] \ {g} /\ disk' = disk /\ Current(p) = "verify"
            /\ stale'[p] = (stale[p] \/ disk[g] # Rendered[from[p]][g])
        BY <3>3, <4>1 DEF IInv, TypeOK, Compare, tree
      <4>3. ~stale'[p] => disk'[g] = Rendered[source'][g]
        BY <1>2, <2>3, <4>2
      <4>4. ~stale'[p] => UpToDate(g)'
        BY <4>3 DEF UpToDate
      <4>5. stale[p] => stale'[p]
        BY <4>2
      <4> QED
        BY <2>3, <4>2, <4>4, <4>5
    <3> QED
      BY <1>5, <3>1, <3>2, <3>3
  <2> QED
    BY <1>2, <2>1, <2>2, <2>3, <2>4 DEF FreshAt
<1>6. CASE End(p) \/ Fail(p)
  <2>1. ~Exit(p, "failed")
    BY <1>1 DEF IInv, TypeOK, Exit
  <2>2. End(p) /\ ~(Current(p) = "verify" /\ stale[p]) /\ quiet[p] /\ job' = job
    BY <1>1, <1>6, <2>1 DEF IInv, TypeOK, End, Fail, Exit
  <2>3. from'[p] = NoSource /\ Len(cmds'[p]) = Len(cmds[p]) - 1
    <3>1. cmds[p] \in Seq(Commands) /\ cmds[p] # <<>>
      BY <2>2 DEF IInv, TypeOK, End, Begun
    <3>2. Len(Tail(cmds[p])) = Len(cmds[p]) - 1
      BY <3>1
    <3>3. CASE Tail(cmds[p]) = <<>> /\ Exit(p, "ok")
      <4>1. cmds'[p] = <<>> /\ from'[p] = NoSource
        BY <3>3 DEF IInv, TypeOK, Exit
      <4> QED
        BY <3>2, <3>3, <4>1
    <3>4. CASE /\ cmds' = [cmds EXCEPT ![p] = Tail(@)]
               /\ from' = [from EXCEPT ![p] = NoSource]
      BY <3>2, <3>4 DEF IInv, TypeOK
    <3> QED
      BY <2>2, <3>3, <3>4 DEF End
  <2>4. \A i \in 1 .. Len(job'[p]) - Len(cmds'[p]) :
          \A f \in Emitted(source) \cap Covered(job'[p][i]) : UpToDate(f)
    BY <2>2, <2>3, CommandOver DEF End
  <2>5. ~Begun(p)'
    BY <2>3 DEF Begun
  <2> QED
    BY <1>2, <2>4, <2>5 DEF FreshAt
<1> QED
  BY <1>3, <1>4, <1>5, <1>6

(* Every step keeps what undisturbed jobs have dealt with.                 *)
LEMMA NextFresh ==
  ASSUME IInv, [Next]_vars
  PROVE  Fresh'
<1> SUFFICES ASSUME NEW q \in Shells PROVE FreshAt(q)'
  BY DEF Fresh
<1>1. FreshAt(q)
  BY DEF IInv, Fresh
<1>2. CASE UNCHANGED vars
  BY <1>1, <1>2 DEF FreshAt, vars, tree, shell, UpToDate, BeingWritten, Emitted, Begun, Current
<1>3. CASE DeveloperActs
  <2>1. /\ job'[q] = job[q] /\ cmds'[q] = cmds[q] /\ from'[q] = from[q]
        /\ todo'[q] = todo[q] /\ stale'[q] = stale[q] /\ exit'[q] = exit[q]
        /\ open' = open /\ todo' = todo
    BY <1>3, DeveloperSteps DEF IInv, shell
  <2>2. quiet'[q] => quiet[q] /\ source' = source /\ disk' = disk
    BY <1>3, DeveloperSteps DEF IInv
  <2>3. CASE quiet'[q]
    <3>1. \A f \in Files : UpToDate(f) => UpToDate(f)'
      BY <2>1, <2>2, <2>3, Keeps
    <3> QED
      BY <1>1, <2>1, <2>2, <2>3, <3>1, FreshStays DEF IInv
  <2>4. CASE ~quiet'[q]
    BY <2>4 DEF FreshAt
  <2> QED
    BY <2>3, <2>4
<1>4. ASSUME NEW p \in Shells,
             \/ \E j \in Jobs : Run(p, j)
             \/ Begin(p) \/ Truncate(p) \/ Fill(p) \/ Compare(p) \/ End(p) \/ Fail(p)
      PROVE  FreshAt(q)'
  <2>1. CASE q = p
    BY <1>4, <2>1, OwnFresh
  <2>2. CASE q # p /\ quiet'[q] /\ exit'[q] # "failed"
    <3>1. source' = source /\ \A f \in Files : UpToDate(f) => UpToDate(f)'
      BY <1>4, <2>2, StepKeeps
    <3>2. /\ job'[q] = job[q] /\ cmds'[q] = cmds[q] /\ from'[q] = from[q]
          /\ todo'[q] = todo[q] /\ stale'[q] = stale[q] /\ exit'[q] = exit[q]
          /\ quiet'[q] => quiet[q]
      BY <1>4, <2>2, OthersKeep DEF IInv
    <3> QED
      BY <1>1, <3>1, <3>2, FreshStays DEF IInv
  <2>3. CASE ~(quiet'[q] /\ exit'[q] # "failed")
    BY <2>3 DEF FreshAt
  <2> QED
    BY <2>1, <2>2, <2>3
<1> QED
  BY <1>2, <1>3, <1>4 DEF Next, DeveloperActs

-----------------------------------------------------------------------------
(* The commit that verify is run on.                                       *)

(* A shell that does nothing guards the same commit.                       *)
LEMMA GuardStays ==
  ASSUME NEW q \in Shells, GuardAt(q), clean'[q] => clean[q],
         /\ job'[q] = job[q] /\ cmds'[q] = cmds[q] /\ from'[q] = from[q]
         /\ todo'[q] = todo[q] /\ stale'[q] = stale[q] /\ exit'[q] = exit[q],
         clean'[q] => UNCHANGED <<source, disk, committed>>
  PROVE  GuardAt(q)'
<1>1. SUFFICES ASSUME clean'[q] PROVE GuardAt(q)'
  BY DEF GuardAt
<1>2. UNCHANGED <<source, disk, committed>> /\ clean[q]
  BY <1>1
<1> QED
  BY <1>1, <1>2 DEF GuardAt, Begun, Emitted

(* A shell that runs verify alone has no other command.                    *)
LEMMA VerifyAlone ==
  ASSUME IInv, NEW p \in Shells, job[p] = <<"verify">>, cmds[p] # <<>>
  PROVE  Current(p) = "verify" /\ Tail(cmds[p]) = <<>>
<1>1. Len(job[p]) = 1 /\ job[p][1] = "verify"
  OBVIOUS
<1>2. Len(cmds[p]) \in Nat /\ Len(cmds[p]) >= 1 /\ Len(cmds[p]) <= 1
  BY <1>1, CommandType DEF IInv, Remaining
<1>3. Len(cmds[p]) = 1 /\ 1 \in 1 .. Len(cmds[p])
  <2>1. \A n \in Nat : n >= 1 /\ n <= 1 => n = 1
    OBVIOUS
  <2>2. Len(cmds[p]) = 1
    BY <1>2, <2>1
  <2> QED
    BY <2>2
<1>4. cmds[p][1] = job[p][Len(job[p]) - Len(cmds[p]) + 1]
  BY <1>3 DEF IInv, Remaining
<1>5. Len(job[p]) - Len(cmds[p]) + 1 = 1
  BY <1>1, <1>3
<1>6. cmds[p] \in Seq(Commands)
  BY DEF IInv, TypeOK
<1>7. Len(Tail(cmds[p])) = 0 /\ Tail(cmds[p]) \in Seq(Commands)
  BY <1>3, <1>6
<1> QED
  BY <1>1, <1>4, <1>5, <1>7 DEF Current

(* What the shell that steps has found of the commit.                      *)
LEMMA OwnGuard ==
  ASSUME IInv, NEW p \in Shells,
         \/ \E j \in Jobs : Run(p, j)
         \/ Begin(p) \/ Truncate(p) \/ Fill(p) \/ Compare(p) \/ End(p) \/ Fail(p)
  PROVE  GuardAt(p)'
<1>1. SUFFICES ASSUME clean'[p], job'[p] = <<"verify">>, exit'[p] # "failed" PROVE GuardAt(p)'
  BY DEF GuardAt
<1>2. GuardAt(p)
  BY DEF IInv, Guarding
<1>3. CASE \E j \in Jobs : Run(p, j)
  <2>1. /\ committed = [source |-> source, disk |-> disk] /\ from'[p] = NoSource
        /\ exit'[p] = "none" /\ UNCHANGED <<source, disk, committed>>
    BY <1>1, <1>3 DEF IInv, TypeOK, Running, Run, tree
  <2>2. committed.source = source /\ committed.disk = disk
    BY <2>1
  <2>3. ~Begun(p)'
    BY <2>1 DEF Begun
  <2> QED
    BY <2>1, <2>2, <2>3 DEF GuardAt
<1>4. ASSUME Begin(p) \/ Truncate(p) \/ Fill(p) \/ Compare(p) \/ End(p)
      PROVE  /\ job' = job /\ clean[p] /\ cmds[p] # <<>> /\ exit[p] = "none"
             /\ Current(p) = "verify" /\ Tail(cmds[p]) = <<>>
             /\ committed.source = source /\ committed.disk = disk
  <2>1. job' = job /\ clean[p] /\ cmds[p] # <<>>
    BY <1>1, <1>4 DEF IInv, TypeOK, Begin, Truncate, Fill, Compare, End, Exit, Disturb, Begun
  <2>2. exit[p] = "none" /\ job[p] = <<"verify">>
    BY <1>1, <2>1 DEF IInv, Running
  <2> QED
    BY <1>2, <2>1, <2>2, VerifyAlone DEF GuardAt
<1>5. CASE Begin(p)
  <2>1. /\ from'[p] = source /\ todo'[p] = Emitted(source) \cap Covered("verify")
        /\ UNCHANGED <<source, disk, committed, exit>>
    BY <1>4, <1>5 DEF IInv, TypeOK, Begin, tree
  <2>2. Emitted(source) \subseteq Covered("verify")
    BY DEF Emitted, Covered
  <2>3. Emitted(source)' = Emitted(source)
    BY <2>1 DEF Emitted
  <2> QED
    BY <1>4, <1>5, <2>1, <2>2, <2>3 DEF GuardAt
<1>6. CASE Truncate(p)
  BY <1>4, <1>6 DEF Truncate
<1>7. CASE Fill(p)
  BY <1>4, <1>7, Opens DEF IInv, Fill
<1>8. CASE Compare(p)
  <2>1. PICK g \in Files : g = First(todo[p])
    BY <1>8, CommandType DEF IInv, Compare
  <2>2. /\ todo'[p] = todo[p] \ {g} /\ UNCHANGED <<source, disk, committed, exit, from, cmds>>
        /\ stale'[p] = (stale[p] \/ disk[g] # Rendered[from[p]][g]) /\ Begun(p)
    BY <1>8, <2>1 DEF IInv, TypeOK, Compare, tree
  <2>3. /\ from[p] = source
        /\ ~stale[p] => \A f \in Emitted(source) \ todo[p] : disk[f] = Rendered[source][f]
    BY <1>1, <1>2, <1>4, <1>8, <2>2 DEF GuardAt
  <2>4. ~stale'[p] => \A f \in Emitted(source) \ todo'[p] : disk[f] = Rendered[source][f]
    BY <2>2, <2>3
  <2>5. Emitted(source)' = Emitted(source)
    BY <2>2 DEF Emitted
  <2> QED
    BY <1>4, <1>8, <2>2, <2>3, <2>4, <2>5 DEF GuardAt
<1>9. CASE End(p)
  <2>1. Exit(p, "ok") /\ ~stale[p] /\ todo[p] = {} /\ Begun(p)
    <3>1. ~Exit(p, "failed")
      BY <1>1 DEF IInv, TypeOK, Exit
    <3> QED
      BY <1>4, <1>9, <3>1 DEF End
  <2>2. \A f \in Emitted(source) : disk[f] = Rendered[source][f]
    BY <1>1, <1>2, <1>4, <1>9, <2>1 DEF GuardAt
  <2>3. UNCHANGED <<source, disk, committed>> /\ from'[p] = NoSource
    BY <2>1 DEF IInv, TypeOK, Exit, tree
  <2>4. Emitted(source)' = Emitted(source) /\ ~Begun(p)'
    BY <2>3 DEF Emitted, Begun
  <2> QED
    BY <1>4, <1>9, <2>2, <2>3, <2>4 DEF GuardAt
<1>10. CASE Fail(p)
  BY <1>1, <1>10 DEF IInv, TypeOK, Fail, Exit
<1> QED
  BY <1>3, <1>5, <1>6, <1>7, <1>8, <1>9, <1>10

(* Every step keeps what is known of the commits.                          *)
LEMMA NextGuarding ==
  ASSUME IInv, [Next]_vars
  PROVE  Guarding'
<1> SUFFICES ASSUME NEW q \in Shells PROVE GuardAt(q)'
  BY DEF Guarding
<1>1. GuardAt(q)
  BY DEF IInv, Guarding
<1>2. CASE UNCHANGED vars
  BY <1>1, <1>2 DEF GuardAt, vars, tree, shell, Emitted, Begun
<1>3. CASE DeveloperActs
  <2>1. ~clean'[q]
    BY <1>3, DeveloperSteps DEF IInv
  <2> QED
    BY <2>1 DEF GuardAt
<1>4. ASSUME NEW p \in Shells,
             \/ \E j \in Jobs : Run(p, j)
             \/ Begin(p) \/ Truncate(p) \/ Fill(p) \/ Compare(p) \/ End(p) \/ Fail(p)
      PROVE  GuardAt(q)'
  <2>1. CASE q = p
    BY <1>4, <2>1, OwnGuard
  <2>2. CASE q # p
    BY <1>1, <1>4, <2>2, OthersKeep, GuardStays DEF IInv
  <2> QED
    BY <2>1, <2>2
<1> QED
  BY <1>2, <1>3, <1>4 DEF Next, DeveloperActs

-----------------------------------------------------------------------------
(* The alarms of verify.                                                   *)

(* A shell that does nothing has the same alarm.                           *)
LEMMA AlarmStays ==
  ASSUME NEW q \in Shells, AlarmAt(q), clean'[q] => clean[q],
         /\ cmds'[q] = cmds[q] /\ from'[q] = from[q] /\ open'[q] = open[q]
         /\ todo'[q] = todo[q] /\ stale'[q] = stale[q],
         clean'[q] => UNCHANGED <<source, disk, committed>>
  PROVE  AlarmAt(q)'
<1>1. SUFFICES ASSUME clean'[q] PROVE AlarmAt(q)'
  BY DEF AlarmAt
<1>2. UNCHANGED <<source, disk, committed>> /\ clean[q]
  BY <1>1
<1> QED
  BY <1>1, <1>2 DEF AlarmAt, Begun, Current, Emitted, CommitIsUpToDate

(* What the shell that steps leaves of an up-to-date checkout.             *)
LEMMA OwnAlarm ==
  ASSUME IInv, NEW p \in Shells, AlarmAt(p),
         \/ \E j \in Jobs : Run(p, j)
         \/ Begin(p) \/ Truncate(p) \/ Fill(p) \/ Compare(p) \/ End(p) \/ Fail(p)
  PROVE  AlarmAt(p)'
<1>1. /\ source' = source /\ committed' = committed
      /\ Emitted(source)' = Emitted(source) /\ Emitted(source) \subseteq Files
      /\ CommitIsUpToDate' = CommitIsUpToDate
  BY DEF Run, Begin, Truncate, Fill, Compare, End, Fail, Exit, tree, Emitted, CommitIsUpToDate
<1>2. SUFFICES ASSUME clean'[p], cmds'[p] # <<>>, CommitIsUpToDate PROVE AlarmAt(p)'
  BY <1>1 DEF AlarmAt
<1>3. CASE \E j \in Jobs : Run(p, j)
  <2>1. committed = [source |-> source, disk |-> disk] /\ from'[p] = NoSource /\ disk' = disk
    BY <1>2, <1>3 DEF IInv, TypeOK, Running, Run, tree
  <2>2. committed.source = source /\ \A f \in Emitted(source) : disk[f] = Rendered[source][f]
    BY <1>2, <2>1 DEF CommitIsUpToDate
  <2>3. ~Begun(p)'
    BY <2>1 DEF Begun
  <2> QED
    BY <1>1, <2>1, <2>2, <2>3 DEF AlarmAt
<1>4. CASE Fail(p)
  BY <1>2, <1>4 DEF IInv, TypeOK, Fail, Exit
<1>5. ASSUME Begin(p) \/ Truncate(p) \/ Fill(p) \/ Compare(p) \/ End(p)
      PROVE  /\ committed.source = source /\ from[p] \in {NoSource, source}
             /\ \A f \in Emitted(source) :
                  disk[f] = Rendered[source][f] \/ (open[p] /\ First(todo[p]) = f)
             /\ Begun(p) => todo[p] \subseteq Emitted(source)
             /\ Begun(p) /\ Current(p) = "verify" => ~stale[p]
  <2>1. clean[p] /\ cmds[p] # <<>>
    BY <1>2, <1>5 DEF IInv, TypeOK, Begin, Truncate, Fill, Compare, End, Exit, Disturb, Begun
  <2> QED
    BY <1>2, <2>1 DEF AlarmAt
<1>6. CASE Begin(p)
  <2>1. /\ from'[p] = source /\ ~stale'[p] /\ disk' = disk /\ open'[p] = open[p]
        /\ todo'[p] \subseteq Emitted(source)
        /\ from[p] = NoSource
    BY <1>6 DEF IInv, TypeOK, Begin, tree
  <2>2. ~open[p]
    BY <2>1, Opens DEF IInv
  <2> QED
    BY <1>1, <1>5, <1>6, <2>1, <2>2 DEF AlarmAt
<1>7. CASE Truncate(p)
  <2>1. PICK g \in Files : g = First(todo[p])
    BY <1>7, CommandType DEF IInv, Truncate
  <2>2. /\ disk' = [disk EXCEPT ![g] = Torn] /\ open'[p] /\ First(todo'[p]) = g /\ ~open[p]
        /\ todo' = todo /\ from[p] # NoSource /\ from' = from /\ cmds' = cmds /\ Current(p) # "verify"
    BY <1>7, <2>1 DEF IInv, TypeOK, Truncate, Begun
  <2>3. \A f \in Emitted(source) : f # g => disk'[f] = Rendered[source][f]
    BY <1>1, <1>5, <1>7, <2>2 DEF IInv, TypeOK
  <2>4. Current(p)' # "verify"
    BY <2>2 DEF Current
  <2>5. todo'[p] \subseteq Emitted(source)
    BY <1>5, <1>7, <2>2 DEF Truncate
  <2> QED
    BY <1>1, <1>5, <1>7, <2>2, <2>3, <2>4, <2>5 DEF AlarmAt
<1>8. CASE Fill(p)
  <2>1. PICK g \in Files : g = First(todo[p])
    BY <1>8, Opens, CommandType DEF IInv, Fill
  <2>2. /\ disk' = [disk EXCEPT ![g] = Rendered[from[p]][g]] /\ todo'[p] = todo[p] \ {g}
        /\ from' = from /\ cmds' = cmds /\ Current(p) # "verify" /\ from[p] # NoSource
    BY <1>8, <2>1, Opens DEF IInv, TypeOK, Fill
  <2>3. \A f \in Emitted(source) : disk'[f] = Rendered[source][f]
    BY <1>1, <1>5, <1>8, <2>1, <2>2 DEF IInv, TypeOK
  <2>5. Begun(p) /\ todo'[p] \subseteq Emitted(source)
    BY <1>5, <1>8, <2>2 DEF Fill
  <2>4. Current(p)' # "verify"
    BY <2>2 DEF Current
  <2> QED
    BY <1>1, <1>5, <1>8, <2>2, <2>3, <2>4, <2>5 DEF AlarmAt
<1>9. CASE Compare(p)
  <2>1. PICK g \in Files : g = First(todo[p]) /\ g \in todo[p]
    BY <1>9, CommandType DEF IInv, Compare
  <2>2. /\ disk' = disk /\ open'[p] = open[p] /\ from' = from /\ cmds' = cmds
        /\ todo'[p] = todo[p] \ {g}
        /\ stale'[p] = (stale[p] \/ disk[g] # Rendered[from[p]][g]) /\ Begun(p)
        /\ Current(p) = "verify"
    BY <1>9, <2>1 DEF IInv, TypeOK, Compare, tree
  <2>3. ~open[p]
    BY <2>2, Opens DEF IInv
  <2>4. \A f \in Emitted(source) : disk[f] = Rendered[source][f]
    BY <1>5, <1>9, <2>3
  <2>5. from[p] = source /\ ~stale[p]
    BY <1>5, <1>9, <2>2 DEF Begun
  <2>6. g \in Emitted(source)
    BY <1>5, <1>9, <2>1, <2>2
  <2> QED
    BY <1>1, <1>5, <1>9, <2>2, <2>4, <2>5, <2>6 DEF AlarmAt
<1>10. CASE End(p)
  <2>1. ~open[p]
    BY <1>10, Opens DEF IInv, End
  <2>2. ~Exit(p, "failed") /\ ~Exit(p, "ok")
    BY <1>2 DEF IInv, TypeOK, Exit
  <2>3. disk' = disk /\ from'[p] = NoSource
    BY <1>10, <2>2 DEF IInv, TypeOK, End, tree
  <2>4. ~Begun(p)'
    BY <2>3 DEF Begun
  <2> QED
    BY <1>1, <1>5, <1>10, <2>1, <2>3, <2>4 DEF AlarmAt
<1> QED
  BY <1>3, <1>4, <1>6, <1>7, <1>8, <1>9, <1>10

(* Every step keeps the alarms justified.                                  *)
LEMMA NextCalm ==
  ASSUME IInv, Calm, [Next]_vars
  PROVE  Calm'
<1> SUFFICES ASSUME NEW q \in Shells PROVE AlarmAt(q)'
  BY DEF Calm
<1>1. AlarmAt(q)
  BY DEF Calm
<1>2. CASE UNCHANGED vars
  BY <1>1, <1>2, AlarmStays DEF vars, tree, shell
<1>3. CASE DeveloperActs
  <2>1. ~clean'[q]
    BY <1>3, DeveloperSteps DEF IInv
  <2> QED
    BY <2>1 DEF AlarmAt
<1>4. ASSUME NEW p \in Shells,
             \/ \E j \in Jobs : Run(p, j)
             \/ Begin(p) \/ Truncate(p) \/ Fill(p) \/ Compare(p) \/ End(p) \/ Fail(p)
      PROVE  AlarmAt(q)'
  <2>1. CASE q = p
    BY <1>1, <1>4, <2>1, OwnAlarm
  <2>2. CASE q # p
    BY <1>1, <1>4, <2>2, OthersKeep, AlarmStays DEF IInv
  <2> QED
    BY <2>1, <2>2
<1> QED
  BY <1>2, <1>3, <1>4 DEF Next, DeveloperActs

-----------------------------------------------------------------------------

(* IInv holds in every reachable state.                                    *)
LEMMA InductiveIInv == Spec => []IInv
<1>1. Init => IInv
  <2> SUFFICES ASSUME Init PROVE IInv
    OBVIOUS
  <2>1. Remaining /\ Running
    BY DEF Init, Remaining, Running
  <2>2. Fresh /\ Guarding
    BY DEF Init, Fresh, FreshAt, Guarding, GuardAt
  <2> QED
    BY <2>1, <2>2, InitType DEF IInv
<1>2. IInv /\ [Next]_vars => IInv'
  <2> SUFFICES ASSUME IInv, [Next]_vars PROVE IInv'
    OBVIOUS
  <2>1. TypeOK'
    BY NextType DEF IInv
  <2>2. Remaining' /\ Running'
    BY NextRemaining DEF IInv
  <2> QED
    BY <2>1, <2>2, NextFresh, NextGuarding DEF IInv
<1> QED
  BY <1>1, <1>2, PTL DEF Spec

(* The state of the shells and of the tree keeps its type; a file is being *)
(* written only by a generate command that has begun (generate.go).        *)
THEOREM TypeCorrect == Spec => []TypeOK
BY InductiveIInv, PTL DEF IInv

(* A job that ended well, and that nobody disturbed, leaves every file it  *)
(* generated or verified up to date (cmdGenerate, cmdVerify).              *)
THEOREM OkIsUpToDate == Spec => []OkMeansUpToDate
<1>1. IInv => OkMeansUpToDate
  <2> SUFFICES ASSUME IInv, NEW p \in Shells, exit[p] = "ok", quiet[p], NEW i \in DOMAIN job[p],
                      NEW f \in Emitted(source) \cap Covered(job[p][i])
               PROVE  UpToDate(f)
    BY DEF OkMeansUpToDate, UpToDate
  <2>1. cmds[p] = <<>>
    BY DEF IInv, Running
  <2>2. job[p] \in Seq(Commands)
    BY DEF IInv, TypeOK
  <2>3. i \in 1 .. Len(job[p]) - Len(cmds[p])
    BY <2>1, <2>2
  <2> QED
    BY <2>3 DEF IInv, Fresh, FreshAt
<1> QED
  BY <1>1, InductiveIInv, PTL

(* verify passes only a commit whose files are what its own source renders.*)
THEOREM VerifyGuards == Spec => []VerifyGuardsTheCommit
<1>1. IInv => VerifyGuardsTheCommit
  <2> SUFFICES ASSUME IInv, NEW p \in Shells, exit[p] = "ok", clean[p], job[p] = <<"verify">>
               PROVE  CommitIsUpToDate
    BY DEF VerifyGuardsTheCommit
  <2>1. /\ committed.source = source /\ committed.disk = disk
        /\ \A f \in Emitted(source) : disk[f] = Rendered[source][f]
    BY DEF IInv, Guarding, GuardAt
  <2> QED
    BY <2>1 DEF CommitIsUpToDate
<1> QED
  BY <1>1, InductiveIInv, PTL

(* verify complains only of a checkout that was touched or is out of date  *)
(* (cmdVerify; set -e of the script).                                      *)
THEOREM AlarmsAreTrue == Spec => []NoFalseAlarm
<1>1. Init => Calm
  BY DEF Init, Calm, AlarmAt
<1>2. Calm => NoFalseAlarm
  BY DEF Calm, AlarmAt, NoFalseAlarm, Begun
<1> QED
  BY <1>1, <1>2, InductiveIInv, NextCalm, PTL DEF Spec
=============================================================================
