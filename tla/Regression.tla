----------------------------- MODULE Regression -----------------------------
(***************************************************************************)
(* regression() of model/regression.py: a pipeline of R scripts that hand  *)
(* each other temporary files.  The samples are split by rows, each part   *)
(* by columns in a pool of processes, the columns are tried in a second    *)
(* pool, and the selected ones merged, cut out of the rows and fitted.     *)
(* Several runs may share a working directory, and with it "tmp".          *)
(*                                                                         *)
(* os.tempnam gives names that nothing else has, in "tmp" if that exists   *)
(* when the name is made and elsewhere if not; the file is made later.     *)
(* The samples themselves are left out.                                    *)
(***************************************************************************)
EXTENDS Integers, FiniteSets

CONSTANTS
  Runs,       \* the calls of regression() in one working directory
  Rows, Cols, \* --logit_split_rows, --logit_split_cols
  Workers,    \* --max_cpu
  RemoveTmp,  \* --remove_tmp_data
  UsePca      \* the argument use_pca

ASSUME RegressionAssumption ==
  /\ {Rows, Cols, Workers} \subseteq Nat \ {0}
  /\ {RemoveTmp, UsePca} \subseteq BOOLEAN

VARIABLES
  stage,      \* where each run is
  task,       \* how far each R script of each run is
  files,      \* the <<run, name>> of the files there are
  inTmp,      \* the <<run, name>> of the names that were made in "tmp"
  dir         \* whether "tmp" exists

vars == <<stage, task, files, inTmp, dir>>

Pools == {"split", "select"}
Steps == Pools \cup {"merge", "strip", "model"}
Over  == {"returned", "failed"}

Tasks == {<<"split", i>> : i \in 1 .. Rows} \cup {<<"select", j>> : j \in 1 .. Cols}
           \cup {<<s, 1>> : s \in Steps \ Pools}

TasksOf(s) == {t \in Tasks : t[1] = s}

Row(i)     == <<"row", i, 0>>
Col(i, j)  == <<"col", i, j>>
Feature(j) == <<"feature", 0, j>>
Merged     == <<"merged", 0, 0>>
Stripped   == <<"stripped", 0, 0>>
Model      == <<"model", 0, 0>>
ModelError == <<"model.error", 0, 0>>
Script(t)  == <<"script", t>>

AllRows     == {Row(i) : i \in 1 .. Rows}
AllCols     == {Col(i, j) : i \in 1 .. Rows, j \in 1 .. Cols}
AllFeatures == {Feature(j) : j \in 1 .. Cols}
Temps       == AllRows \cup AllCols \cup AllFeatures \cup {Merged, Stripped}
                 \cup {Script(t) : t \in Tasks}
Names       == Temps \cup {Model, ModelError}

(* The files that a script reads.                                          *)
Inputs(t) ==
  CASE t[1] = "split"  -> {Row(t[2])}
    [] t[1] = "select" -> {Col(i, t[2]) : i \in 1 .. Rows}
    [] t[1] = "merge"  -> AllFeatures
    [] t[1] = "strip"  -> AllRows \cup {Merged}
    [] t[1] = "model"  -> {Stripped}

(* Plausible bug: logit_glm.r says nothing of a fit that did not converge. *)
SilentResults(t) ==
  CASE t[1] = "split"  -> {{Col(t[2], j) : j \in 1 .. Cols}}
    [] t[1] = "select" -> {{Feature(t[2])}}
    [] t[1] = "merge"  -> {{Merged}}
    [] t[1] = "strip"  -> {{Stripped}}
    [] t[1] = "model"  -> {{Model}} \cup IF UsePca THEN {{}} ELSE {}

(* What it may have written when it succeeds; a fit may fail to converge.  *)
Results(t) ==
  CASE t[1] = "split"  -> {{Col(t[2], j) : j \in 1 .. Cols}}
    [] t[1] = "select" -> {{Feature(t[2])}}
    [] t[1] = "merge"  -> {{Merged}}
    [] t[1] = "strip"  -> {{Stripped}}
    [] t[1] = "model"  -> {{Model}} \cup IF UsePca THEN {{ModelError}} ELSE {}

(* The files that are removed when a step is through (remove_file).        *)
Removed(s) == CASE s = "split"  -> {}
                [] s = "select" -> AllCols
                [] s = "merge"  -> AllFeatures
                [] s = "strip"  -> AllRows \cup {Merged}
                [] s = "model"  -> {Stripped}

After(s) == CASE s = "split" -> "select" [] s = "select" -> "merge"
              [] s = "merge" -> "strip"  [] s = "strip"  -> "model"
              [] s = "model" -> "rmdir"

Of(p, names) == {p} \X names
Has(p, names) == Of(p, names) \subseteq files

(* Plausible bug: names that are not unique to a run.                      *)
NameShared(p, names) == inTmp' = IF dir THEN inTmp \cup names ELSE inTmp

(* get_tmpfile: a name in "tmp" when the directory is there.               *)
Name(p, names) == inTmp' = IF dir THEN inTmp \cup Of(p, names) ELSE inTmp

(* open(name, "w"), here or in R: a name in "tmp" needs the directory.     *)
MayCreate(p, names) == dir \/ inTmp \cap Of(p, names) = {}

Init == /\ stage = [p \in Runs |-> "mkdir"]
        /\ task = [p \in Runs |-> [t \in Tasks |-> "todo"]]
        /\ files = {} /\ inTmp = {} /\ dir = FALSE

Goto(p, s) == stage' = [stage EXCEPT ![p] = s]
Mark(p, t, how) == task' = [task EXCEPT ![p][t] = how]

(* os.mkdir("tmp"), or it is there already.                                *)
MakeDir(p) == /\ stage[p] = "mkdir"
              /\ dir' = TRUE
              /\ Goto(p, "rows")
              /\ UNCHANGED <<task, files, inTmp>>

(* split_rows: the parts are named and written one after the other.        *)
NextRow(p, i) == /\ ~Has(p, {Row(i)})
                 /\ \A k \in 1 .. i - 1 : Has(p, {Row(k)})

NameRow(p) == /\ stage[p] = "rows"
              /\ \E i \in 1 .. Rows : NextRow(p, i) /\ Name(p, {Row(i)})
              /\ Goto(p, "write")
              /\ UNCHANGED <<task, files, dir>>

WriteRow(p) ==
  /\ stage[p] = "write"
  /\ \E i \in 1 .. Rows :
       /\ NextRow(p, i)
       /\ \/ /\ MayCreate(p, {Row(i)})
             /\ files' = files \cup Of(p, {Row(i)})
             /\ \E s \in {IF i = Rows THEN "split" ELSE "rows", "failed"} : Goto(p, s)
          \/ /\ UNCHANGED files
             /\ Goto(p, "failed")
  /\ UNCHANGED <<task, inTmp, dir>>
-----------------------------------------------------------------------------
(***************************************************************************)
(* A script belongs to the step the run is at.  When one of a pool fails   *)
(* the run goes on at once (multiprocessing reports the first failure) and *)
(* the other processes of the pool are not stopped.                        *)
(***************************************************************************)
Failed(p, s) == \E t \in TasksOf(s) : task[p][t] = "failed"
Current(p, s) == \/ stage[p] = s
                 \/ stage[p] = "failed" /\ Failed(p, s)

Busy(p, s) == {t \in TasksOf(s) : task[p][t] \in {"named", "started"}}

(* A process of the pool takes the next script; run_r names its file.      *)
Take(p, t) ==
  /\ Current(p, t[1]) /\ task[p][t] = "todo"
  /\ \A u \in TasksOf(t[1]) : u[2] < t[2] => task[p][u] # "todo"
  /\ Cardinality(Busy(p, t[1])) < Workers
  /\ Mark(p, t, "named")
  /\ Name(p, {Script(t)} \cup CASE t[1] \in {"split", "merge", "strip"} -> UNION Results(t)
                                [] OTHER -> {})
  /\ UNCHANGED <<stage, files, dir>>

(* The script is written and R started.                                    *)
StartR(p, t) ==
  /\ task[p][t] = "named"
  /\ \/ /\ MayCreate(p, {Script(t)})
        /\ files' = files \cup Of(p, {Script(t)})
        /\ \E how \in {"started", "failed"} : Mark(p, t, how)
     \/ /\ UNCHANGED files
        /\ Mark(p, t, "failed")
  /\ UNCHANGED <<stage, inTmp, dir>>

(* Plausible bug: a script that did its work stays.                        *)
KeepsScript(p, t) ==
  /\ task[p][t] = "started"
  /\ Has(p, Inputs(t))
  /\ \E made \in Results(t) : /\ MayCreate(p, made)
                              /\ files' = files \cup Of(p, made)
  /\ Mark(p, t, "done")
  /\ UNCHANGED <<stage, inTmp, dir>>

(* Plausible bug: the exit status of R is not looked at.                   *)
StatusIgnored(p, t) ==
  /\ task[p][t] = "started"
  /\ files' = files \ IF RemoveTmp THEN Of(p, {Script(t)}) ELSE {}
  /\ Mark(p, t, "done")
  /\ UNCHANGED <<stage, inTmp, dir>>

(* R exits with 0: everything was read and written; the script is removed. *)
RSucceeds(p, t) ==
  /\ task[p][t] = "started"
  /\ Has(p, Inputs(t))
  /\ \E made \in Results(t) :
       /\ MayCreate(p, made)
       /\ files' = (files \cup Of(p, made)) \ IF RemoveTmp THEN Of(p, {Script(t)}) ELSE {}
  /\ Mark(p, t, "done")
  /\ UNCHANGED <<stage, inTmp, dir>>

(* R exits with another status, with a part of the output written.         *)
RFails(p, t) ==
  /\ task[p][t] = "started"
  /\ \E r \in Results(t) : \E made \in SUBSET r :
       /\ MayCreate(p, made)
       /\ files' = files \cup Of(p, made)
  /\ Mark(p, t, "failed")
  /\ UNCHANGED <<stage, inTmp, dir>>
-----------------------------------------------------------------------------
(* Plausible bug: the run goes on with the first result of a pool.         *)
FirstThrough(p, s) == \E t \in TasksOf(s) : task[p][t] = "done"

(* Pool.map returns when all its results are there.                        *)
Through(p, s) == \A t \in TasksOf(s) : task[p][t] = "done"

(* The step is through: its files are removed, the next one prepared.      *)
Advance(p) ==
  /\ stage[p] \in Steps /\ Through(p, stage[p])
  /\ LET gone == IF RemoveTmp THEN Removed(stage[p]) ELSE {} IN
       /\ files' = files \ Of(p, gone)
       /\ Goto(p, IF Has(p, gone) THEN After(stage[p]) ELSE "failed")
  /\ IF stage[p] = "split" THEN Name(p, AllFeatures) ELSE UNCHANGED inTmp
  /\ UNCHANGED <<task, dir>>

(* Plausible bug: a process that dies takes its script along unreported.   *)
GiveUpAlone(p) == /\ stage[p] \in Steps \ Pools /\ Failed(p, stage[p])
                  /\ Goto(p, "failed")
                  /\ UNCHANGED <<task, files, inTmp, dir>>

(* The exception of a script is raised in the run.                         *)
GiveUp(p) == /\ stage[p] \in Steps /\ Failed(p, stage[p])
             /\ Goto(p, "failed")
             /\ UNCHANGED <<task, files, inTmp, dir>>

(* Plausible bug: only the run's own files keep the directory.             *)
OwnFilesOnly(p) == /\ stage[p] = "rmdir"
                   /\ dir' = (dir /\ ~(RemoveTmp /\ files \cap inTmp \cap Of(p, Names) = {}))
                   /\ Goto(p, "returned")
                   /\ UNCHANGED <<task, files, inTmp>>

(* os.removedirs: only an empty directory goes.                            *)
RemoveDir(p) == /\ stage[p] = "rmdir"
                /\ dir' = (dir /\ ~(RemoveTmp /\ files \cap inTmp = {}))
                /\ Goto(p, "returned")
                /\ UNCHANGED <<task, files, inTmp>>

TaskStep(p, t) == Take(p, t) \/ StartR(p, t) \/ RSucceeds(p, t) \/ RFails(p, t)
Step(p) == NameRow(p) \/ WriteRow(p) \/ Advance(p) \/ GiveUp(p) \/ RemoveDir(p)

Next == \E p \in Runs : \/ MakeDir(p) \/ Step(p)
                        \/ \E t \in Tasks : TaskStep(p, t)

Spec == Init /\ [][Next]_vars

(* A run that has begun and the processes of a pool it waits for are       *)
(* scheduled, and R ends.  Runs need not begin, nor abandoned scripts go on.*)
LiveSpec ==
  /\ Spec
  /\ \A p \in Runs :
       /\ WF_vars(Step(p))
       /\ \A t \in Tasks : WF_vars(stage[p] # "failed" /\ TaskStep(p, t))
-----------------------------------------------------------------------------
(* Types.                                                                  *)
TypeOK ==
  /\ stage \in [Runs -> Steps \cup Over \cup {"mkdir", "rows", "write", "rmdir"}]
  /\ task \in [Runs -> [Tasks -> {"todo", "named", "started", "done", "failed"}]]
  /\ files \subseteq Runs \X Names
  /\ inTmp \subseteq Runs \X Temps
  /\ dir \in BOOLEAN

(* remove_file never takes a file that a script of the run is reading or   *)
(* has still to read, whatever the order in which the processes of the     *)
(* pools come through.                                                     *)
NeededFilesStay ==
  [][\A p \in Runs, t \in Tasks :
        task[p][t] \in {"todo", "named", "started"}
          => \A n \in Inputs(t) : <<p, n>> \in files => <<p, n>> \in files']_vars

(* A run that returns has used up all its temporary files: none of the     *)
(* names that its processes made is left in "tmp" (--remove_tmp_data).     *)
ReturnLeavesNothing ==
  \A p \in Runs : RemoveTmp /\ stage[p] \in {"rmdir", "returned"}
                    => files \cap Of(p, Temps) = {}

(* A run that returns has a model, or beside it the mark of one that did   *)
(* not converge: no failure of one of the processes is lost on the way.    *)
ReturnHasResult ==
  \A p \in Runs : stage[p] \in {"rmdir", "returned"}
                    => Of(p, {Model, ModelError}) \cap files # {}

(* A run that has its first file in "tmp" keeps the directory to its end,  *)
(* whichever other runs end meanwhile: from then on it always has a file   *)
(* there.                                                                  *)
DirStays == \A p \in Runs :
              stage[p] \in Steps /\ <<p, Row(1)>> \in inTmp => dir

(* Each file that a run removes is there: a run fails because a script     *)
(* failed or while it writes the rows, never in remove_file.               *)
RemovalsSucceed == \A p \in Runs :
  stage[p] = "failed" => \/ \E t \in Tasks : task[p][t] = "failed"
                         \/ \A t \in Tasks : task[p][t] = "todo"

(* A run that has begun returns or raises, however its processes fail.     *)
RunsEnd == \A p \in Runs : stage[p] # "mkdir" ~> stage[p] \in Over
=============================================================================
