-------------------------- MODULE Regression_proofs --------------------------
(***************************************************************************)
(* Theorems about the temporary files of regression(), for any number of   *)
(* runs, parts and processes.                                              *)
(***************************************************************************)
EXTENDS Regression, TLAPS

Stages == Steps \cup Over \cup {"mkdir", "rows", "write", "rmdir"}
States == {"todo", "named", "started", "done", "failed"}

(* The steps that a run has behind it, and those it has before it.         *)
Past(s) == CASE s \in {"mkdir", "rows", "write", "split"} -> {}
             [] s = "select" -> {"split"}
             [] s = "merge"  -> {"split", "select"}
             [] s = "strip"  -> {"split", "select", "merge"}
             [] s = "model"  -> {"split", "select", "merge", "strip"}
             [] OTHER        -> Steps

Future(s) == CASE s \in {"mkdir", "rows", "write"} -> Steps
               [] s = "split"  -> {"select", "merge", "strip", "model"}
               [] s = "select" -> {"merge", "strip", "model"}
               [] s = "merge"  -> {"strip", "model"}
               [] s = "strip"  -> {"model"}
               [] OTHER        -> {}

(* The steps whose results are still there when a run is at s.             *)
Useful(s) == CASE s = "split"  -> {"split"}
               [] s = "select" -> {"split", "select"}
               [] s = "merge"  -> {"select", "merge"}
               [] s = "strip"  -> {"merge", "strip"}
               [] s = "model"  -> {"strip"}
               [] OTHER        -> {}

(* What may be left in a run at s, beside the scripts being run.           *)
Left(s) == CASE s \in {"rows", "write"} -> AllRows
             [] s = "split"  -> AllRows \cup AllCols
             [] s = "select" -> AllRows \cup AllCols \cup AllFeatures
             [] s = "merge"  -> AllRows \cup AllFeatures \cup {Merged}
             [] s = "strip"  -> AllRows \cup {Merged, Stripped}
             [] s = "model"  -> {Stripped}
             [] OTHER        -> {}

OrderInv == \A p \in Runs : stage[p] # "failed" =>
              \A t \in Tasks : /\ t[1] \in Past(stage[p]) => task[p][t] = "done"
                               /\ t[1] \in Future(stage[p]) => task[p][t] = "todo"

KeptInv == \A p \in Runs :
  /\ stage[p] \in {"split", "select", "merge", "strip"} => Has(p, AllRows)
  /\ \A t \in Tasks : task[p][t] = "done" /\ t[1] \in Useful(stage[p])
                        => Has(p, UNION Results(t))

LeftInv == RemoveTmp => \A p \in Runs : stage[p] # "failed" =>
  \A n \in Temps : <<p, n>> \in files =>
    \/ n \in Left(stage[p])
    \/ \E t \in Tasks : n = Script(t) /\ task[p][t] \in {"started", "failed"}
-----------------------------------------------------------------------------
(* Names of different kinds are different.                                 *)
LEMMA Kinds ==
  /\ \A n \in AllRows : n[1] = "row"
  /\ \A n \in AllCols : n[1] = "col"
  /\ \A n \in AllFeatures : n[1] = "feature"
  /\ Merged[1] = "merged" /\ Stripped[1] = "stripped"
  /\ Model[1] = "model" /\ ModelError[1] = "model.error"
  /\ \A t : Script(t)[1] = "script"
BY DEF AllRows, AllCols, AllFeatures, Row, Col, Feature, Merged, Stripped, Model,
       ModelError, Script

(* A task is known by its step.                                            *)
LEMMA TaskSteps ==
  /\ \A t \in Tasks : t[1] \in Steps
  /\ \A t \in Tasks : t[1] = "split" => t[2] \in 1 .. Rows
  /\ \A t \in Tasks : t[1] = "select" => t[2] \in 1 .. Cols
  /\ \A i \in 1 .. Rows : <<"split", i>> \in Tasks
  /\ \A j \in 1 .. Cols : <<"select", j>> \in Tasks
  /\ \A s \in Steps \ Pools : <<s, 1>> \in Tasks
BY DEF Tasks, Steps, Pools

(* The files each script makes are those of its step.                      *)
LEMMA ResultsByStep ==
  ASSUME NEW t \in Tasks
  PROVE  /\ t[1] = "split"  => Results(t) # {} /\ \A r \in Results(t) : r = UNION Results(t) /\ r \subseteq AllCols
         /\ t[1] = "select" => Results(t) # {} /\ \A r \in Results(t) : r = UNION Results(t) /\ r \subseteq AllFeatures
         /\ t[1] = "merge"  => Results(t) = {{Merged}} /\ UNION Results(t) = {Merged}
         /\ t[1] = "strip"  => Results(t) = {{Stripped}} /\ UNION Results(t) = {Stripped}
         /\ t[1] = "model"  => \A r \in Results(t) : r \subseteq {Model, ModelError}
         /\ \A r \in Results(t) : r \subseteq UNION Results(t)
<1>1. CASE t[1] = "split"
  <2>1. Results(t) = {{Col(t[2], j) : j \in 1 .. Cols}}
    BY <1>1 DEF Results
  <2>2. {Col(t[2], j) : j \in 1 .. Cols} \subseteq AllCols
    BY <1>1, TaskSteps DEF AllCols
  <2> QED BY <1>1, <2>1, <2>2
<1>2. CASE t[1] = "select"
  <2>1. Results(t) = {{Feature(t[2])}}
    BY <1>2 DEF Results
  <2>2. Feature(t[2]) \in AllFeatures
    BY <1>2, TaskSteps DEF AllFeatures
  <2> QED BY <1>2, <2>1, <2>2
<1>3. CASE t[1] = "merge"
  BY <1>3 DEF Results
<1>4. CASE t[1] = "strip"
  BY <1>4 DEF Results
<1>5. CASE t[1] = "model"
  BY <1>5 DEF Results
<1> QED BY <1>1, <1>2, <1>3, <1>4, <1>5, TaskSteps DEF Steps, Pools

(* Where a step is among the stages.                                       *)
LEMMA StepOrder ==
  /\ \A s \in Steps : /\ Past(s) \cup {s} \cup Future(s) = Steps
                      /\ s \notin Future(s) /\ s \notin Past(s)
                      /\ Past(After(s)) = Past(s) \cup {s}
                      /\ Future(After(s)) \subseteq Future(s)
                      /\ After(s) \in {"select", "merge", "strip", "model", "rmdir"}
  /\ \A s \in {"mkdir", "rows", "write"} : Past(s) = {} /\ Future(s) = Steps
  /\ \A s \in {"rmdir", "returned"} : Past(s) = Steps /\ Future(s) = {}
<1>1. /\ Past("split") = {} /\ Past("select") = {"split"}
      /\ Past("merge") = {"split", "select"}
      /\ Past("strip") = {"split", "select", "merge"}
      /\ Past("model") = {"split", "select", "merge", "strip"}
      /\ Past("rmdir") = Steps /\ Past("returned") = Steps
      /\ Past("mkdir") = {} /\ Past("rows") = {} /\ Past("write") = {}
  BY DEF Past
<1>2. /\ Future("split") = {"select", "merge", "strip", "model"}
      /\ Future("select") = {"merge", "strip", "model"}
      /\ Future("merge") = {"strip", "model"} /\ Future("strip") = {"model"}
      /\ Future("model") = {} /\ Future("rmdir") = {} /\ Future("returned") = {}
      /\ Future("mkdir") = Steps /\ Future("rows") = Steps /\ Future("write") = Steps
  BY DEF Future
<1>3. /\ After("split") = "select" /\ After("select") = "merge"
      /\ After("merge") = "strip" /\ After("strip") = "model"
      /\ After("model") = "rmdir"
  BY DEF After
<1> QED BY <1>1, <1>2, <1>3 DEF Steps, Pools

(* The temporary names a script makes are temporary files' names.          *)
LEMMA ResultsAreNames ==
  ASSUME NEW t \in Tasks
  PROVE  /\ UNION Results(t) \subseteq Names
         /\ t[1] # "model" => UNION Results(t) \subseteq Temps
<1>1. CASE t[1] \in {"split", "select"}
  BY <1>1, ResultsByStep DEF Names, Temps
<1>2. CASE t[1] \in {"merge", "strip"}
  BY <1>2, ResultsByStep DEF Names, Temps
<1>3. CASE t[1] = "model"
  BY <1>3, ResultsByStep DEF Names
<1> QED BY <1>1, <1>2, <1>3, TaskSteps DEF Steps, Pools

LEMMA NameTypes ==
  ASSUME TypeOK, NEW p \in Runs, NEW names \in SUBSET Temps, Name(p, names)
  PROVE  inTmp' \subseteq Runs \X Temps
BY DEF TypeOK, Name, Of

(* What a step of a script changes.                                        *)
LEMMA TaskEffect ==
  ASSUME TypeOK, NEW p \in Runs, NEW t \in Tasks, TaskStep(p, t)
  PROVE  /\ UNCHANGED <<stage, dir>>
         /\ task[p][t] \in {"todo", "named", "started"}
         /\ task[p][t] = "todo" => Current(p, t[1])
         /\ \E how \in States \ {"todo"} : task' = [task EXCEPT ![p][t] = how]
         /\ \A q \in Runs, u \in Tasks : q # p \/ u # t => task'[q][u] = task[q][u]
<1>1. \E how \in States \ {"todo"} : Mark(p, t, how)
  BY DEF TaskStep, Take, StartR, RSucceeds, RFails, States
<1>2. PICK how \in States \ {"todo"} : task' = [task EXCEPT ![p][t] = how]
  BY <1>1 DEF Mark
<1>3. \A q \in Runs, u \in Tasks : q # p \/ u # t => task'[q][u] = task[q][u]
  BY <1>2 DEF TypeOK
<1>4. UNCHANGED <<stage, dir>>
  BY DEF TaskStep, Take, StartR, RSucceeds, RFails
<1>5. /\ task[p][t] \in {"todo", "named", "started"}
      /\ task[p][t] = "todo" => Current(p, t[1])
  BY DEF TaskStep, Take, StartR, RSucceeds, RFails
<1> QED BY <1>2, <1>3, <1>4, <1>5

(* What it changes among the files: its own script and its results.        *)
LEMMA TaskFiles ==
  ASSUME TypeOK, NEW p \in Runs, NEW t \in Tasks, TaskStep(p, t)
  PROVE  /\ files' \subseteq files \cup Of(p, {Script(t)} \cup UNION Results(t))
         /\ files \subseteq files' \cup Of(p, {Script(t)})
         /\ inTmp' \subseteq Runs \X Temps
<1>1. CASE Take(p, t)
  <2>1. {Script(t)} \subseteq Temps
    BY DEF Temps
  <2>2. t[1] \in {"split", "merge", "strip"} => UNION Results(t) \subseteq Temps
    BY ResultsAreNames
  <2>3. inTmp' \subseteq Runs \X Temps
    <3> DEFINE made == CASE t[1] \in {"split", "merge", "strip"} -> UNION Results(t)
                         [] OTHER -> {}
    <3>1. made \subseteq Temps
      BY <2>2
    <3>2. Name(p, {Script(t)} \cup made)
      BY <1>1 DEF Take
    <3> HIDE DEF made
    <3>3. {Script(t)} \cup made \in SUBSET Temps
      BY <2>1, <3>1
    <3> QED BY <3>2, <3>3, NameTypes
  <2> QED BY <1>1, <2>3 DEF Take
<1>2. CASE StartR(p, t)
  BY <1>2 DEF StartR, TypeOK, Of
<1>3. CASE RSucceeds(p, t)
  <2>1. PICK made \in Results(t) :
          files' = (files \cup Of(p, made)) \ IF RemoveTmp THEN Of(p, {Script(t)}) ELSE {}
    BY <1>3 DEF RSucceeds
  <2>2. made \subseteq UNION Results(t)
    OBVIOUS
  <2>3. UNCHANGED inTmp
    BY <1>3 DEF RSucceeds
  <2> QED BY <2>1, <2>2, <2>3 DEF Of, TypeOK
<1>4. CASE RFails(p, t)
  <2>1. PICK r \in Results(t) : \E made \in SUBSET r : files' = files \cup Of(p, made)
    BY <1>4 DEF RFails
  <2>2. UNCHANGED inTmp
    BY <1>4 DEF RFails
  <2> QED BY <2>1, <2>2 DEF Of, TypeOK
<1> QED BY <1>1, <1>2, <1>3, <1>4 DEF TaskStep

(* TypeOK is kept by every step.                                           *)
LEMMA TypeStep == TypeOK /\ [Next]_vars => TypeOK'
<1> SUFFICES ASSUME TypeOK, [Next]_vars PROVE TypeOK'
  OBVIOUS
<1>1. ASSUME NEW p \in Runs, NEW t \in Tasks, TaskStep(p, t) PROVE TypeOK'
  <2>1. \E how \in States : task' = [task EXCEPT ![p][t] = how]
    BY <1>1, TaskEffect
  <2>2. task' \in [Runs -> [Tasks -> States]]
    BY <2>1 DEF TypeOK, States
  <2>3. Of(p, {Script(t)} \cup UNION Results(t)) \subseteq Runs \X Names
    BY ResultsAreNames DEF Of, Names, Temps
  <2>4. files' \subseteq Runs \X Names /\ inTmp' \subseteq Runs \X Temps
    BY <1>1, <2>3, TaskFiles DEF TypeOK
  <2>5. UNCHANGED <<stage, dir>>
    BY <1>1, TaskEffect
  <2> QED BY <2>2, <2>4, <2>5 DEF TypeOK, States
<1>2. ASSUME NEW p \in Runs, MakeDir(p) PROVE TypeOK'
  BY <1>2 DEF TypeOK, MakeDir, Goto
<1>3. ASSUME NEW p \in Runs, NameRow(p) PROVE TypeOK'
  <2>1. PICK i \in 1 .. Rows : Name(p, {Row(i)})
    BY <1>3 DEF NameRow
  <2>2. {Row(i)} \in SUBSET Temps
    BY DEF Temps, AllRows
  <2>3. inTmp' \subseteq Runs \X Temps
    BY <2>1, <2>2, NameTypes
  <2> QED BY <1>3, <2>3 DEF TypeOK, NameRow, Goto
<1>4. ASSUME NEW p \in Runs, WriteRow(p) PROVE TypeOK'
  <2>1. PICK i \in 1 .. Rows : files' \subseteq files \cup Of(p, {Row(i)})
    BY <1>4 DEF WriteRow
  <2>2. Row(i) \in Names
    BY DEF Names, Temps, AllRows
  <2>3. files' \subseteq Runs \X Names
    BY <2>1, <2>2 DEF TypeOK, Of
  <2>4. \E s \in {"split", "rows", "failed"} : Goto(p, s)
    BY <1>4 DEF WriteRow
  <2> QED BY <1>4, <2>3, <2>4 DEF TypeOK, WriteRow, Goto, Over, Steps, Pools
<1>5. ASSUME NEW p \in Runs, Advance(p) PROVE TypeOK'
  <2>1. stage[p] \in Steps
    BY <1>5 DEF Advance
  <2>2. \E s \in Stages : Goto(p, s)
    <3>1. After(stage[p]) \in Stages
      BY <2>1, StepOrder DEF Stages, Steps, Pools
    <3> QED BY <1>5, <3>1 DEF Advance, Stages, Over
  <2>3. files' \subseteq files
    BY <1>5 DEF Advance
  <2>4. AllFeatures \in SUBSET Temps
    BY DEF Temps
  <2>5. inTmp' \subseteq Runs \X Temps
    BY <1>5, <2>4, NameTypes DEF Advance, TypeOK
  <2> QED BY <1>5, <2>2, <2>3, <2>5 DEF TypeOK, Advance, Goto, Stages
<1>6. ASSUME NEW p \in Runs, GiveUp(p) PROVE TypeOK'
  BY <1>6 DEF TypeOK, GiveUp, Goto, Over
<1>7. ASSUME NEW p \in Runs, RemoveDir(p) PROVE TypeOK'
  BY <1>7 DEF TypeOK, RemoveDir, Goto, Over
<1>8. CASE UNCHANGED vars
  BY <1>8 DEF TypeOK, vars
<1> QED BY <1>1, <1>2, <1>3, <1>4, <1>5, <1>6, <1>7, <1>8 DEF Next, Step

LEMMA TypeInit == Init => TypeOK
<1> SUFFICES ASSUME Init PROVE TypeOK
  OBVIOUS
<1>1. [t \in Tasks |-> "todo"] \in [Tasks -> States]
  BY DEF States
<1>2. task \in [Runs -> [Tasks -> States]]
  BY <1>1 DEF Init
<1> QED BY <1>2 DEF Init, TypeOK, States

(* Every reachable state of the pipeline has the types of TypeOK.          *)
THEOREM TypeCorrect == Spec => []TypeOK
BY TypeInit, TypeStep, PTL DEF Spec
-----------------------------------------------------------------------------
(* A script that has been taken and is not through belongs to the step at  *)
(* which its run is.                                                       *)
LEMMA TakenIsCurrent ==
  ASSUME TypeOK, OrderInv, NEW p \in Runs, NEW t \in Tasks,
         stage[p] # "failed", TaskStep(p, t)
  PROVE  stage[p] = t[1]
<1>1. t[1] \in Steps
  BY TaskSteps
<1>2. CASE task[p][t] = "todo"
  BY <1>2, TaskEffect DEF Current
<1>3. CASE task[p][t] \in {"named", "started"}
  <2>1. t[1] \notin Past(stage[p]) /\ t[1] \notin Future(stage[p])
    BY <1>3 DEF OrderInv
  <2>2. stage[p] \in Stages
    BY DEF TypeOK, Stages
  <2>3. stage[p] \in Steps
    BY <1>1, <2>1, <2>2, StepOrder DEF Stages, Over
  <2> QED BY <1>1, <2>1, <2>3, StepOrder
<1> QED BY <1>2, <1>3, TaskEffect

(* The scripts of the steps behind a run are done, of those before it not  *)
(* yet taken.                                                              *)
LEMMA OrderStep == TypeOK /\ OrderInv /\ [Next]_vars => OrderInv'
<1> SUFFICES ASSUME TypeOK, OrderInv, [Next]_vars PROVE OrderInv'
  OBVIOUS
<1>1. ASSUME NEW p \in Runs, NEW t \in Tasks, TaskStep(p, t) PROVE OrderInv'
  <2> SUFFICES ASSUME NEW q \in Runs, stage'[q] # "failed", NEW u \in Tasks
               PROVE  /\ u[1] \in Past(stage'[q]) => task'[q][u] = "done"
                      /\ u[1] \in Future(stage'[q]) => task'[q][u] = "todo"
    BY DEF OrderInv
  <2>1. stage' = stage
    BY <1>1, TaskEffect
  <2>2. CASE q # p \/ u # t
    <3>1. task'[q][u] = task[q][u]
      BY <1>1, <2>2, TaskEffect
    <3> QED BY <2>1, <3>1 DEF OrderInv
  <2>3. CASE q = p /\ u = t
    <3>1. stage[p] = t[1]
      BY <1>1, <2>1, <2>3, TakenIsCurrent
    <3>2. t[1] \in Steps
      BY TaskSteps
    <3>3. t[1] \notin Past(t[1]) /\ t[1] \notin Future(t[1])
      BY <3>2, StepOrder
    <3> QED BY <2>1, <2>3, <3>1, <3>3
  <2> QED BY <2>2, <2>3
<1>2. ASSUME NEW p \in Runs, NEW s \in Stages, Goto(p, s), UNCHANGED task,
             s # "failed" => /\ \/ Past(s) \subseteq Past(stage[p])
                                \/ /\ Through(p, stage[p])
                                   /\ Past(s) = Past(stage[p]) \cup {stage[p]}
                             /\ Future(s) \subseteq Future(stage[p])
                             /\ stage[p] # "failed"
      PROVE OrderInv'
  <2> SUFFICES ASSUME NEW q \in Runs, stage'[q] # "failed", NEW u \in Tasks
               PROVE  /\ u[1] \in Past(stage'[q]) => task'[q][u] = "done"
                      /\ u[1] \in Future(stage'[q]) => task'[q][u] = "todo"
    BY DEF OrderInv
  <2>1. stage'[q] = IF q = p THEN s ELSE stage[q]
    BY <1>2 DEF Goto, TypeOK
  <2>2. CASE q # p
    BY <1>2, <2>1, <2>2 DEF OrderInv
  <2>3. CASE q = p
    <3>1. u[1] \in Past(s) => \/ u[1] \in Past(stage[p])
                              \/ Through(p, stage[p]) /\ u[1] = stage[p]
      BY <1>2, <2>1, <2>3
    <3> QED BY <1>2, <2>1, <2>3, <3>1 DEF OrderInv, Through, TasksOf
  <2> QED BY <2>2, <2>3
<1>3. ASSUME NEW p \in Runs, MakeDir(p) PROVE OrderInv'
  <2>1. Goto(p, "rows") /\ UNCHANGED task /\ stage[p] = "mkdir"
    BY <1>3 DEF MakeDir
  <2>2. Past("rows") \subseteq Past(stage[p]) /\ Future("rows") \subseteq Future(stage[p])
    BY <2>1, StepOrder
  <2>3. "rows" \in Stages /\ stage[p] # "failed"
    BY <2>1 DEF Stages
  <2> QED BY <2>1, <2>2, <2>3, <1>2
<1>4. ASSUME NEW p \in Runs, NameRow(p) PROVE OrderInv'
  <2>1. Goto(p, "write") /\ UNCHANGED task /\ stage[p] = "rows"
    BY <1>4 DEF NameRow
  <2>2. Past("write") \subseteq Past(stage[p]) /\ Future("write") \subseteq Future(stage[p])
    BY <2>1, StepOrder
  <2>3. "write" \in Stages /\ stage[p] # "failed"
    BY <2>1 DEF Stages
  <2> QED BY <2>1, <2>2, <2>3, <1>2
<1>5. ASSUME NEW p \in Runs, WriteRow(p) PROVE OrderInv'
  <2>1. PICK s \in {"split", "rows", "failed"} : Goto(p, s)
    BY <1>5 DEF WriteRow
  <2>2. UNCHANGED task /\ stage[p] = "write"
    BY <1>5 DEF WriteRow
  <2>3. Past("split") = {} /\ Future("split") \subseteq Steps
    BY StepOrder DEF Past, Steps, Pools
  <2>4. s # "failed" => /\ Past(s) \subseteq Past(stage[p])
                        /\ Future(s) \subseteq Future(stage[p])
    BY <2>1, <2>2, <2>3, StepOrder
  <2>5. s \in Stages /\ stage[p] # "failed"
    BY <2>1, <2>2 DEF Stages, Steps, Pools, Over
  <2> QED BY <2>1, <2>2, <2>4, <2>5, <1>2
<1>6. ASSUME NEW p \in Runs, Advance(p) PROVE OrderInv'
  <2>1. stage[p] \in Steps /\ Through(p, stage[p]) /\ UNCHANGED task
    BY <1>6 DEF Advance
  <2>2. PICK s \in {After(stage[p]), "failed"} : Goto(p, s)
    BY <1>6 DEF Advance
  <2>3. s \in Stages
    BY <2>1, <2>2, StepOrder DEF Stages, Steps, Pools, Over
  <2>4. s # "failed" => s = After(stage[p])
    BY <2>2
  <2>5. stage[p] # "failed"
    BY <2>1 DEF Steps, Pools
  <2> QED BY <2>1, <2>2, <2>3, <2>4, <2>5, <1>2, StepOrder
<1>7. ASSUME NEW p \in Runs, GiveUp(p) PROVE OrderInv'
  <2>1. Goto(p, "failed") /\ UNCHANGED task
    BY <1>7 DEF GiveUp
  <2> QED BY <2>1, <1>2 DEF Stages, Over
<1>8. ASSUME NEW p \in Runs, RemoveDir(p) PROVE OrderInv'
  <2>1. Goto(p, "returned") /\ UNCHANGED task /\ stage[p] = "rmdir"
    BY <1>8 DEF RemoveDir
  <2>2. Past("returned") \subseteq Past(stage[p]) /\ Future("returned") \subseteq Future(stage[p])
    BY <2>1, StepOrder
  <2>3. "returned" \in Stages /\ stage[p] # "failed"
    BY <2>1 DEF Stages, Over
  <2> QED BY <2>1, <2>2, <2>3, <1>2
<1>9. CASE UNCHANGED vars
  BY <1>9 DEF OrderInv, vars
<1> QED BY <1>1, <1>3, <1>4, <1>5, <1>6, <1>7, <1>8, <1>9 DEF Next, Step

LEMMA OrderInit == Init => OrderInv
<1> SUFFICES ASSUME Init PROVE OrderInv
  OBVIOUS
<1>1. \A p \in Runs : stage[p] = "mkdir" /\ \A t \in Tasks : task[p][t] = "todo"
  BY DEF Init
<1> QED BY <1>1, StepOrder DEF OrderInv
-----------------------------------------------------------------------------
(* What the scripts read.                                                  *)
LEMMA InputsByStep ==
  ASSUME NEW t \in Tasks
  PROVE  /\ t[1] = "split"  => Inputs(t) \subseteq AllRows
         /\ t[1] = "select" => Inputs(t) \subseteq AllCols
         /\ t[1] = "merge"  => Inputs(t) = AllFeatures
         /\ t[1] = "strip"  => Inputs(t) = AllRows \cup {Merged}
         /\ t[1] = "model"  => Inputs(t) = {Stripped}
         /\ \A n \in Inputs(t) : n[1] # "script"
<1>1. CASE t[1] = "split"
  <2>1. Inputs(t) = {Row(t[2])}
    BY <1>1 DEF Inputs
  <2> QED BY <1>1, <2>1, TaskSteps, Kinds DEF AllRows
<1>2. CASE t[1] = "select"
  <2>1. Inputs(t) = {Col(i, t[2]) : i \in 1 .. Rows}
    BY <1>2 DEF Inputs
  <2>2. Inputs(t) \subseteq AllCols
    BY <1>2, <2>1, TaskSteps DEF AllCols
  <2> QED BY <1>2, <2>2, Kinds
<1>3. CASE t[1] = "merge"
  BY <1>3, Kinds DEF Inputs
<1>4. CASE t[1] = "strip"
  <2>1. Inputs(t) = AllRows \cup {Merged}
    BY <1>4 DEF Inputs
  <2> QED BY <1>4, <2>1, Kinds
<1>5. CASE t[1] = "model"
  BY <1>5, Kinds DEF Inputs
<1> QED BY <1>1, <1>2, <1>3, <1>4, <1>5, TaskSteps DEF Steps, Pools

LEMMA RemovedByStep ==
  /\ Removed("split") = {} /\ Removed("select") = AllCols
  /\ Removed("merge") = AllFeatures /\ Removed("strip") = AllRows \cup {Merged}
  /\ Removed("model") = {Stripped}
BY DEF Removed

(* Nothing that is removed after a step is read in a later one.            *)
LEMMA LaterInputsStay ==
  ASSUME NEW s \in Steps, NEW t \in Tasks, t[1] \in Future(s)
  PROVE  Inputs(t) \cap Removed(s) = {}
<1>1. CASE s = "split"
  BY <1>1, RemovedByStep
<1>2. CASE s = "select"
  <2>1. t[1] \in {"merge", "strip", "model"}
    BY <1>2 DEF Future
  <2> QED BY <1>2, <2>1, RemovedByStep, InputsByStep, Kinds
<1>3. CASE s = "merge"
  <2>1. t[1] \in {"strip", "model"}
    BY <1>3 DEF Future
  <2> QED BY <1>3, <2>1, RemovedByStep, InputsByStep, Kinds
<1>4. CASE s = "strip"
  <2>1. t[1] = "model"
    BY <1>4 DEF Future
  <2> QED BY <1>4, <2>1, RemovedByStep, InputsByStep, Kinds
<1>5. CASE s = "model"
  BY <1>5 DEF Future
<1> QED BY <1>1, <1>2, <1>3, <1>4, <1>5 DEF Steps, Pools

Waiting(p, t) == task[p][t] \in {"todo", "named", "started"}
InputsStay(p, t) == \A n \in Inputs(t) : <<p, n>> \in files => <<p, n>> \in files'

(* Whatever the processes of the pools are doing, no file that a script    *)
(* still has to read is removed.                                           *)
THEOREM NeededFilesAreKept == Spec => NeededFilesStay
<1>1. TypeOK /\ OrderInv /\ [Next]_vars
        => [\A p \in Runs, t \in Tasks : Waiting(p, t) => InputsStay(p, t)]_vars
  <2> SUFFICES ASSUME TypeOK, OrderInv, Next,
                      NEW p \in Runs, NEW t \in Tasks, Waiting(p, t),
                      NEW n \in Inputs(t), <<p, n>> \in files
               PROVE  <<p, n>> \in files'
    BY DEF InputsStay
  <2>1. ASSUME NEW q \in Runs, NEW u \in Tasks, TaskStep(q, u)
        PROVE  <<p, n>> \in files'
    <3>1. n # Script(u)
      BY InputsByStep, Kinds
    <3> QED BY <2>1, <3>1, TaskFiles DEF Of
  <2>2. ASSUME NEW q \in Runs, Advance(q)
        PROVE  <<p, n>> \in files'
    <3>1. stage[q] \in Steps /\ Through(q, stage[q]) /\ stage[q] # "failed"
      BY <2>2 DEF Advance, Steps, Pools
    <3>2. files \ Of(q, Removed(stage[q])) \subseteq files'
      BY <2>2 DEF Advance, Of
    <3>3. CASE p # q
      BY <3>2, <3>3 DEF Of
    <3>4. CASE p = q
      <4>1. t[1] # stage[p] /\ t[1] \notin Past(stage[p])
        BY <3>1, <3>4 DEF Waiting, Through, TasksOf, OrderInv
      <4>2. t[1] \in Future(stage[p])
        BY <3>1, <3>4, <4>1, TaskSteps, StepOrder
      <4>3. n \notin Removed(stage[p])
        BY <3>1, <3>4, <4>2, LaterInputsStay
      <4> QED BY <3>2, <3>4, <4>3 DEF Of
    <3> QED BY <3>3, <3>4
  <2>3. ASSUME NEW q \in Runs, WriteRow(q)
        PROVE  <<p, n>> \in files'
    BY <2>3 DEF WriteRow
  <2>4. ASSUME NEW q \in Runs, MakeDir(q) \/ NameRow(q) \/ GiveUp(q) \/ RemoveDir(q)
        PROVE  <<p, n>> \in files'
    BY <2>4 DEF MakeDir, NameRow, GiveUp, RemoveDir
  <2> QED BY <2>1, <2>2, <2>3, <2>4 DEF Next, Step
<1>2. Spec => []OrderInv
  BY TypeCorrect, OrderInit, OrderStep, PTL DEF Spec
<1>3. ASSUME TypeOK, OrderInv, [Next]_vars
      PROVE  [\A p \in Runs, t \in Tasks :
                task[p][t] \in {"todo", "named", "started"}
                  => \A n \in Inputs(t) : <<p, n>> \in files => <<p, n>> \in files']_vars
  BY <1>1, <1>3 DEF Waiting, InputsStay
<1> QED BY <1>2, <1>3, TypeCorrect, PTL DEF Spec, NeededFilesStay
-----------------------------------------------------------------------------
LEMMA UsefulByStep ==
  /\ Useful("split") = {"split"} /\ Useful("select") = {"split", "select"}
  /\ Useful("merge") = {"select", "merge"} /\ Useful("strip") = {"merge", "strip"}
  /\ Useful("model") = {"strip"}
  /\ \A s \in {"mkdir", "rows", "write", "rmdir", "returned", "failed"} : Useful(s) = {}
  /\ \A s : "model" \notin Useful(s)
BY DEF Useful

LEMMA AfterByStep ==
  /\ After("split") = "select" /\ After("select") = "merge"
  /\ After("merge") = "strip" /\ After("strip") = "model" /\ After("model") = "rmdir"
BY DEF After

(* A result that is still useful after a step is not removed with it.      *)
LEMMA UsefulStays ==
  ASSUME NEW s \in Steps, NEW t \in Tasks, t[1] \in Useful(After(s)), t[1] \notin Future(s)
  PROVE  /\ t[1] \in Useful(s)
         /\ (UNION Results(t)) \cap Removed(s) = {}
<1>1. CASE s = "split"
  BY <1>1, UsefulByStep, AfterByStep, RemovedByStep DEF Future
<1>2. CASE s = "select"
  <2>1. t[1] = "select"
    BY <1>2, UsefulByStep, AfterByStep DEF Future
  <2> QED BY <1>2, <2>1, UsefulByStep, RemovedByStep, ResultsByStep, Kinds
<1>3. CASE s = "merge"
  <2>1. t[1] = "merge"
    BY <1>3, UsefulByStep, AfterByStep DEF Future
  <2> QED BY <1>3, <2>1, UsefulByStep, RemovedByStep, ResultsByStep, Kinds
<1>4. CASE s = "strip"
  <2>1. t[1] = "strip"
    BY <1>4, UsefulByStep, AfterByStep DEF Future
  <2> QED BY <1>4, <2>1, UsefulByStep, RemovedByStep, ResultsByStep, Kinds
<1>5. CASE s = "model"
  BY <1>5, UsefulByStep, AfterByStep
<1> QED BY <1>1, <1>2, <1>3, <1>4, <1>5 DEF Steps, Pools

LEMMA ResultKinds ==
  ASSUME NEW t \in Tasks, NEW n \in UNION Results(t)
  PROVE  n[1] # "script"
<1>1. CASE t[1] \in {"split", "select"}
  BY <1>1, ResultsByStep, Kinds
<1>2. CASE t[1] \in {"merge", "strip"}
  BY <1>2, ResultsByStep, Kinds
<1>3. CASE t[1] = "model"
  BY <1>3, ResultsByStep, Kinds
<1> QED BY <1>1, <1>2, <1>3, TaskSteps DEF Steps, Pools

(* A script that comes through has written its results.                    *)
LEMMA DoneHasResults ==
  ASSUME TypeOK, NEW p \in Runs, NEW t \in Tasks, TaskStep(p, t),
         task'[p][t] = "done", t[1] # "model"
  PROVE  Of(p, UNION Results(t)) \subseteq files'
<1>1. RSucceeds(p, t)
  <2>1. \A how : Mark(p, t, how) => task'[p][t] = how
    BY DEF Mark, TypeOK
  <2>2. ~ Take(p, t) /\ ~ StartR(p, t) /\ ~ RFails(p, t)
    BY <2>1 DEF Take, StartR, RFails
  <2> QED BY <2>2 DEF TaskStep
<1>2. PICK made \in Results(t) :
        files' = (files \cup Of(p, made)) \ IF RemoveTmp THEN Of(p, {Script(t)}) ELSE {}
  BY <1>1 DEF RSucceeds
<1>3. made = UNION Results(t)
  BY <1>2, ResultsByStep, TaskSteps DEF Steps, Pools
<1>4. Script(t) \notin UNION Results(t)
  BY ResultKinds, Kinds
<1> QED BY <1>2, <1>3, <1>4 DEF Of

(* The rows, and the results that later steps use, are there.              *)
LEMMA KeptStep == TypeOK /\ OrderInv /\ KeptInv /\ [Next]_vars => KeptInv'
<1> SUFFICES ASSUME TypeOK, OrderInv, KeptInv, [Next]_vars,
                    NEW p \in Runs
             PROVE  /\ stage'[p] \in {"split", "select", "merge", "strip"}
                         => Of(p, AllRows) \subseteq files'
                    /\ \A t \in Tasks : task'[p][t] = "done" /\ t[1] \in Useful(stage'[p])
                         => Of(p, UNION Results(t)) \subseteq files'
  BY DEF KeptInv, Has
<1> DEFINE Goal == /\ stage'[p] \in {"split", "select", "merge", "strip"}
                         => Of(p, AllRows) \subseteq files'
                   /\ \A t \in Tasks : task'[p][t] = "done" /\ t[1] \in Useful(stage'[p])
                         => Of(p, UNION Results(t)) \subseteq files'
<1>1. ASSUME NEW q \in Runs, NEW u \in Tasks, TaskStep(q, u) PROVE Goal
  <2>1. stage' = stage
    BY <1>1, TaskEffect
  <2>2. \A n : n[1] # "script" /\ <<p, n>> \in files => <<p, n>> \in files'
    BY <1>1, TaskFiles, Kinds DEF Of
  <2>3. Of(p, AllRows) \subseteq files => Of(p, AllRows) \subseteq files'
    BY <2>2, Kinds DEF Of
  <2>4. ASSUME NEW t \in Tasks, task'[p][t] = "done", t[1] \in Useful(stage[p])
        PROVE  Of(p, UNION Results(t)) \subseteq files'
    <3>1. CASE p = q /\ t = u
      BY <1>1, <2>4, <3>1, DoneHasResults, UsefulByStep
    <3>2. CASE p # q \/ t # u
      <4>1. task[p][t] = "done"
        BY <1>1, <2>4, <3>2, TaskEffect
      <4>2. Of(p, UNION Results(t)) \subseteq files
        BY <2>4, <4>1 DEF KeptInv, Has
      <4> QED BY <2>2, <4>2, ResultKinds DEF Of
    <3> QED BY <3>1, <3>2
  <2> QED BY <2>1, <2>3, <2>4 DEF KeptInv, Has
<1>2. ASSUME NEW q \in Runs, NEW s \in {"mkdir", "rows", "write", "rmdir", "returned", "failed"},
             Goto(q, s), files \subseteq files', UNCHANGED task
      PROVE  Goal
  <2>1. stage'[p] = IF p = q THEN s ELSE stage[p]
    BY <1>2 DEF Goto, TypeOK
  <2>2. CASE p = q
    BY <2>1, <2>2, UsefulByStep
  <2>3. CASE p # q
    BY <1>2, <2>1, <2>3 DEF KeptInv, Has
  <2> QED BY <2>2, <2>3
<1>3. ASSUME NEW q \in Runs, MakeDir(q) \/ NameRow(q) \/ GiveUp(q) \/ RemoveDir(q) PROVE Goal
  <2>1. \E s \in {"rows", "write", "failed", "returned"} : Goto(q, s)
    BY <1>3 DEF MakeDir, NameRow, GiveUp, RemoveDir
  <2>2. files \subseteq files' /\ UNCHANGED task
    BY <1>3 DEF MakeDir, NameRow, GiveUp, RemoveDir
  <2> QED BY <2>1, <2>2, <1>2
<1>4. ASSUME NEW q \in Runs, WriteRow(q) PROVE Goal
  <2>1. UNCHANGED task /\ files \subseteq files' /\ stage[q] = "write"
    BY <1>4 DEF WriteRow
  <2>2. CASE \E s \in {"rows", "failed"} : Goto(q, s)
    BY <2>1, <2>2, <1>2
  <2>3. CASE Goto(q, "split") /\ ~ \E s \in {"rows", "failed"} : Goto(q, s)
    <3>1. PICK i \in 1 .. Rows : /\ NextRow(q, i) /\ files' = files \cup Of(q, {Row(i)})
                                /\ \E s \in {IF i = Rows THEN "split" ELSE "rows", "failed"} : Goto(q, s)
      BY <1>4, <2>3 DEF WriteRow
    <3>2. i = Rows
      BY <2>3, <3>1
    <3>3. \A k \in 1 .. Rows : k \in 1 .. i - 1 \/ k = i
      BY <3>2, RegressionAssumption DEF RegressionAssumption
    <3>4. \A k \in 1 .. Rows : <<q, Row(k)>> \in files'
      BY <3>1, <3>3 DEF NextRow, Has, Of
    <3>5. Of(q, AllRows) \subseteq files'
      BY <3>4 DEF Of, AllRows
    <3>6. stage'[p] = IF p = q THEN "split" ELSE stage[p]
      BY <2>3 DEF Goto, TypeOK
    <3>7. CASE p = q
      <4>1. \A t \in Tasks : task[p][t] = "todo"
        BY <2>1, <3>7, TaskSteps, StepOrder DEF OrderInv
      <4> QED BY <2>1, <3>5, <3>7, <4>1
    <3>8. CASE p # q
      BY <2>1, <3>6, <3>8 DEF KeptInv, Has
    <3> QED BY <3>7, <3>8
  <2>4. \E s \in {"split", "rows", "failed"} : Goto(q, s)
    BY <1>4 DEF WriteRow
  <2> QED BY <2>2, <2>3, <2>4
<1>5. ASSUME NEW q \in Runs, Advance(q) PROVE Goal
  <2>1. stage[q] \in Steps /\ UNCHANGED task /\ stage[q] # "failed"
    BY <1>5 DEF Advance, Steps, Pools
  <2>2. files \ Of(q, Removed(stage[q])) \subseteq files'
    BY <1>5 DEF Advance, Of
  <2>3. PICK s \in {After(stage[q]), "failed"} : Goto(q, s)
    BY <1>5 DEF Advance
  <2>4. stage'[p] = IF p = q THEN s ELSE stage[p]
    BY <2>3 DEF Goto, TypeOK
  <2>5. CASE p # q
    <3>1. \A n : <<p, n>> \in files => <<p, n>> \in files'
      BY <2>2, <2>5 DEF Of
    <3> QED BY <2>1, <2>4, <2>5, <3>1 DEF KeptInv, Has, Of
  <2>6. CASE p = q /\ s = "failed"
    BY <2>4, <2>6, UsefulByStep
  <2>7. CASE p = q /\ s = After(stage[p])
    <3>1. s \in {"split", "select", "merge", "strip"} => Of(p, AllRows) \subseteq files'
      <4>1. s \in {"split", "select", "merge", "strip"} => stage[p] \in {"split", "select", "merge"}
        BY <2>1, <2>7, AfterByStep DEF Steps, Pools
      <4>2. stage[p] \in {"split", "select", "merge"} => AllRows \cap Removed(stage[p]) = {}
        BY RemovedByStep, Kinds
      <4> QED BY <2>2, <2>7, <4>1, <4>2 DEF KeptInv, Has, Of
    <3>2. ASSUME NEW t \in Tasks, task[p][t] = "done", t[1] \in Useful(s)
          PROVE  Of(p, UNION Results(t)) \subseteq files'
      <4>1. t[1] \notin Future(stage[p])
        BY <2>1, <2>7, <3>2 DEF OrderInv
      <4>2. t[1] \in Useful(stage[p]) /\ (UNION Results(t)) \cap Removed(stage[p]) = {}
        BY <2>1, <2>7, <3>2, <4>1, UsefulStays
      <4>3. Of(p, UNION Results(t)) \subseteq files
        BY <3>2, <4>2 DEF KeptInv, Has
      <4> QED BY <2>2, <2>7, <4>2, <4>3 DEF Of
    <3> QED BY <2>1, <2>4, <2>7, <3>1, <3>2
  <2> QED BY <2>3, <2>5, <2>6, <2>7
<1>6. CASE UNCHANGED vars
  BY <1>6 DEF vars, KeptInv, Has
<1> QED BY <1>1, <1>3, <1>4, <1>5, <1>6 DEF Next, Step
-----------------------------------------------------------------------------
(* A step that is through has all the files that are removed after it.     *)
LEMMA RemovedAreThere ==
  ASSUME TypeOK, OrderInv, KeptInv, NEW p \in Runs,
         stage[p] \in Steps, Through(p, stage[p])
  PROVE  Has(p, Removed(stage[p]))
<1>1. ASSUME NEW t \in Tasks, t[1] \in Useful(stage[p]),
             t[1] = stage[p] \/ t[1] \in Past(stage[p])
      PROVE  Of(p, UNION Results(t)) \subseteq files
  <2>1. stage[p] # "failed"
    BY DEF Steps, Pools
  <2>2. task[p][t] = "done"
    BY <1>1, <2>1 DEF OrderInv, Through, TasksOf
  <2> QED BY <1>1, <2>2 DEF KeptInv, Has
<1>2. CASE stage[p] = "split"
  BY <1>2, RemovedByStep DEF Has, Of
<1>3. CASE stage[p] = "select"
  <2>1. ASSUME NEW i \in 1 .. Rows, NEW j \in 1 .. Cols
        PROVE  <<p, Col(i, j)>> \in files
    <3> DEFINE t == <<"split", i>>
    <3>1. t \in Tasks /\ t[1] = "split" /\ t[2] = i
      BY TaskSteps
    <3>2. t[1] \in Useful(stage[p]) /\ t[1] \in Past(stage[p])
      BY <1>3, <3>1, UsefulByStep DEF Past
    <3>3. Of(p, UNION Results(t)) \subseteq files
      BY <1>1, <3>1, <3>2
    <3>4. Col(i, j) \in UNION Results(t)
      BY <3>1 DEF Results
    <3> QED BY <3>3, <3>4 DEF Of
  <2> QED BY <1>3, <2>1, RemovedByStep DEF Has, Of, AllCols
<1>4. CASE stage[p] = "merge"
  <2>1. ASSUME NEW j \in 1 .. Cols PROVE <<p, Feature(j)>> \in files
    <3> DEFINE t == <<"select", j>>
    <3>1. t \in Tasks /\ t[1] = "select" /\ t[2] = j
      BY TaskSteps
    <3>2. t[1] \in Useful(stage[p]) /\ t[1] \in Past(stage[p])
      BY <1>4, <3>1, UsefulByStep DEF Past
    <3>3. Of(p, UNION Results(t)) \subseteq files
      BY <1>1, <3>1, <3>2
    <3>4. Feature(j) \in UNION Results(t)
      BY <3>1 DEF Results
    <3> QED BY <3>3, <3>4 DEF Of
  <2> QED BY <1>4, <2>1, RemovedByStep DEF Has, Of, AllFeatures
<1>5. CASE stage[p] = "strip"
  <2>1. Of(p, {Merged}) \subseteq files
    <3> DEFINE t == <<"merge", 1>>
    <3>1. t \in Tasks /\ t[1] = "merge"
      BY TaskSteps DEF Steps, Pools
    <3>2. t[1] \in Useful(stage[p]) /\ t[1] \in Past(stage[p])
      BY <1>5, <3>1, UsefulByStep DEF Past
    <3>3. UNION Results(t) = {Merged}
      BY <3>1, ResultsByStep
    <3> HIDE DEF t
    <3> QED BY <1>1, <3>1, <3>2, <3>3
  <2> QED BY <1>5, <2>1, RemovedByStep DEF Has, Of, KeptInv
<1>6. CASE stage[p] = "model"
  <2> DEFINE t == <<"strip", 1>>
  <2>1. t \in Tasks /\ t[1] = "strip"
    BY TaskSteps DEF Steps, Pools
  <2>2. t[1] \in Useful(stage[p]) /\ t[1] \in Past(stage[p])
    BY <1>6, <2>1, UsefulByStep DEF Past
  <2>3. UNION Results(t) = {Stripped}
    BY <2>1, ResultsByStep
  <2> HIDE DEF t
  <2>4. Of(p, {Stripped}) \subseteq files
    BY <1>1, <2>1, <2>2, <2>3
  <2> QED BY <1>6, <2>4, RemovedByStep DEF Has
<1> QED BY <1>2, <1>3, <1>4, <1>5, <1>6 DEF Steps, Pools

(* A run fails because a script failed or while it writes the rows.        *)
LEMMA SucceedStep ==
  TypeOK /\ OrderInv /\ KeptInv /\ RemovalsSucceed /\ [Next]_vars => RemovalsSucceed'
<1> SUFFICES ASSUME TypeOK, OrderInv, KeptInv, RemovalsSucceed, [Next]_vars,
                    NEW p \in Runs, stage'[p] = "failed"
             PROVE  \/ \E t \in Tasks : task'[p][t] = "failed"
                    \/ \A t \in Tasks : task'[p][t] = "todo"
  BY DEF RemovalsSucceed
<1> DEFINE Goal == \/ \E t \in Tasks : task'[p][t] = "failed"
                   \/ \A t \in Tasks : task'[p][t] = "todo"
<1>1. ASSUME NEW q \in Runs, NEW u \in Tasks, TaskStep(q, u) PROVE Goal
  <2>1. stage[p] = "failed"
    BY <1>1, TaskEffect
  <2>2. CASE \E t \in Tasks : task[p][t] = "failed"
    <3>1. PICK t \in Tasks : task[p][t] = "failed"
      BY <2>2
    <3>2. task'[p][t] = "failed"
      BY <1>1, <3>1, TaskEffect
    <3> QED BY <3>2
  <2>3. CASE \A t \in Tasks : task[p][t] = "todo" /\ ~ \E v \in Tasks : task[p][v] = "failed"
    <3>1. p # q
      BY <1>1, <2>1, <2>3, TaskEffect, TaskSteps DEF Current, Failed, TasksOf, Steps, Pools
    <3> QED BY <1>1, <2>3, <3>1, TaskEffect
  <2> QED BY <2>1, <2>2, <2>3 DEF RemovalsSucceed
<1>2. CASE stage[p] = "failed" /\ UNCHANGED task
  BY <1>2 DEF RemovalsSucceed
<1>3. ASSUME NEW q \in Runs, Step(q) \/ MakeDir(q), stage[p] # "failed" PROVE Goal
  <2>1. UNCHANGED task
    BY <1>3 DEF Step, MakeDir, NameRow, WriteRow, Advance, GiveUp, RemoveDir
  <2>2. p = q
    <3>1. \E s : Goto(q, s)
      BY <1>3 DEF Step, MakeDir, NameRow, WriteRow, Advance, GiveUp, RemoveDir
    <3> QED BY <1>3, <3>1 DEF Goto, TypeOK
  <2>3. CASE WriteRow(q)
    <3>1. stage[p] = "write"
      BY <2>2, <2>3 DEF WriteRow
    <3>2. \A t \in Tasks : task[p][t] = "todo"
      BY <3>1, TaskSteps, StepOrder DEF OrderInv
    <3> QED BY <2>1, <3>2
  <2>4. CASE Advance(q)
    <3>1. stage[p] \in Steps /\ Through(p, stage[p])
      BY <2>2, <2>4 DEF Advance
    <3>2. Has(p, Removed(stage[p])) /\ Has(p, {})
      BY <3>1, RemovedAreThere DEF Has, Of
    <3>3. Goto(p, After(stage[p]))
      BY <2>2, <2>4, <3>2 DEF Advance
    <3>4. stage'[p] = After(stage[p])
      BY <3>3 DEF Goto, TypeOK
    <3> QED BY <3>1, <3>4, StepOrder
  <2>5. CASE GiveUp(q)
    BY <2>1, <2>2, <2>5 DEF GiveUp, Failed, TasksOf
  <2>6. CASE MakeDir(q) \/ NameRow(q) \/ RemoveDir(q)
    <3>1. \E s \in {"rows", "write", "returned"} : Goto(p, s)
      BY <2>2, <2>6 DEF MakeDir, NameRow, RemoveDir
    <3> QED BY <3>1 DEF Goto, TypeOK
  <2> QED BY <1>3, <2>3, <2>4, <2>5, <2>6 DEF Step
<1>4. \/ UNCHANGED task
      \/ \E q \in Runs, u \in Tasks : TaskStep(q, u)
  BY DEF Next, Step, MakeDir, NameRow, WriteRow, Advance, GiveUp, RemoveDir, vars
<1>5. stage[p] = "failed" \/ (\E q \in Runs : Step(q) \/ MakeDir(q)) \/ (\E q \in Runs, u \in Tasks : TaskStep(q, u))
  BY DEF Next, vars
<1> QED BY <1>1, <1>2, <1>3, <1>4, <1>5

LEMMA FilesInit == Init => KeptInv /\ RemovalsSucceed /\ LeftInv
<1> SUFFICES ASSUME Init PROVE KeptInv /\ RemovalsSucceed /\ LeftInv
  OBVIOUS
<1>1. \A p \in Runs : stage[p] = "mkdir" /\ \A t \in Tasks : task[p][t] = "todo"
  BY DEF Init
<1>2. files = {}
  BY DEF Init
<1> QED BY <1>1, <1>2 DEF KeptInv, RemovalsSucceed, LeftInv

(* No run fails in remove_file: every file it removes is there.            *)
THEOREM RemovalsAlwaysSucceed == Spec => []RemovalsSucceed
BY TypeCorrect, OrderInit, OrderStep, FilesInit, KeptStep, SucceedStep, PTL DEF Spec
-----------------------------------------------------------------------------
LEMMA LeftByStep ==
  /\ Left("mkdir") = {} /\ Left("rows") = AllRows /\ Left("write") = AllRows
  /\ Left("split") = AllRows \cup AllCols
  /\ Left("select") = AllRows \cup AllCols \cup AllFeatures
  /\ Left("merge") = AllRows \cup AllFeatures \cup {Merged}
  /\ Left("strip") = AllRows \cup {Merged, Stripped}
  /\ Left("model") = {Stripped}
  /\ Left("rmdir") = {} /\ Left("returned") = {}
BY DEF Left

(* What a script writes may be left at its step.                           *)
LEMMA ResultsMayBeLeft ==
  ASSUME NEW t \in Tasks, NEW n \in UNION Results(t), n \in Temps
  PROVE  n \in Left(t[1])
<1>1. CASE t[1] \in {"split", "select"}
  BY <1>1, ResultsByStep, LeftByStep
<1>2. CASE t[1] \in {"merge", "strip"}
  BY <1>2, ResultsByStep, LeftByStep
<1>3. CASE t[1] = "model"
  <2>1. n[1] \in {"model", "model.error"}
    BY <1>3, ResultsByStep, Kinds
  <2>2. \A m \in Temps : m[1] \notin {"model", "model.error"}
    BY Kinds DEF Temps
  <2> QED BY <2>1, <2>2
<1> QED BY <1>1, <1>2, <1>3, TaskSteps DEF Steps, Pools

(* A script that is there after a step of its process is being run or has  *)
(* failed.                                                                 *)
LEMMA ScriptStays ==
  ASSUME TypeOK, RemoveTmp, NEW p \in Runs, NEW t \in Tasks, TaskStep(p, t),
         <<p, Script(t)>> \in files',
         <<p, Script(t)>> \in files => task[p][t] = "started"
  PROVE  task'[p][t] \in {"started", "failed"}
<1>1. \A how : Mark(p, t, how) => task'[p][t] = how
  BY DEF Mark, TypeOK
<1>2. ~ Take(p, t)
  BY DEF Take
<1>3. ~ RSucceeds(p, t)
  BY DEF RSucceeds, Of
<1>4. CASE StartR(p, t)
  BY <1>1, <1>4 DEF StartR
<1>5. CASE RFails(p, t)
  BY <1>1, <1>5 DEF RFails
<1> QED BY <1>2, <1>3, <1>4, <1>5 DEF TaskStep

(* Only the names of LeftInv are left of what a run has made.              *)
LEMMA LeftStep == TypeOK /\ OrderInv /\ LeftInv /\ [Next]_vars => LeftInv'
<1> SUFFICES ASSUME TypeOK, OrderInv, LeftInv, [Next]_vars, RemoveTmp,
                    NEW p \in Runs, stage'[p] # "failed",
                    NEW n \in Temps, <<p, n>> \in files'
             PROVE  \/ n \in Left(stage'[p])
                    \/ \E t \in Tasks : n = Script(t) /\ task'[p][t] \in {"started", "failed"}
  BY DEF LeftInv
<1> DEFINE Goal == \/ n \in Left(stage'[p])
                   \/ \E t \in Tasks : n = Script(t) /\ task'[p][t] \in {"started", "failed"}
<1>1. stage[p] # "failed" /\ <<p, n>> \in files
        => \/ n \in Left(stage[p])
           \/ \E t \in Tasks : n = Script(t) /\ task[p][t] \in {"started", "failed"}
  BY DEF LeftInv
<1>2. ASSUME NEW q \in Runs, NEW u \in Tasks, TaskStep(q, u) PROVE Goal
  <2>1. stage' = stage /\ stage[p] # "failed"
    BY <1>2, TaskEffect
  <2>2. CASE p # q
    <3>1. <<p, n>> \in files
      BY <1>2, <2>2, TaskFiles DEF Of
    <3>2. \A t \in Tasks : task'[p][t] = task[p][t]
      BY <1>2, <2>2, TaskEffect
    <3> QED BY <1>1, <2>1, <3>1, <3>2
  <2>3. CASE p = q /\ n = Script(u)
    <3>1. n \notin Left(stage[p])
      <4>1. \A s \in Stages \ {"failed"} : Script(u) \notin Left(s)
        BY Kinds, LeftByStep DEF Stages, Steps, Pools, Over
      <4> QED BY <2>1, <2>3, <4>1 DEF TypeOK, Stages
    <3>2. <<p, n>> \in files => task[p][u] = "started"
      <4>1. \A t \in Tasks : n = Script(t) => t = u
        BY <2>3 DEF Script
      <4>2. <<p, n>> \in files => task[p][u] \in {"started", "failed"}
        BY <1>1, <2>1, <3>1, <4>1
      <4> QED BY <1>2, <2>3, <4>2, TaskEffect
    <3>3. task'[p][u] \in {"started", "failed"}
      BY <1>2, <2>3, <3>2, ScriptStays
    <3> QED BY <2>3, <3>3
  <2>4. CASE p = q /\ n # Script(u)
    <3>1. CASE <<p, n>> \in files
      <4>1. \A t \in Tasks : n = Script(t) => task'[p][t] = task[p][t]
        BY <1>2, <2>4, TaskEffect
      <4> QED BY <1>1, <2>1, <3>1, <4>1
    <3>2. CASE <<p, n>> \notin files
      <4>1. n \in UNION Results(u)
        BY <1>2, <2>4, <3>2, TaskFiles DEF Of
      <4>2. stage[p] = u[1]
        BY <1>2, <2>1, <2>4, TakenIsCurrent
      <4> QED BY <2>1, <4>1, <4>2, ResultsMayBeLeft
    <3> QED BY <3>1, <3>2
  <2> QED BY <2>2, <2>3, <2>4
<1>3. ASSUME UNCHANGED task, <<p, n>> \in files, stage[p] # "failed",
             n \in Left(stage[p]) => n \in Left(stage'[p])
      PROVE  Goal
  BY <1>1, <1>3
<1>4. ASSUME NEW q \in Runs, Step(q) \/ MakeDir(q) PROVE Goal
  <2>1. UNCHANGED task
    BY <1>4 DEF Step, MakeDir, NameRow, WriteRow, Advance, GiveUp, RemoveDir
  <2>2. CASE p # q
    <3>1. stage'[p] = stage[p]
      BY <1>4, <2>2 DEF Step, MakeDir, NameRow, WriteRow, Advance, GiveUp, RemoveDir, Goto, TypeOK
    <3>2. \E names : files' \subseteq files \cup Of(q, names)
      <4>1. CASE WriteRow(q)
        BY <4>1 DEF WriteRow
      <4>2. CASE ~ WriteRow(q)
        BY <1>4, <4>2 DEF Step, MakeDir, NameRow, Advance, GiveUp, RemoveDir
      <4> QED BY <4>1, <4>2
    <3>3. <<p, n>> \in files
      BY <2>2, <3>2 DEF Of
    <3>4. stage[p] # "failed"
      BY <3>1
    <3> QED BY <1>3, <2>1, <3>1, <3>3, <3>4
  <2>3. ASSUME p = q, NEW s, Goto(q, s) PROVE stage'[p] = s
    BY <2>3 DEF Goto, TypeOK
  <2>4. CASE p = q /\ (MakeDir(q) \/ NameRow(q) \/ RemoveDir(q))
    <3>1. <<p, n>> \in files /\ stage[p] # "failed"
      BY <2>4 DEF MakeDir, NameRow, RemoveDir
    <3>2. \/ stage[p] = "mkdir" /\ stage'[p] = "rows"
          \/ stage[p] = "rows" /\ stage'[p] = "write"
          \/ stage[p] = "rmdir" /\ stage'[p] = "returned"
      BY <2>3, <2>4 DEF MakeDir, NameRow, RemoveDir
    <3>3. n \in Left(stage[p]) => n \in Left(stage'[p])
      BY <3>2, LeftByStep
    <3> QED BY <1>3, <2>1, <3>1, <3>3
  <2>5. CASE p = q /\ WriteRow(q)
    <3>1. PICK i \in 1 .. Rows : files' \subseteq files \cup Of(p, {Row(i)})
      BY <2>5 DEF WriteRow
    <3>2. PICK s \in {"split", "rows", "failed"} : Goto(q, s)
      BY <2>5 DEF WriteRow
    <3>3. stage[p] = "write" /\ stage'[p] \in {"split", "rows"}
      BY <2>3, <2>5, <3>2 DEF WriteRow
    <3>4. AllRows \subseteq Left(stage'[p]) /\ Left(stage[p]) = AllRows
      BY <3>3, LeftByStep
    <3>5. CASE n = Row(i)
      BY <3>4, <3>5 DEF AllRows
    <3>6. CASE n # Row(i)
      <4>1. <<p, n>> \in files
        BY <3>1, <3>6 DEF Of
      <4> QED BY <1>3, <2>1, <3>3, <3>4, <4>1
    <3> QED BY <3>5, <3>6
  <2>6. CASE p = q /\ Advance(q)
    <3>1. stage[p] \in Steps /\ files' = files \ Of(p, Removed(stage[p]))
      BY <2>6 DEF Advance
    <3>2. PICK s \in {After(stage[p]), "failed"} : Goto(q, s)
      BY <2>6 DEF Advance
    <3>3. stage'[p] = After(stage[p])
      BY <2>3, <2>6, <3>2
    <3>4. <<p, n>> \in files /\ n \notin Removed(stage[p]) /\ stage[p] # "failed"
      BY <3>1 DEF Of, Steps, Pools
    <3>5. n \in Left(stage[p]) => n \in Left(After(stage[p]))
      BY <3>1, <3>4, LeftByStep, RemovedByStep, AfterByStep DEF Steps, Pools
    <3> QED BY <1>3, <2>1, <3>3, <3>4, <3>5
  <2>7. CASE p = q /\ GiveUp(q)
    BY <2>3, <2>7 DEF GiveUp
  <2> QED BY <1>4, <2>2, <2>4, <2>5, <2>6, <2>7 DEF Step
<1>5. CASE UNCHANGED vars
  BY <1>1, <1>5 DEF vars
<1> QED BY <1>2, <1>4, <1>5 DEF Next

(* A run that returns leaves none of its temporary files behind.           *)
THEOREM ReturnsLeaveNothing == Spec => []ReturnLeavesNothing
<1>1. TypeOK /\ OrderInv /\ LeftInv => ReturnLeavesNothing
  <2> SUFFICES ASSUME OrderInv, LeftInv, RemoveTmp,
                      NEW p \in Runs, stage[p] \in {"rmdir", "returned"},
                      NEW n \in Temps, <<p, n>> \in files
               PROVE  FALSE
    BY DEF ReturnLeavesNothing, Of
  <2>1. \A t \in Tasks : task[p][t] = "done"
    BY TaskSteps, StepOrder DEF OrderInv
  <2>2. Left(stage[p]) = {}
    BY LeftByStep
  <2> QED BY <2>1, <2>2 DEF LeftInv
<1> QED BY <1>1, TypeCorrect, OrderInit, OrderStep, FilesInit, LeftStep, PTL DEF Spec
-----------------------------------------------------------------------------
(* The script that makes the model leaves the model, or the mark that the  *)
(* fit did not converge, and nothing removes either.                       *)
Outcome  == {Model, ModelError}
ModelInv == \A p \in Runs : task[p][<<"model", 1>>] = "done" => Of(p, Outcome) \cap files # {}

LEMMA OutcomeStays ==
  ASSUME TypeOK, [Next]_vars, NEW p \in Runs, Of(p, Outcome) \cap files # {}
  PROVE  Of(p, Outcome) \cap files' # {}
<1>1. \A s \in Steps : Removed(s) \cap Outcome = {}
  BY RemovedByStep, Kinds DEF Steps, Pools, Outcome
<1>2. ASSUME NEW q \in Runs, NEW t \in Tasks, TaskStep(q, t)
      PROVE  Of(p, Outcome) \cap files' # {}
  BY <1>2, TaskFiles, Kinds DEF Of, Outcome
<1>3. ASSUME NEW q \in Runs, Advance(q)
      PROVE  Of(p, Outcome) \cap files' # {}
  <2>1. stage[q] \in Steps /\ files \ Of(q, Removed(stage[q])) \subseteq files'
    BY <1>3 DEF Advance, Of
  <2> QED BY <1>1, <2>1 DEF Of
<1>4. ASSUME NEW q \in Runs, MakeDir(q) \/ NameRow(q) \/ WriteRow(q) \/ GiveUp(q) \/ RemoveDir(q)
      PROVE  files \subseteq files'
  BY <1>4 DEF MakeDir, NameRow, WriteRow, GiveUp, RemoveDir
<1>5. CASE UNCHANGED vars
  BY <1>5 DEF vars
<1> QED BY <1>2, <1>3, <1>4, <1>5 DEF Next, Step

LEMMA ModelStep == TypeOK /\ ModelInv /\ [Next]_vars => ModelInv'
<1> SUFFICES ASSUME TypeOK, ModelInv, [Next]_vars, NEW p \in Runs,
                    task'[p][<<"model", 1>>] = "done", Of(p, Outcome) \cap files' = {}
             PROVE  FALSE
  BY DEF ModelInv, Of
<1> DEFINE m == <<"model", 1>>
<1>1. task[p][m] # "done"
  BY OutcomeStays DEF ModelInv
<1>2. m \in Tasks /\ m[1] = "model"
  BY TaskSteps DEF Steps, Pools
<1> HIDE DEF m
<1>3. UNCHANGED task \/ \E q \in Runs, t \in Tasks : TaskStep(q, t)
  BY DEF Next, Step, MakeDir, NameRow, WriteRow, Advance, GiveUp, RemoveDir, vars
<1>4. task'[p][m] = "done"
  BY DEF m
<1>5. TaskStep(p, m)
  BY <1>1, <1>2, <1>3, <1>4, TaskEffect
<1>6. RSucceeds(p, m)
  <2>1. \A how : Mark(p, m, how) => task'[p][m] = how
    BY <1>2 DEF Mark, TypeOK
  <2> QED BY <1>4, <1>5, <2>1 DEF TaskStep, Take, StartR, RFails
<1>7. PICK made \in Results(m) :
        files' = (files \cup Of(p, made)) \ IF RemoveTmp THEN Of(p, {Script(m)}) ELSE {}
  BY <1>6 DEF RSucceeds
<1>8. made = {Model} \/ made = {ModelError}
  BY <1>2, <1>7 DEF Results
<1>9. <<p, Model>> \in files' \/ <<p, ModelError>> \in files'
  BY <1>7, <1>8, Kinds DEF Of
<1> QED BY <1>9 DEF Of, Outcome

(* A run that returns has a model or the mark: no failure of a process is  *)
(* lost on the way.                                                        *)
THEOREM ReturnsHaveResults == Spec => []ReturnHasResult
<1>1. Init => ModelInv
  BY TaskSteps DEF Init, ModelInv, Steps, Pools
<1>2. OrderInv /\ ModelInv => ReturnHasResult
  <2> SUFFICES ASSUME OrderInv, ModelInv, NEW p \in Runs, stage[p] \in {"rmdir", "returned"}
               PROVE  Of(p, {Model, ModelError}) \cap files # {}
    BY DEF ReturnHasResult
  <2>1. <<"model", 1>> \in Tasks /\ "model" \in Past(stage[p])
    BY TaskSteps, StepOrder DEF Steps, Pools
  <2> QED BY <2>1 DEF OrderInv, ModelInv, Outcome
<1> QED BY <1>1, <1>2, TypeCorrect, OrderInit, OrderStep, ModelStep, PTL DEF Spec
-----------------------------------------------------------------------------
(* A file in "tmp" keeps the directory, whoever made it.                   *)
FilesNeedDir == files \cap inTmp # {} => dir

(* A run whose first row is in "tmp" has the stripped data there too, once *)
(* its name is made.                                                       *)
StripInv == \A p \in Runs :
  stage[p] # "failed" /\ <<p, Row(1)>> \in inTmp /\ task[p][<<"strip", 1>>] # "todo"
    => <<p, Stripped>> \in inTmp

LEMMA NeedDirStep == TypeOK /\ FilesNeedDir /\ [Next]_vars => FilesNeedDir'
<1> SUFFICES ASSUME TypeOK, FilesNeedDir, [Next]_vars PROVE FilesNeedDir'
  OBVIOUS
<1>1. ASSUME NEW p \in Runs, NEW names, MayCreate(p, names),
             files' \subseteq files \cup Of(p, names), UNCHANGED <<inTmp, dir>>
      PROVE  FilesNeedDir'
  BY <1>1 DEF FilesNeedDir, MayCreate
<1>2. ASSUME NEW p \in Runs, NEW names, Name(p, names), files' \subseteq files, UNCHANGED dir
      PROVE  FilesNeedDir'
  BY <1>2 DEF FilesNeedDir, Name
<1>3. ASSUME files' \subseteq files, UNCHANGED inTmp, dir' = dir \/ dir' = TRUE
      PROVE  FilesNeedDir'
  BY <1>3 DEF FilesNeedDir
<1>4. ASSUME NEW p \in Runs, NEW t \in Tasks, TaskStep(p, t) PROVE FilesNeedDir'
  <2>1. CASE Take(p, t)
    BY <1>2, <2>1 DEF Take
  <2>2. CASE StartR(p, t)
    BY <1>1, <1>3, <2>2 DEF StartR
  <2>3. CASE RSucceeds(p, t)
    <3>1. PICK made \in Results(t) : MayCreate(p, made) /\ files' \subseteq files \cup Of(p, made)
      BY <2>3 DEF RSucceeds
    <3> QED BY <1>1, <2>3, <3>1 DEF RSucceeds
  <2>4. CASE RFails(p, t)
    BY <1>1, <2>4 DEF RFails
  <2> QED BY <1>4, <2>1, <2>2, <2>3, <2>4 DEF TaskStep
<1>5. ASSUME NEW p \in Runs, MakeDir(p) \/ GiveUp(p) PROVE FilesNeedDir'
  BY <1>3, <1>5 DEF MakeDir, GiveUp
<1>6. ASSUME NEW p \in Runs, NameRow(p) PROVE FilesNeedDir'
  BY <1>2, <1>6 DEF NameRow
<1>7. ASSUME NEW p \in Runs, WriteRow(p) PROVE FilesNeedDir'
  BY <1>1, <1>3, <1>7 DEF WriteRow
<1>8. ASSUME NEW p \in Runs, Advance(p) PROVE FilesNeedDir'
  <2>1. files' \subseteq files /\ UNCHANGED dir /\ (Name(p, AllFeatures) \/ UNCHANGED inTmp)
    BY <1>8 DEF Advance
  <2> QED BY <1>2, <1>3, <2>1
<1>9. ASSUME NEW p \in Runs, RemoveDir(p) PROVE FilesNeedDir'
  BY <1>9 DEF RemoveDir, FilesNeedDir
<1>10. CASE UNCHANGED vars
  BY <1>3, <1>10 DEF vars
<1> QED BY <1>4, <1>5, <1>6, <1>7, <1>8, <1>9, <1>10 DEF Next, Step

LEMMA StripStep ==
  TypeOK /\ OrderInv /\ KeptInv /\ FilesNeedDir /\ StripInv /\ [Next]_vars => StripInv'
<1> SUFFICES ASSUME TypeOK, OrderInv, KeptInv, FilesNeedDir, StripInv, [Next]_vars,
                    NEW p \in Runs, stage'[p] # "failed", <<p, Row(1)>> \in inTmp',
                    task'[p][<<"strip", 1>>] # "todo"
             PROVE  <<p, Stripped>> \in inTmp'
  BY DEF StripInv
<1> DEFINE u == <<"strip", 1>>
<1>1. u \in Tasks /\ u[1] = "strip"
  BY TaskSteps DEF Steps, Pools
<1> HIDE DEF u
<1>2. task'[p][u] # "todo"
  BY DEF u
<1>3. ASSUME stage[p] # "failed", <<p, Row(1)>> \in inTmp, task[p][u] # "todo", inTmp \subseteq inTmp'
      PROVE  <<p, Stripped>> \in inTmp'
  BY <1>3 DEF StripInv, u
<1>4. ASSUME NEW q \in Runs, NEW t \in Tasks, TaskStep(q, t) PROVE <<p, Stripped>> \in inTmp'
  <2>1. stage[p] # "failed"
    BY <1>4, TaskEffect
  <2>2. CASE Take(q, t)
    <3> DEFINE made == CASE t[1] \in {"split", "merge", "strip"} -> UNION Results(t)
                         [] OTHER -> {}
    <3>1. Name(q, {Script(t)} \cup made)
      BY <2>2 DEF Take
    <3>2. \A n \in made : n[1] # "row"
      BY ResultsByStep, Kinds
    <3>3. t[1] = "strip" => Stripped \in made
      BY ResultsByStep
    <3> HIDE DEF made
    <3>4. inTmp \subseteq inTmp'
      BY <3>1 DEF Name
    <3>5. <<p, Row(1)>> \in inTmp
      BY <3>1, <3>2, Kinds DEF Name, Of, Row
    <3>6. CASE task[p][u] # "todo"
      BY <1>3, <2>1, <3>4, <3>5, <3>6
    <3>7. CASE task[p][u] = "todo"
      <4>1. q = p /\ t = u
        BY <1>1, <1>2, <1>4, <3>7, TaskEffect
      <4>2. stage[p] = "strip"
        BY <1>1, <1>4, <2>1, <4>1, TakenIsCurrent
      <4>3. Row(1) \in AllRows
        BY RegressionAssumption DEF AllRows
      <4>4. <<p, Row(1)>> \in files
        BY <4>2, <4>3 DEF KeptInv, Has, Of
      <4>5. dir
        BY <3>5, <4>4 DEF FilesNeedDir
      <4> QED BY <1>1, <3>1, <3>3, <4>1, <4>5 DEF Name, Of
    <3> QED BY <3>6, <3>7
  <2>3. CASE StartR(q, t) \/ RSucceeds(q, t) \/ RFails(q, t)
    <3>1. UNCHANGED inTmp /\ task[q][t] # "todo"
      BY <2>3 DEF StartR, RSucceeds, RFails
    <3>2. task[p][u] # "todo"
      BY <1>1, <1>2, <1>4, <3>1, TaskEffect
    <3> QED BY <1>3, <2>1, <3>1, <3>2
  <2> QED BY <1>4, <2>2, <2>3 DEF TaskStep
<1>5. ASSUME NEW q \in Runs, NameRow(q) PROVE <<p, Stripped>> \in inTmp'
  <2>1. PICK i \in 1 .. Rows : Name(q, {Row(i)})
    BY <1>5 DEF NameRow
  <2>2. inTmp \subseteq inTmp' /\ UNCHANGED task
    BY <1>5, <2>1 DEF Name, NameRow
  <2>3. CASE p = q
    <3>1. stage[p] = "rows"
      BY <1>5, <2>3 DEF NameRow
    <3>2. "strip" \in Future("rows")
      BY StepOrder DEF Steps, Pools
    <3>3. task[p][u] = "todo"
      BY <1>1, <3>1, <3>2 DEF OrderInv
    <3> QED BY <1>2, <2>2, <3>3
  <2>4. CASE p # q
    <3>1. <<p, Row(1)>> \in inTmp /\ stage[p] # "failed"
      BY <1>5, <2>1, <2>4 DEF Name, Of, NameRow, Goto, TypeOK
    <3> QED BY <1>2, <1>3, <2>2, <3>1
  <2> QED BY <2>3, <2>4
<1>6. ASSUME NEW q \in Runs, MakeDir(q) \/ WriteRow(q) \/ Advance(q) \/ GiveUp(q) \/ RemoveDir(q)
      PROVE  <<p, Stripped>> \in inTmp'
  <2>1. UNCHANGED task /\ (Name(q, AllFeatures) \/ UNCHANGED inTmp)
    BY <1>6 DEF MakeDir, WriteRow, Advance, GiveUp, RemoveDir
  <2>2. inTmp \subseteq inTmp' /\ <<p, Row(1)>> \in inTmp
    BY <2>1, Kinds DEF Name, Of, Row
  <2>3. \E s : Goto(q, s) /\ stage[q] # "failed"
    BY <1>6 DEF MakeDir, WriteRow, Advance, GiveUp, RemoveDir, Steps, Pools
  <2>4. stage[p] # "failed"
    BY <2>3 DEF Goto, TypeOK
  <2> QED BY <1>2, <1>3, <2>1, <2>2, <2>4
<1>7. CASE UNCHANGED vars
  BY <1>2, <1>3, <1>7 DEF vars
<1> QED BY <1>4, <1>5, <1>6, <1>7 DEF Next, Step

(* A run that has its first row in "tmp" keeps the directory to its end,   *)
(* whichever other runs remove it meanwhile.                               *)
THEOREM DirectoryStays == Spec => []DirStays
<1>1. Init => FilesNeedDir /\ StripInv
  <2>1. <<"strip", 1>> \in Tasks
    BY TaskSteps DEF Steps, Pools
  <2> QED BY <2>1 DEF Init, FilesNeedDir, StripInv
<1>2. TypeOK /\ OrderInv /\ KeptInv /\ FilesNeedDir /\ StripInv => DirStays
  <2> SUFFICES ASSUME OrderInv, KeptInv, FilesNeedDir, StripInv,
                      NEW p \in Runs, stage[p] \in Steps, <<p, Row(1)>> \in inTmp
               PROVE  dir
    BY DEF DirStays
  <2>1. CASE stage[p] # "model"
    <3>1. Row(1) \in AllRows
      BY RegressionAssumption DEF AllRows
    <3>2. <<p, Row(1)>> \in files
      BY <2>1, <3>1 DEF KeptInv, Has, Of, Steps, Pools
    <3> QED BY <3>2 DEF FilesNeedDir
  <2>2. CASE stage[p] = "model"
    <3> DEFINE u == <<"strip", 1>>
    <3>1. u \in Tasks /\ u[1] = "strip" /\ u[1] \in Past("model")
      BY TaskSteps DEF Steps, Pools, Past
    <3>2. task[p][u] = "done"
      BY <2>2, <3>1 DEF OrderInv
    <3>3. <<p, Stripped>> \in inTmp
      BY <2>2, <3>2 DEF StripInv
    <3>4. Stripped \in UNION Results(u)
      BY <3>1, ResultsByStep
    <3> HIDE DEF u
    <3>5. <<p, Stripped>> \in files
      BY <2>2, <3>1, <3>2, <3>4, UsefulByStep DEF KeptInv, Has, Of
    <3> QED BY <3>3, <3>5 DEF FilesNeedDir
  <2> QED BY <2>1, <2>2
<1> QED BY <1>1, <1>2, TypeCorrect, OrderInit, OrderStep, FilesInit, KeptStep, NeedDirStep,
           StripStep, PTL DEF Spec

=============================================================================
