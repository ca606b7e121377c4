------------------------- MODULE ServiceLock_proofs -------------------------
(***************************************************************************)
(* What holds of ServiceLock for every set of jobs: two sufficient         *)
(* conditions for mutual exclusion, and what may leave an entry behind.    *)
(***************************************************************************)
EXTENDS ServiceLock, TLAPS

(* Every reachable state has the types of TypeOK (lines 83-148).           *)
THEOREM TypeCorrect == Spec => []TypeOK
<1> USE ServiceLockAssumption DEF Running, Requests, Ended
<1>1. Init => TypeOK
  BY DEF Init, TypeOK
<1>2. TypeOK /\ [Next]_vars => TypeOK'
  <2> SUFFICES ASSUME TypeOK, [Next]_vars PROVE TypeOK'
    OBVIOUS
  <2> USE DEF TypeOK, Goto
  <2>1. ASSUME NEW p \in Jobs, Start(p) PROVE TypeOK'
    BY <2>1 DEF Start
  <2>2. ASSUME NEW p \in Jobs, Connect(p) PROVE TypeOK'
    BY <2>2 DEF Connect
  <2>3. ASSUME NEW p \in Jobs, CheckExists(p) PROVE TypeOK'
    BY <2>3 DEF CheckExists
  <2>4. ASSUME NEW p \in Jobs, Create(p) PROVE TypeOK'
    BY <2>4 DEF Create
  <2>5. ASSUME NEW p \in Jobs, SetKey(p) PROVE TypeOK'
    BY <2>5 DEF SetKey
  <2>6. ASSUME NEW p \in Jobs, EndBody(p) PROVE TypeOK'
    BY <2>6 DEF EndBody
  <2>7. ASSUME NEW p \in Jobs, Finally(p) PROVE TypeOK'
    BY <2>7 DEF Finally
  <2>8. ASSUME NEW p \in Jobs, Crash(p) PROVE TypeOK'
    BY <2>8 DEF Crash
  <2>9. CASE Unlock \/ UNCHANGED vars
    BY <2>9 DEF Unlock, vars
  <2>10. QED
    BY <2>1, <2>2, <2>3, <2>4, <2>5, <2>6, <2>7, <2>8, <2>9 DEF Next, Step
<1>3. QED
  BY <1>1, <1>2, PTL DEF Spec

(***************************************************************************)
(* With --autounlock, whatever the service, the jobs' number and the runs  *)
(* of --unlock, an entry that no job will delete is left only by a step in *)
(* which a job is killed or its delete fails (lines 109-119, 139-148).     *)
(***************************************************************************)
THEOREM OnlyFaultsAbandon ==
  ASSUME AutoUnlock
  PROVE  Spec => AbandonedOnlyByFault
<1> USE ServiceLockAssumption DEF Running, Requests, Ended
<1> DEFINE Fault == \E p \in Jobs : pc[p] # pc'[p] /\ pc'[p] \in {"killed", "error"}
<1>1. TypeOK /\ [Next]_vars => (Abandoned' /\ ~Abandoned => Fault)
  <2> SUFFICES ASSUME TypeOK, [Next]_vars, Abandoned', ~Abandoned PROVE Fault
    OBVIOUS
  <2> USE DEF TypeOK, Abandoned, Goto
  <2>1. ASSUME NEW p \in Jobs, Start(p) PROVE Fault
    BY <2>1 DEF Start
  <2>2. ASSUME NEW p \in Jobs, Connect(p) PROVE Fault
    BY <2>2 DEF Connect
  <2>3. ASSUME NEW p \in Jobs, CheckExists(p) PROVE Fault
    BY <2>3 DEF CheckExists
  <2>4. ASSUME NEW p \in Jobs, Create(p) PROVE Fault
    BY <2>4 DEF Create
  <2>5. ASSUME NEW p \in Jobs, SetKey(p) PROVE Fault
    BY <2>5 DEF SetKey
  <2>6. ASSUME NEW p \in Jobs, EndBody(p) PROVE Fault
    BY <2>6 DEF EndBody
  <2>7. ASSUME NEW p \in Jobs, Finally(p) PROVE Fault
    BY <2>7 DEF Finally
  <2>8. ASSUME NEW p \in Jobs, Crash(p) PROVE Fault
    BY <2>8 DEF Crash
  <2>9. CASE Unlock \/ UNCHANGED vars
    BY <2>9 DEF Unlock, vars
  <2>10. QED
    BY <2>1, <2>2, <2>3, <2>4, <2>5, <2>6, <2>7, <2>8, <2>9 DEF Next, Step
<1>2. QED
  BY <1>1, TypeCorrect, PTL DEF Spec, AbandonedOnlyByFault
-----------------------------------------------------------------------------
(***************************************************************************)
(* The entry names whoever is inside, so that a create (which needs the    *)
(* node absent) cannot succeed meanwhile.                                  *)
(***************************************************************************)
InsideIsNamed == \A p \in Jobs : pc[p] = "inside" => entry = p

(* A job that is about to enter its block without looking once more finds  *)
(* nobody there: this is all that SET relies on.                           *)
SetFindsNobody ==
  service = "redis" => \A p \in Jobs : pc[p] = "create" => Inside = {}

(* From these two invariants, entering the block is a step of MutexLock    *)
(* and so is leaving it; no other step changes who is inside.              *)
LEMMA StepRefines ==
  TypeOK /\ InsideIsNamed /\ SetFindsNobody /\ [Next]_vars
    => [Mutex!Next]_Inside
<1> SUFFICES ASSUME TypeOK, InsideIsNamed, SetFindsNobody, [Next]_vars
             PROVE  Mutex!Next \/ Inside' = Inside
  BY DEF Mutex!Next
<1> USE ServiceLockAssumption DEF TypeOK, Goto, Running, Requests, Ended
<1>1. ASSUME NEW p \in Jobs, Start(p) \/ Connect(p) \/ CheckExists(p)
      PROVE Inside' = Inside
  BY <1>1 DEF Start, Connect, CheckExists, Inside
<1>2. ASSUME NEW p \in Jobs, Finally(p) PROVE Inside' = Inside
  BY <1>2 DEF Finally, Inside
<1>3. ASSUME NEW p \in Jobs, Create(p) \/ SetKey(p)
      PROVE Mutex!Next \/ Inside' = Inside
  <2>1. CASE pc'[p] = "inside"
    <3>1. Inside = {}
      BY <1>3, <2>1 DEF Create, SetKey, InsideIsNamed, SetFindsNobody, Inside
    <3>2. Inside' = {p}
      BY <1>3, <2>1, <3>1 DEF Create, SetKey, Inside
    <3>3. QED
      BY <3>1, <3>2 DEF Mutex!Next, Mutex!Enter
  <2>2. CASE pc'[p] # "inside"
    BY <1>3, <2>2 DEF Create, SetKey, Inside
  <2>3. QED
    BY <2>1, <2>2
<1>4. ASSUME NEW p \in Jobs, EndBody(p) PROVE Mutex!Next
  <2>1. p \in Inside /\ Inside' = Inside \ {p}
    BY <1>4 DEF EndBody, Inside
  <2>2. QED
    BY <2>1 DEF Mutex!Next, Mutex!Leave
<1>5. ASSUME NEW p \in Jobs, Crash(p) PROVE Mutex!Next \/ Inside' = Inside
  <2>1. Inside' = Inside \ {p}
    BY <1>5 DEF Crash, Inside
  <2>2. QED
    BY <2>1 DEF Mutex!Next, Mutex!Leave
<1>6. CASE Unlock \/ UNCHANGED vars
  BY <1>6 DEF Unlock, vars, Inside
<1>7. QED
  BY <1>1, <1>2, <1>3, <1>4, <1>5, <1>6 DEF Next, Step

LEMMA InitRefines == Init => Mutex!Init
  BY DEF Init, Mutex!Init, Inside

(* With --noautounlock, and --unlock run only when nobody works, the       *)
(* ZooKeeper lock excludes for any number of jobs that start at any time,  *)
(* with lost answers, failed requests and jobs killed anywhere.            *)
THEOREM KeptNodeExcludes ==
  ASSUME ~AutoUnlock, Cleaner # "anytime", Services = {"zookeeper"}
  PROVE  Spec => ImplementsMutex
<1> USE ServiceLockAssumption DEF Running, Requests, Ended
<1>1. Init => InsideIsNamed
  BY DEF Init, InsideIsNamed
<1>2. TypeOK /\ InsideIsNamed /\ [Next]_vars => InsideIsNamed'
  <2> SUFFICES ASSUME TypeOK, InsideIsNamed, [Next]_vars PROVE InsideIsNamed'
    OBVIOUS
  <2> USE DEF TypeOK, InsideIsNamed, Goto
  <2>1. ASSUME NEW p \in Jobs, Start(p) PROVE InsideIsNamed'
    BY <2>1 DEF Start
  <2>2. ASSUME NEW p \in Jobs, Connect(p) PROVE InsideIsNamed'
    BY <2>2 DEF Connect
  <2>3. ASSUME NEW p \in Jobs, CheckExists(p) PROVE InsideIsNamed'
    BY <2>3 DEF CheckExists
  <2>4. ASSUME NEW p \in Jobs, Create(p) PROVE InsideIsNamed'
    BY <2>4 DEF Create
  <2>5. ASSUME NEW p \in Jobs, SetKey(p) PROVE InsideIsNamed'
    BY <2>5 DEF SetKey
  <2>6. ASSUME NEW p \in Jobs, EndBody(p) PROVE InsideIsNamed'
    BY <2>6 DEF EndBody
  <2>7. ASSUME NEW p \in Jobs, Finally(p) PROVE InsideIsNamed'
    BY <2>7 DEF Finally
  <2>8. ASSUME NEW p \in Jobs, Crash(p) PROVE InsideIsNamed'
    BY <2>8 DEF Crash
  <2>9. CASE Unlock \/ UNCHANGED vars
    BY <2>9 DEF Unlock, vars
  <2>10. QED
    BY <2>1, <2>2, <2>3, <2>4, <2>5, <2>6, <2>7, <2>8, <2>9 DEF Next, Step
<1>3. TypeOK => SetFindsNobody
  BY DEF TypeOK, SetFindsNobody
<1>4. QED
  BY <1>1, <1>2, <1>3, InitRefines, StepRefines, TypeCorrect, PTL
     DEF Spec, ImplementsMutex, Mutex!Spec
-----------------------------------------------------------------------------
(***************************************************************************)
(* With --autounlock every job that tried to create deletes, so the entry  *)
(* names its holder only if nobody tries while somebody holds.             *)
(***************************************************************************)
TurnInv ==
  /\ \A p, q \in Acquiring : p = q
  /\ \A p \in Jobs : pc[p] \in {"inside", "finally"} => entry = p
  /\ \A p \in Jobs : pc[p] = "create" => entry = Absent
  /\ \A p, q \in Jobs : pc[p] = "cleanup" => pc[q] \notin {"inside", "finally"}

(* Jobs whose acquisitions do not overlap exclude one another, with either *)
(* service, with and without --autounlock, whatever fails and whoever is   *)
(* killed, if --unlock is run only when nobody works.                      *)
THEOREM StaggeredJobsExclude ==
  ASSUME Staggered, Cleaner # "anytime"
  PROVE  Spec => ImplementsMutex
<1> USE ServiceLockAssumption DEF Running, Requests, Ended
<1>1. Init => TurnInv
  BY DEF Init, TurnInv, Acquiring
<1>2. TypeOK /\ TurnInv /\ [Next]_vars => TurnInv'
  <2> SUFFICES ASSUME TypeOK, TurnInv, [Next]_vars PROVE TurnInv'
    OBVIOUS
  <2> USE DEF TypeOK, TurnInv, Acquiring, Goto
  <2>1. ASSUME NEW p \in Jobs, Start(p) PROVE TurnInv'
    BY <2>1 DEF Start
  <2>2. ASSUME NEW p \in Jobs, Connect(p) PROVE TurnInv'
    BY <2>2 DEF Connect
  <2>3. ASSUME NEW p \in Jobs, CheckExists(p) PROVE TurnInv'
    BY <2>3 DEF CheckExists
  <2>4. ASSUME NEW p \in Jobs, Create(p) PROVE TurnInv'
    BY <2>4 DEF Create
  <2>5. ASSUME NEW p \in Jobs, SetKey(p) PROVE TurnInv'
    BY <2>5 DEF SetKey
  <2>6. ASSUME NEW p \in Jobs, EndBody(p) PROVE TurnInv'
    BY <2>6 DEF EndBody
  <2>7. ASSUME NEW p \in Jobs, Finally(p) PROVE TurnInv'
    BY <2>7 DEF Finally
  <2>8. ASSUME NEW p \in Jobs, Crash(p) PROVE TurnInv'
    BY <2>8 DEF Crash
  <2>9. CASE Unlock \/ UNCHANGED vars
    BY <2>9 DEF Unlock, vars
  <2>10. QED
    BY <2>1, <2>2, <2>3, <2>4, <2>5, <2>6, <2>7, <2>8, <2>9 DEF Next, Step
<1>3. TypeOK /\ TurnInv => InsideIsNamed /\ SetFindsNobody
  BY DEF TypeOK, TurnInv, InsideIsNamed, SetFindsNobody, Inside
<1>4. QED
  BY <1>1, <1>2, <1>3, InitRefines, StepRefines, TypeCorrect, PTL
     DEF Spec, ImplementsMutex, Mutex!Spec
=============================================================================
