--------------------------- MODULE FileLock_proofs ---------------------------
(***************************************************************************)
(* What holds of FileLock for every set of jobs and every setting of the   *)
(* flags that the theorem's assumptions leave open.                        *)
(***************************************************************************)
EXTENDS FileLock, TLAPS

(* Every reachable state has the types of TypeOK; in particular a          *)
(* descriptor left open by a job between lines 72 and 74 is known.         *)
THEOREM TypeCorrect == Spec => []TypeOK
<1> USE FileLockAssumption DEF Ended, Running, Entrants
<1>1. Init => TypeOK
  BY DEF Init, TypeOK
<1>2. TypeOK /\ [Next]_vars => TypeOK'
  <2> SUFFICES ASSUME TypeOK, [Next]_vars PROVE TypeOK'
    OBVIOUS
  <2> USE DEF TypeOK, Goto, Ends, RemoveFile
  <2>1. ASSUME NEW p \in Jobs, Start(p) PROVE TypeOK'
    BY <2>1 DEF Start
  <2>2. ASSUME NEW p \in Jobs, CheckExists(p) PROVE TypeOK'
    BY <2>2 DEF CheckExists
  <2>3. ASSUME NEW p \in Jobs, ReadPid(p) PROVE TypeOK'
    BY <2>3 DEF ReadPid
  <2>4. ASSUME NEW p \in Jobs, Probe(p) PROVE TypeOK'
    BY <2>4 DEF Probe
  <2>5. ASSUME NEW p \in Jobs, Kill(p) PROVE TypeOK'
    BY <2>5 DEF Kill, PidExists
  <2>6. ASSUME NEW p \in Jobs, RemoveStale(p) PROVE TypeOK'
    BY <2>6 DEF RemoveStale
  <2>7. ASSUME NEW p \in Jobs, Open(p) PROVE TypeOK'
    BY <2>7 DEF Open
  <2>8. ASSUME NEW p \in Jobs, Write(p) PROVE TypeOK'
    BY <2>8 DEF Write
  <2>9. ASSUME NEW p \in Jobs, EndBody(p) PROVE TypeOK'
    BY <2>9 DEF EndBody
  <2>10. ASSUME NEW p \in Jobs, Finally(p) \/ Exit(p) PROVE TypeOK'
    BY <2>10 DEF Finally, Exit
  <2>11. ASSUME NEW p \in Jobs, Crash(p) PROVE TypeOK'
    BY <2>11 DEF Crash
  <2>12. ASSUME NEW p \in Jobs, RunOver(p) PROVE TypeOK'
    BY <2>12 DEF RunOver
  <2>13. ASSUME Unlock PROVE TypeOK'
    BY <2>13 DEF Unlock
  <2>14. CASE UNCHANGED vars
    BY <2>14 DEF vars
  <2>15. QED
    BY <2>1, <2>2, <2>3, <2>4, <2>5, <2>6, <2>7, <2>8, <2>9, <2>10, <2>11,
       <2>12, <2>13, <2>14 DEF Next, Step
<1>3. QED
  BY <1>1, <1>2, PTL DEF Spec
-----------------------------------------------------------------------------
(***************************************************************************)
(* Only `finally` takes a job that lives out of Responsible, and it takes  *)
(* the file with it.                                                       *)
(***************************************************************************)

(* A lock file that nobody will remove is left only by a step that kills a *)
(* job, for every number of jobs, with failing writes, reused pids and     *)
(* --unlock runs at any moment (lines 70-81).                              *)
THEOREM OnlyKillsAbandon ==
  ASSUME AutoUnlock
  PROVE  Spec => AbandonedOnlyByKill
<1> USE FileLockAssumption DEF Ended, Running
<1> DEFINE Killing == \E p \in Jobs : pc[p] # "killed" /\ pc'[p] = "killed"
<1>1. TypeOK /\ [Next]_vars => (Abandoned' /\ ~Abandoned => Killing)
  <2> SUFFICES ASSUME TypeOK, [Next]_vars, Abandoned', ~Abandoned PROVE Killing
    OBVIOUS
  <2> USE DEF TypeOK, Entrants, Abandoned, Responsible, Goto, Ends, RemoveFile
  <2>1. ASSUME NEW p \in Jobs, Start(p) PROVE Killing
    BY <2>1 DEF Start
  <2>2. ASSUME NEW p \in Jobs, CheckExists(p) PROVE Killing
    BY <2>2 DEF CheckExists
  <2>3. ASSUME NEW p \in Jobs, ReadPid(p) PROVE Killing
    BY <2>3 DEF ReadPid
  <2>4. ASSUME NEW p \in Jobs, Probe(p) PROVE Killing
    BY <2>4 DEF Probe
  <2>5. ASSUME NEW p \in Jobs, Kill(p) PROVE Killing
    BY <2>5 DEF Kill, PidExists
  <2>6. ASSUME NEW p \in Jobs, RemoveStale(p) PROVE Killing
    BY <2>6 DEF RemoveStale
  <2>7. ASSUME NEW p \in Jobs, Open(p) PROVE Killing
    BY <2>7 DEF Open
  <2>8. ASSUME NEW p \in Jobs, Write(p) PROVE Killing
    BY <2>8 DEF Write
  <2>9. ASSUME NEW p \in Jobs, EndBody(p) PROVE Killing
    BY <2>9 DEF EndBody
  <2>10. ASSUME NEW p \in Jobs, Finally(p) \/ Exit(p) PROVE Killing
    BY <2>10 DEF Finally, Exit
  <2>11. ASSUME NEW p \in Jobs, Crash(p) PROVE Killing
    BY <2>11 DEF Crash
  <2>12. ASSUME NEW p \in Jobs, RunOver(p) PROVE Killing
    BY <2>12 DEF RunOver
  <2>13. ASSUME Unlock PROVE Killing
    BY <2>13 DEF Unlock
  <2>14. CASE UNCHANGED vars
    BY <2>14 DEF vars
  <2>15. QED
    BY <2>1, <2>2, <2>3, <2>4, <2>5, <2>6, <2>7, <2>8, <2>9, <2>10, <2>11,
       <2>12, <2>13, <2>14 DEF Next, Step
<1>2. QED
  BY <1>1, TypeCorrect, PTL DEF Spec, AbandonedOnlyByKill
-----------------------------------------------------------------------------
(***************************************************************************)
(* A pid that the lock file or a contender names is not given out again    *)
(* (unless PidReuse), so the process that has it has been in the block, or *)
(* has ended.  With --autounlock the file itself never names a job that    *)
(* has come out of its `finally`.                                          *)
(***************************************************************************)
NamedHolds ==
  \A d \in Jobs : Named(d) => d \in Entrants \/ pc[d] \in Ended

LEMMA NamedPidsHold == ~PidReuse /\ Spec => []NamedHolds
<1> SUFFICES ASSUME ~PidReuse PROVE Spec => []NamedHolds
  OBVIOUS
<1> USE FileLockAssumption DEF Ended, Running
<1>1. Init => NamedHolds
  BY DEF Init, NamedHolds, Named
<1>2. TypeOK /\ NamedHolds /\ [Next]_vars => NamedHolds'
  <2> SUFFICES ASSUME TypeOK, NamedHolds, [Next]_vars PROVE NamedHolds'
    OBVIOUS
  <2> USE DEF TypeOK, NamedHolds, Named, Entrants, Goto, Ends, RemoveFile
  <2>1. ASSUME NEW p \in Jobs, Start(p) PROVE NamedHolds'
    BY <2>1 DEF Start
  <2>2. ASSUME NEW p \in Jobs, CheckExists(p) PROVE NamedHolds'
    BY <2>2 DEF CheckExists
  <2>3. ASSUME NEW p \in Jobs, ReadPid(p) PROVE NamedHolds'
    BY <2>3 DEF ReadPid
  <2>4. ASSUME NEW p \in Jobs, Probe(p) PROVE NamedHolds'
    BY <2>4 DEF Probe
  <2>5. ASSUME NEW p \in Jobs, Kill(p) PROVE NamedHolds'
    BY <2>5 DEF Kill, PidExists
  <2>6. ASSUME NEW p \in Jobs, RemoveStale(p) PROVE NamedHolds'
    BY <2>6 DEF RemoveStale
  <2>7. ASSUME NEW p \in Jobs, Open(p) PROVE NamedHolds'
    BY <2>7 DEF Open
  <2>8. ASSUME NEW p \in Jobs, Write(p) PROVE NamedHolds'
    BY <2>8 DEF Write
  <2>9. ASSUME NEW p \in Jobs, EndBody(p) PROVE NamedHolds'
    BY <2>9 DEF EndBody
  <2>10. ASSUME NEW p \in Jobs, Finally(p) \/ Exit(p) PROVE NamedHolds'
    BY <2>10 DEF Finally, Exit
  <2>11. ASSUME NEW p \in Jobs, Crash(p) PROVE NamedHolds'
    BY <2>11 DEF Crash
  <2>12. ASSUME NEW p \in Jobs, RunOver(p) PROVE NamedHolds'
    BY <2>12 DEF RunOver
  <2>13. ASSUME Unlock PROVE NamedHolds'
    BY <2>13 DEF Unlock
  <2>14. CASE UNCHANGED vars
    BY <2>14 DEF vars
  <2>15. QED
    BY <2>1, <2>2, <2>3, <2>4, <2>5, <2>6, <2>7, <2>8, <2>9, <2>10, <2>11,
       <2>12, <2>13, <2>14 DEF Next, Step
<1>3. QED
  BY <1>1, <1>2, TypeCorrect, PTL DEF Spec

FileNamesHolder ==
  content \in Jobs => pc[content] \in {"inside", "finally", "killed"}

LEMMA FileNamesHolders ==
  ~PidReuse /\ AutoUnlock /\ Spec => []FileNamesHolder
<1> SUFFICES ASSUME ~PidReuse, AutoUnlock PROVE Spec => []FileNamesHolder
  OBVIOUS
<1> USE FileLockAssumption DEF Ended, Running
<1>1. Init => FileNamesHolder
  BY DEF Init, FileNamesHolder
<1>2. TypeOK /\ FileNamesHolder /\ [Next]_vars => FileNamesHolder'
  <2> SUFFICES ASSUME TypeOK, FileNamesHolder, [Next]_vars PROVE FileNamesHolder'
    OBVIOUS
  <2> USE DEF TypeOK, FileNamesHolder, Named, Goto, Ends, RemoveFile
  <2>1. ASSUME NEW p \in Jobs, Start(p) \/ CheckExists(p) \/ ReadPid(p)
        PROVE FileNamesHolder'
    BY <2>1 DEF Start, CheckExists, ReadPid
  <2>2. ASSUME NEW p \in Jobs, Probe(p) PROVE FileNamesHolder'
    BY <2>2 DEF Probe
  <2>3. ASSUME NEW p \in Jobs, Kill(p) PROVE FileNamesHolder'
    BY <2>3 DEF Kill, PidExists
  <2>4. ASSUME NEW p \in Jobs, RemoveStale(p) \/ Open(p) \/ Write(p)
        PROVE FileNamesHolder'
    BY <2>4 DEF RemoveStale, Open, Write
  <2>5. ASSUME NEW p \in Jobs, EndBody(p) \/ Finally(p) \/ Exit(p)
        PROVE FileNamesHolder'
    BY <2>5 DEF EndBody, Finally, Exit
  <2>6. ASSUME NEW p \in Jobs, Crash(p) \/ RunOver(p) PROVE FileNamesHolder'
    BY <2>6 DEF Crash, RunOver
  <2>7. CASE Unlock \/ UNCHANGED vars
    BY <2>7 DEF Unlock, vars
  <2>8. QED
    BY <2>1, <2>2, <2>3, <2>4, <2>5, <2>6, <2>7 DEF Next, Step
<1>3. QED
  BY <1>1, <1>2, TypeCorrect, PTL DEF Spec

(* The pid of a contender that has read the lock file is a job's pid.      *)
SeenIsPid == \A p \in Jobs : pc[p] \in {"probe", "kill"} => seen[p] \in Jobs

LEMMA SeenPids == Spec => []SeenIsPid
<1> USE FileLockAssumption DEF Ended, Running
<1>1. Init => SeenIsPid
  BY DEF Init, SeenIsPid
<1>2. TypeOK /\ SeenIsPid /\ [Next]_vars => SeenIsPid'
  <2> SUFFICES ASSUME TypeOK, SeenIsPid, [Next]_vars PROVE SeenIsPid'
    OBVIOUS
  <2> USE DEF TypeOK, SeenIsPid, Goto, Ends, RemoveFile
  <2>1. ASSUME NEW p \in Jobs, Start(p) \/ CheckExists(p) \/ ReadPid(p)
        PROVE SeenIsPid'
    BY <2>1 DEF Start, CheckExists, ReadPid
  <2>2. ASSUME NEW p \in Jobs, Probe(p) PROVE SeenIsPid'
    BY <2>2 DEF Probe
  <2>3. ASSUME NEW p \in Jobs, Kill(p) PROVE SeenIsPid'
    BY <2>3 DEF Kill
  <2>4. ASSUME NEW p \in Jobs, RemoveStale(p) \/ Open(p) \/ Write(p)
        PROVE SeenIsPid'
    BY <2>4 DEF RemoveStale, Open, Write
  <2>5. ASSUME NEW p \in Jobs, EndBody(p) \/ Finally(p) \/ Exit(p)
        PROVE SeenIsPid'
    BY <2>5 DEF EndBody, Finally, Exit
  <2>6. ASSUME NEW p \in Jobs, Crash(p) \/ RunOver(p) PROVE SeenIsPid'
    BY <2>6 DEF Crash, RunOver
  <2>7. CASE Unlock \/ UNCHANGED vars
    BY <2>7 DEF Unlock, vars
  <2>8. QED
    BY <2>1, <2>2, <2>3, <2>4, <2>5, <2>6, <2>7 DEF Next, Step
<1>3. QED
  BY <1>1, <1>2, TypeCorrect, PTL DEF Spec

(* With --autounlock and without pid reuse a job that exits with "is       *)
(* running" (lines 59-66) read the pid of a job that held the lock, or had *)
(* been killed in its block, when the file was read, and that job's own    *)
(* process still runs: for every interleaving, crash, kill, failed write   *)
(* and --unlock run.                                                       *)
THEOREM RefusalsAreJustified ==
  ASSUME ~PidReuse, AutoUnlock PROVE Spec => RefusedOnlyByEntrant
<1> USE FileLockAssumption DEF Ended, Running
<1> DEFINE Reads(p) == pc[p] = "read" /\ pc'[p] = "probe"
           Gives(p) == pc[p] = "probe" /\ pc'[p] = "refused"
<1>1. ASSUME TypeOK, FileNamesHolder, [Next]_vars, NEW p \in Jobs, Reads(p)
      PROVE  pc[content] \in {"inside", "finally", "killed"}
  <2> SUFFICES content \in Jobs
    BY <1>1 DEF FileNamesHolder
  <2> USE DEF TypeOK, Goto, Ends, RemoveFile
  <2>1. ASSUME NEW q \in Jobs, ReadPid(q) PROVE content \in Jobs
    <3>1. p = q
      BY <1>1, <2>1 DEF ReadPid
    <3>2. QED
      BY <1>1, <2>1, <3>1 DEF ReadPid
  <2>2. ASSUME NEW q \in Jobs, Start(q) \/ CheckExists(q) \/ Probe(q)
        PROVE FALSE
    BY <1>1, <2>2 DEF Start, CheckExists, Probe
  <2>3. ASSUME NEW q \in Jobs, Kill(q) PROVE FALSE
    BY <1>1, <2>3 DEF Kill
  <2>4. ASSUME NEW q \in Jobs, RemoveStale(q) \/ Open(q) \/ Write(q)
        PROVE FALSE
    BY <1>1, <2>4 DEF RemoveStale, Open, Write
  <2>5. ASSUME NEW q \in Jobs, EndBody(q) \/ Finally(q) \/ Exit(q)
        PROVE FALSE
    BY <1>1, <2>5 DEF EndBody, Finally, Exit
  <2>6. ASSUME NEW q \in Jobs, Crash(q) \/ RunOver(q) PROVE FALSE
    BY <1>1, <2>6 DEF Crash, RunOver
  <2>7. CASE Unlock \/ UNCHANGED vars
    BY <1>1, <2>7 DEF Unlock, vars
  <2>8. QED
    BY <1>1, <2>1, <2>2, <2>3, <2>4, <2>5, <2>6, <2>7 DEF Next, Step
<1>2. ASSUME TypeOK, NamedHolds, SeenIsPid, [Next]_vars, NEW p \in Jobs, Gives(p)
      PROVE  seen[p] \in Entrants
  <2>1. PidExists(seen[p])
    <3> USE <1>2 DEF TypeOK, SeenIsPid, Goto, Ends, RemoveFile, PidExists
    <3>1. ASSUME NEW q \in Jobs, Start(q) \/ CheckExists(q) \/ ReadPid(q)
          PROVE PidExists(seen[p])
      BY <3>1 DEF Start, CheckExists, ReadPid
    <3>2. ASSUME NEW q \in Jobs, Probe(q) PROVE PidExists(seen[p])
      BY <3>2 DEF Probe
    <3>3. ASSUME NEW q \in Jobs, Kill(q) PROVE PidExists(seen[p])
      BY <3>3 DEF Kill
    <3>4. ASSUME NEW q \in Jobs, RemoveStale(q) \/ Open(q) \/ Write(q)
          PROVE PidExists(seen[p])
      BY <3>4 DEF RemoveStale, Open, Write
    <3>5. ASSUME NEW q \in Jobs, EndBody(q) \/ Finally(q) \/ Exit(q)
          PROVE PidExists(seen[p])
      BY <3>5 DEF EndBody, Finally, Exit
    <3>6. ASSUME NEW q \in Jobs, Crash(q) \/ RunOver(q)
          PROVE PidExists(seen[p])
      BY <3>6 DEF Crash, RunOver
    <3>7. CASE Unlock \/ UNCHANGED vars
      BY <3>7 DEF Unlock, vars
    <3>8. QED
      BY <3>1, <3>2, <3>3, <3>4, <3>5, <3>6, <3>7 DEF Next, Step
  <2>2. Named(seen[p]) /\ seen[p] \in Jobs
    BY <1>2 DEF Named, SeenIsPid
  <2>3. QED
    BY <1>2, <2>1, <2>2 DEF NamedHolds, PidExists
<1>3. TypeOK /\ FileNamesHolder /\ NamedHolds /\ SeenIsPid /\ [Next]_vars
        => [\A p \in Jobs :
              /\ Reads(p) => pc[content] \in {"inside", "finally", "killed"}
              /\ Gives(p) => seen[p] \in Entrants]_vars
  BY <1>1, <1>2
<1>4. QED
  BY <1>3, TypeCorrect, FileNamesHolders, NamedPidsHold, SeenPids, PTL
     DEF Spec, RefusedOnlyByEntrant

(* Without pid reuse the kill of line 63 only ever hits a job that has     *)
(* been in the block of this lock and whose own process still runs.        *)
THEOREM KillsHitEntrants ==
  ASSUME ~PidReuse PROVE Spec => OnlyEntrantsAreKilled
<1> USE FileLockAssumption DEF Ended, Running
<1> DEFINE Hits(p, d) == /\ pc[p] = "kill" /\ pc'[p] # "kill" /\ p # d
                         /\ pc[d] # "killed" /\ pc'[d] = "killed"
<1>1. ASSUME TypeOK, NamedHolds, [Next]_vars, NEW p \in Jobs, NEW d \in Jobs,
             Hits(p, d)
      PROVE  d \in Entrants
  <2> USE DEF TypeOK, Goto, Ends
  <2>1. ASSUME NEW r \in Jobs, Kill(r) PROVE d \in Entrants
    <3>1. CASE d = seen[r]
      BY <1>1, <2>1, <3>1 DEF Kill, PidExists, NamedHolds, Named
    <3>2. CASE d # seen[r]
      BY <1>1, <2>1, <3>2 DEF Kill
    <3>3. QED
      BY <3>1, <3>2
  <2>2. ASSUME NEW r \in Jobs, ~Kill(r), Start(r) \/ Step(r) \/ Crash(r) \/ RunOver(r)
        PROVE  FALSE
    <3>1. r = p
      BY <1>1, <2>2 DEF Start, Step, Crash, RunOver, CheckExists, ReadPid, Probe,
                        RemoveStale, Open, Write, EndBody, Finally, Exit
    <3>2. r = d
      BY <1>1, <2>2 DEF Start, Step, Crash, RunOver, CheckExists, ReadPid, Probe,
                        RemoveStale, Open, Write, EndBody, Finally, Exit
    <3>3. QED
      BY <1>1, <3>1, <3>2
  <2>3. QED
    BY <1>1, <2>1, <2>2 DEF Next, Step, Unlock, vars
<1>2. TypeOK /\ NamedHolds /\ [Next]_vars
        => [\A p, d \in Jobs : Hits(p, d) => d \in Entrants]_vars
  BY <1>1
<1>3. QED
  BY <1>2, NamedPidsHold, TypeCorrect, PTL DEF Spec, OnlyEntrantsAreKilled
-----------------------------------------------------------------------------
(***************************************************************************)
(* Mutual exclusion for jobs that do not overlap while they acquire.  The  *)
(* refinement needs to know what the path holds at each step: it names     *)
(* whoever is in the block, and a contender that is past its check has     *)
(* found nobody there.                                                     *)
(***************************************************************************)
AtMostOneAcquires == \A p, q \in Acquiring : p = q

HolderIsNamed == \A p \in Jobs : pc[p] \in {"inside", "finally"} => content = p

PastTheCheck ==
  \A p \in Jobs :
    /\ pc[p] \in {"probe", "kill"} => content \in {seen[p], Absent}
    /\ pc[p] = "remove" => \A q \in Jobs : pc[q] \notin {"inside", "finally"}
    /\ pc[p] = "open" => content = Absent
    /\ pc[p] = "write" => content = Empty /\ p \in linked

TurnInv == AtMostOneAcquires /\ HolderIsNamed /\ PastTheCheck

LEMMA TakingTurns ==
  Staggered /\ ~Cleaner /\ ~WriteMayFail /\ ~OtherUsers /\ Spec => []TurnInv
<1> SUFFICES ASSUME Staggered, ~Cleaner, ~WriteMayFail, ~OtherUsers
             PROVE  Spec => []TurnInv
  OBVIOUS
<1> USE FileLockAssumption DEF Ended, Running
<1>1. Init => TurnInv
  BY DEF Init, TurnInv, AtMostOneAcquires, HolderIsNamed, PastTheCheck, Acquiring
<1>2. TypeOK /\ SeenIsPid /\ TurnInv /\ [Next]_vars => TurnInv'
  <2> SUFFICES ASSUME TypeOK, SeenIsPid, TurnInv, [Next]_vars PROVE TurnInv'
    OBVIOUS
  <2> USE DEF TypeOK, TurnInv, AtMostOneAcquires, HolderIsNamed, PastTheCheck,
              Acquiring, Goto, Ends, RemoveFile
  <2>1. ASSUME NEW p \in Jobs, Start(p) PROVE TurnInv'
    BY <2>1 DEF Start
  <2>2. ASSUME NEW p \in Jobs, CheckExists(p) PROVE TurnInv'
    BY <2>2 DEF CheckExists
  <2>3. ASSUME NEW p \in Jobs, ReadPid(p) PROVE TurnInv'
    BY <2>3 DEF ReadPid
  <2>4. ASSUME NEW p \in Jobs, Probe(p) PROVE TurnInv'
    BY <2>4 DEF Probe, PidExists, SeenIsPid
  <2>5. ASSUME NEW p \in Jobs, Kill(p) PROVE TurnInv'
    BY <2>5 DEF Kill, PidExists, SeenIsPid
  <2>6. ASSUME NEW p \in Jobs, RemoveStale(p) PROVE TurnInv'
    BY <2>6 DEF RemoveStale
  <2>7. ASSUME NEW p \in Jobs, Open(p) PROVE TurnInv'
    BY <2>7 DEF Open
  <2>8. ASSUME NEW p \in Jobs, Write(p) PROVE TurnInv'
    BY <2>8 DEF Write
  <2>9. ASSUME NEW p \in Jobs, EndBody(p) PROVE TurnInv'
    BY <2>9 DEF EndBody
  <2>10. ASSUME NEW p \in Jobs, Finally(p) \/ Exit(p) PROVE TurnInv'
    BY <2>10 DEF Finally, Exit
  <2>11. ASSUME NEW p \in Jobs, Crash(p) PROVE TurnInv'
    BY <2>11 DEF Crash
  <2>12. ASSUME NEW p \in Jobs, RunOver(p) PROVE TurnInv'
    BY <2>12 DEF RunOver
  <2>13. CASE Unlock \/ UNCHANGED vars
    BY <2>13 DEF Unlock, vars
  <2>14. QED
    BY <2>1, <2>2, <2>3, <2>4, <2>5, <2>6, <2>7, <2>8, <2>9, <2>10, <2>11,
       <2>12, <2>13 DEF Next, Step
<1>3. QED
  BY <1>1, <1>2, TypeCorrect, SeenPids, PTL DEF Spec

(* Jobs whose acquisitions do not overlap get what MutexLock promises,     *)
(* whatever is killed or crashes when and whichever pids come back, if     *)
(* writes succeed, nobody runs --unlock and all are of one user.           *)
THEOREM StaggeredJobsExclude ==
  ASSUME Staggered, ~Cleaner, ~WriteMayFail, ~OtherUsers
  PROVE  Spec => ImplementsMutex
<1> USE FileLockAssumption DEF Ended, Running
<1>1. Init => Mutex!Init
  BY DEF Init, Mutex!Init, Inside
<1>2. TypeOK /\ TurnInv /\ [Next]_vars => [Mutex!Next]_Inside
  <2> SUFFICES ASSUME TypeOK, TurnInv, [Next]_vars
               PROVE  Mutex!Next \/ Inside' = Inside
    BY DEF Mutex!Next
  <2> USE DEF TypeOK, Goto, Ends, RemoveFile, Inside
  <2>1. ASSUME NEW p \in Jobs, Start(p) \/ CheckExists(p) \/ ReadPid(p)
        PROVE Inside' = Inside
    BY <2>1 DEF Start, CheckExists, ReadPid
  <2>2. ASSUME NEW p \in Jobs, Probe(p) \/ RemoveStale(p)
        PROVE Inside' = Inside
    BY <2>2 DEF Probe, RemoveStale
  <2>3. ASSUME NEW p \in Jobs, Kill(p)
        PROVE Mutex!Next \/ Inside' = Inside
    <3>1. CASE seen[p] \in Inside /\ seen[p] # p
      <4>1. Inside' = Inside \ {seen[p]}
        BY <2>3, <3>1 DEF Kill, PidExists
      <4>2. QED
        BY <3>1, <4>1 DEF Mutex!Next, Mutex!Leave
    <3>2. CASE ~(seen[p] \in Inside /\ seen[p] # p)
      BY <2>3, <3>2 DEF Kill, PidExists
    <3>3. QED
      BY <3>1, <3>2
  <2>4. ASSUME NEW p \in Jobs, Open(p) PROVE Inside' = Inside
    BY <2>4 DEF Open
  <2>5. ASSUME NEW p \in Jobs, Write(p) PROVE Mutex!Next
    <3>1. Inside = {}
      BY <2>5 DEF Write, TurnInv, HolderIsNamed, PastTheCheck
    <3>2. Inside' = {p}
      BY <2>5, <3>1 DEF Write
    <3>3. QED
      BY <3>1, <3>2 DEF Mutex!Next, Mutex!Enter
  <2>6. ASSUME NEW p \in Jobs, EndBody(p) PROVE Mutex!Next
    <3>1. p \in Inside /\ Inside' = Inside \ {p}
      BY <2>6 DEF EndBody
    <3>2. QED
      BY <3>1 DEF Mutex!Next, Mutex!Leave
  <2>7. ASSUME NEW p \in Jobs, Finally(p) \/ Exit(p) PROVE Inside' = Inside
    BY <2>7 DEF Finally, Exit
  <2>8. ASSUME NEW p \in Jobs, Crash(p) PROVE Mutex!Next \/ Inside' = Inside
    <3>1. Inside' = Inside \ {p}
      BY <2>8 DEF Crash
    <3>2. QED
      BY <3>1 DEF Mutex!Next, Mutex!Leave
  <2>9. ASSUME NEW p \in Jobs, RunOver(p) PROVE Inside' = Inside
    BY <2>9 DEF RunOver
  <2>10. CASE Unlock \/ UNCHANGED vars
    BY <2>10 DEF Unlock, vars
  <2>11. QED
    BY <2>1, <2>2, <2>3, <2>4, <2>5, <2>6, <2>7, <2>8, <2>9, <2>10
       DEF Next, Step
<1>3. QED
  BY <1>1, <1>2, TypeCorrect, TakingTurns, PTL
     DEF Spec, ImplementsMutex, Mutex!Spec
=============================================================================
