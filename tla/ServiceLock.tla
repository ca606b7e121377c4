----------------------------- MODULE ServiceLock -----------------------------
(***************************************************************************)
(* check_zookeeper_lock and check_redis_lock of helpers/lock.py: a         *)
(* persistent ZooKeeper node or a Redis key per lock key.  The two go      *)
(* through the same steps and differ in how they write and delete.  Every  *)
(* request to the service is a step; a request may fail for the client     *)
(* although the service has carried it out.                                *)
(***************************************************************************)
EXTENDS Integers

CONSTANTS
  Jobs,        \* processes, on any host, that use the same key
  Services,    \* the services considered, of "zookeeper" and "redis"
  Absent,      \* the value of a node or key that does not exist
  AutoUnlock,  \* --autounlock
  Cleaner,     \* when somebody runs --unlock: "never", "idle" or "anytime"
  FailAt,      \* the requests that may fail, by the step that makes them
  Staggered,   \* whether jobs are started far enough apart to take turns
  CrashAt      \* the steps before which a job may be killed

VARIABLES
  service,     \* the service in use (--usezklock or --useredislock)
  entry,       \* Absent, or the job whose value the node or key holds
  pc           \* the next step of each job, or how its last run ended

vars == <<service, entry, pc>>

Requests == {"connect", "exists", "create", "finally", "cleanup"}
Running  == Requests \cup {"inside"}
Ended    == {"new", "done", "gaveup", "error", "killed"}

ASSUME ServiceLockAssumption ==
  /\ Services \subseteq {"zookeeper", "redis"}
  /\ Absent \notin Jobs
  /\ {AutoUnlock, Staggered} \subseteq BOOLEAN
  /\ Cleaner \in {"never", "idle", "anytime"}
  /\ FailAt \subseteq Requests
  /\ CrashAt \subseteq Running

Init == /\ service \in Services
        /\ entry = Absent
        /\ pc = [p \in Jobs |-> "new"]

Goto(p, step) == pc' = [pc EXCEPT ![p] = step]

Inside == {p \in Jobs : pc[p] = "inside"}
Acquiring == {p \in Jobs : pc[p] \in {"connect", "exists", "create", "cleanup"}}

Start(p) == /\ pc[p] \in Ended
            /\ Staggered => Acquiring = {}
            /\ Goto(p, IF service = "zookeeper" THEN "connect" ELSE "exists")
            /\ UNCHANGED <<service, entry>>

(* Every exception before the lock is tried for exits with status 0. *)
Connect(p) ==
  /\ pc[p] = "connect"
  /\ \/ Goto(p, "exists")
     \/ "connect" \in FailAt /\ Goto(p, "gaveup")
  /\ UNCHANGED <<service, entry>>

(* Plausible bug: a service that does not answer is taken for a free key. *)
CheckFailsOpen(p) ==
  /\ pc[p] = "exists"
  /\ \/ entry = Absent /\ Goto(p, "create")
     \/ entry # Absent /\ Goto(p, "gaveup")
     \/ "exists" \in FailAt /\ Goto(p, "create")
  /\ UNCHANGED <<service, entry>>

(***************************************************************************)
(* Lines 102 and 132.  The sys.exit(1) of a running lock is caught by the  *)
(* bare `except` that follows it, so that the job ends like one that lost  *)
(* its connection, with status 0.                                          *)
(***************************************************************************)
CheckExists(p) ==
  /\ pc[p] = "exists"
  /\ \/ entry = Absent /\ Goto(p, "create")
     \/ entry # Absent /\ Goto(p, "gaveup")
     \/ "exists" \in FailAt /\ Goto(p, "gaveup")
  /\ UNCHANGED <<service, entry>>

(* Plausible bug: the node is created without the job's value. *)
CreateUnnamed(p) ==
  /\ service = "zookeeper" /\ pc[p] = "create"
  /\ \/ entry = Absent /\ entry' = "" /\ Goto(p, "inside")
     \/ entry # Absent /\ UNCHANGED entry /\ Goto(p, "cleanup")
  /\ UNCHANGED service

(***************************************************************************)
(* zk.create fails when the node exists; its `sys.exit(0)` is inside the   *)
(* outer `try`, so the job passes through `finally` ("cleanup" here).      *)
(***************************************************************************)
Create(p) ==
  /\ service = "zookeeper" /\ pc[p] = "create"
  /\ \/ entry = Absent /\ entry' = p /\ Goto(p, "inside")
     \/ entry # Absent /\ UNCHANGED entry /\ Goto(p, "cleanup")
     \/ /\ "create" \in FailAt
        /\ entry' \in IF entry = Absent THEN {Absent, p} ELSE {entry}
        /\ Goto(p, "cleanup")
  /\ UNCHANGED service

(* Plausible bug: a failed SET leaves the function without a clean-up. *)
SetNoCleanup(p) ==
  /\ service = "redis" /\ pc[p] = "create"
  /\ \/ entry' = p /\ Goto(p, "inside")
     \/ "create" \in FailAt /\ entry' \in {entry, p} /\ Goto(p, "gaveup")
  /\ UNCHANGED service

(* SET overwrites; after an error the job still passes through `finally`. *)
SetKey(p) ==
  /\ service = "redis" /\ pc[p] = "create"
  /\ \/ entry' = p /\ Goto(p, "inside")
     \/ "create" \in FailAt /\ entry' \in {entry, p} /\ Goto(p, "cleanup")
  /\ UNCHANGED service

EndBody(p) == /\ pc[p] = "inside"
              /\ Goto(p, "finally")
              /\ UNCHANGED <<service, entry>>

(***************************************************************************)
(* The `finally` clauses delete whatever is there, whoever wrote it.       *)
(* zk.delete of a node that is gone raises, and that exception replaces    *)
(* the exit; DELETE of a key that is gone does not.                        *)
(***************************************************************************)
Finally(p) ==
  LET deleted == IF AutoUnlock THEN Absent ELSE entry
      missing == service = "zookeeper" /\ AutoUnlock /\ entry = Absent
      how == IF pc[p] = "finally" THEN "done" ELSE "gaveup"
  IN /\ pc[p] \in {"finally", "cleanup"}
     /\ \/ entry' = deleted /\ Goto(p, IF missing THEN "error" ELSE how)
        \/ /\ AutoUnlock /\ pc[p] \in FailAt
           /\ entry' \in {entry, Absent}
           /\ Goto(p, "error")
     /\ UNCHANGED service

(* A run with --unlock; when "idle", its user has seen that nobody works. *)
Unlock == /\ Cleaner # "never" /\ entry # Absent
          /\ Cleaner = "idle" => \A p \in Jobs : pc[p] \notin {"inside", "finally"}
          /\ entry' = Absent
          /\ UNCHANGED <<service, pc>>

Crash(p) == /\ pc[p] \in CrashAt
            /\ Goto(p, "killed")
            /\ UNCHANGED <<service, entry>>

Step(p) == \/ Connect(p) \/ CheckExists(p) \/ Create(p) \/ SetKey(p)
           \/ EndBody(p) \/ Finally(p)

Next == (\E p \in Jobs : Start(p) \/ Step(p) \/ Crash(p)) \/ Unlock

Spec == Init /\ [][Next]_vars
-----------------------------------------------------------------------------
TypeOK == /\ service \in Services
          /\ entry \in Jobs \cup {Absent}
          /\ pc \in [Jobs -> Running \cup Ended]

(* With --autounlock only a kill or a failing delete leaves an entry that  *)
(* no job will delete any more: not a lost race, a failed request before   *)
(* it or a write whose answer was lost (what the clean-up is good for).    *)
Abandoned ==
  entry # Absent /\ \A p \in Jobs : pc[p] \notin {"inside", "finally", "cleanup"}

AbandonedOnlyByFault ==
  [][Abandoned' /\ ~Abandoned
       => \E p \in Jobs : pc[p] # pc'[p] /\ pc'[p] \in {"killed", "error"}]_vars

(* What the `with` block promises, as a property and as a refinement.      *)
MutualExclusion == \A p, q \in Inside : p = q

Mutex == INSTANCE MutexLock WITH inside <- Inside
ImplementsMutex == Mutex!Spec
=============================================================================
