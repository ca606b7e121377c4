------------------------------ MODULE FileLock ------------------------------
(***************************************************************************)
(* check_filelock of helpers/lock.py: a lock file that holds               *)
(* "host:pid:time", created by the job that enters the `with` block and    *)
(* removed by its `finally`.  Every system call on the shared file and on  *)
(* other processes is a step of its own; a job is identified with its pid. *)
(*                                                                         *)
(* Only the pid of the file's content is kept: the host name and the time  *)
(* are written and read back (line 57) but never compared.                 *)
(***************************************************************************)
EXTENDS Integers

CONSTANTS
  Jobs,          \* pids of the machine; jobs with the same lock key get them
  Absent, Empty, \* the two contents of the path that name no pid
  None,          \* Python's None
  AutoUnlock,    \* --autounlock
  KillLockPid,   \* the values --kill_lock_pid has in the jobs' command lines
  Expire,        \* --lock_pid_expire_seconds
  Cleaner,       \* whether somebody may run a job with --unlock
  WriteMayFail,  \* whether open and write may fail (no space, no permission)
  PidReuse,      \* whether a pid the lock still names may be given out again
  OtherUsers,    \* whether jobs of several users contend for the lock
  Staggered,     \* whether jobs are started far enough apart to take turns
  CrashAt        \* the steps before which a job may be killed from outside

VARIABLES
  content,       \* what the path holds: Absent, Empty, or the pid written there
  linked,        \* jobs whose open descriptor is the file now at the path
  pc,            \* the next step of each pid, or how its last process ended
  seen,          \* the pid a contender read from the lock file (None before)
  ranOver        \* pids whose process has run for more than Expire seconds

vars == <<content, linked, pc, seen, ranOver>>

Ended   == {"new", "ok", "refused", "error", "killed"}
Running == {"exists", "read", "probe", "kill", "remove", "open", "write",
            "inside", "finally", "leaving"}

ASSUME FileLockAssumption ==
  /\ Absent # Empty /\ {Absent, Empty, None} \cap Jobs = {}
  /\ {AutoUnlock, Cleaner, WriteMayFail, PidReuse, OtherUsers, Staggered}
       \subseteq BOOLEAN
  /\ KillLockPid \subseteq BOOLEAN /\ KillLockPid # {}
  /\ Expire \in Nat
  /\ CrashAt \subseteq Running

Init == /\ content = Absent
        /\ linked = {}
        /\ pc = [p \in Jobs |-> "new"]
        /\ seen = [p \in Jobs |-> None]
        /\ ranOver = {}

(* Plausible bugs: EPERM taken for a live process; every error for a dead one. *)
PidAlwaysExists(p) == TRUE
PidNeverExists(p) == FALSE

(* The pid belongs to some process, of this lock or not. *)
PidExists(p) == pc[p] \notin Ended

(***************************************************************************)
(* get_pid_running_seconds compares the first column of `ps`, a string,    *)
(* with the int made at line 58 of lock.py.  Values carry their type, as   *)
(* == does in Python; a pid that no row equals gives None.                 *)
(***************************************************************************)
PidRunningSeconds(pid) ==
  LET rows == {<<"str", p>> : p \in {q \in Jobs : PidExists(q)}}
  IN  IF <<"int", pid>> \in rows
      THEN IF pid \in ranOver THEN Expire + 1 ELSE 0
      ELSE None

(* Python 2 orders None before every number. *)
Less(n, v) == v # None /\ n < v

MayKill(kill, pid) == /\ kill
                      /\ \/ Expire = 0
                         \/ Less(Expire, PidRunningSeconds(pid))

Goto(p, step) == pc' = [pc EXCEPT ![p] = step]

(* A process is gone; what it had read goes with it. *)
Ends(p, how) == /\ pc' = [pc EXCEPT ![p] = how]
                /\ seen' = [seen EXCEPT ![p] = None]
                /\ linked' = linked \ {p}
                /\ ranOver' = ranOver \ {p}

(* Plausible bug: a removed file taken to be still reachable by its writers. *)
RemoveKeepsLink == content' = Absent /\ UNCHANGED linked

(* os.remove of a path that exists; descriptors that are open lose the path. *)
RemoveFile == content' = Absent /\ linked' = {}

(***************************************************************************)
(* The operating system gives pid p to a new job.  Unless PidReuse, a pid  *)
(* is not given out again while the lock file or a contender names it.     *)
(* When Staggered, the earlier jobs have already acquired or given up.     *)
(***************************************************************************)
Acquiring == {p \in Jobs : pc[p] \in Running \ {"inside", "finally", "leaving"}}

Named(p) == content = p \/ \E q \in Jobs : seen[q] = p

Start(p) == /\ pc[p] \in Ended
            /\ PidReuse \/ ~Named(p)
            /\ Staggered => Acquiring = {}
            /\ Goto(p, "exists")
            /\ UNCHANGED <<content, linked, seen, ranOver>>

(* os.path.exists(lockpath). *)
CheckExists(p) ==
  /\ pc[p] = "exists"
  /\ Goto(p, IF content = Absent THEN "open" ELSE "read")
  /\ UNCHANGED <<content, linked, seen, ranOver>>

(* open().read(), split(":") and int(): the file may be gone or still empty. *)
ReadPid(p) ==
  /\ pc[p] = "read"
  /\ \/ /\ content \in {Absent, Empty}
        /\ Ends(p, "error")
     \/ /\ content \notin {Absent, Empty}
        /\ seen' = [seen EXCEPT ![p] = content]
        /\ Goto(p, "probe")
        /\ UNCHANGED <<linked, ranOver>>
  /\ UNCHANGED content

(* Plausible bug: the lock of a dead job is reported but not removed. *)
ProbeReports(p) ==
  /\ pc[p] = "probe"
  /\ Ends(p, IF PidExists(seen[p]) THEN "refused" ELSE "error")
  /\ UNCHANGED content

(***************************************************************************)
(* Lines 59-69: the process that the file names is waited for by ending,   *)
(* killed or, when pid_exists says that there is none, cleaned up after.   *)
(* pid_exists takes every OSError for a missing process, also the EPERM of *)
(* another user's; what this job and that process are is left open.        *)
(***************************************************************************)
Probe(p) ==
  /\ pc[p] = "probe"
  /\ \/ /\ PidExists(seen[p])
        /\ \E kill \in KillLockPid : ~MayKill(kill, seen[p])
        /\ Ends(p, "refused")
     \/ /\ PidExists(seen[p])
        /\ \E kill \in KillLockPid : MayKill(kill, seen[p])
        /\ Goto(p, "kill")
        /\ UNCHANGED <<linked, seen, ranOver>>
     \/ /\ OtherUsers \/ ~PidExists(seen[p])
        /\ Goto(p, "remove")
        /\ UNCHANGED <<linked, seen, ranOver>>
  /\ UNCHANGED content

(* Plausible bug: every process of the script is killed, by its name. *)
KillByName(p) ==
  LET others == {q \in Jobs \ {p} : PidExists(q)} IN
  /\ pc[p] = "kill"
  /\ pc' = [q \in Jobs |-> IF q \in others THEN "killed"
                           ELSE IF q = p THEN "remove" ELSE pc[q]]
  /\ linked' = linked \ others
  /\ ranOver' = ranOver \ others
  /\ UNCHANGED <<content, seen>>

(* os.kill(pid, 9): ESRCH when the target is gone; the target may be p. *)
Kill(p) ==
  LET d == seen[p] IN
  /\ pc[p] = "kill"
  /\ \/ ~PidExists(d) /\ Ends(p, "error")
     \/ d = p /\ Ends(p, "killed")
     \/ /\ PidExists(d) /\ d # p
        /\ pc' = [pc EXCEPT ![d] = "killed", ![p] = "remove"]
        /\ seen' = [seen EXCEPT ![d] = None]
        /\ linked' = linked \ {d}
        /\ ranOver' = ranOver \ {d}
  /\ UNCHANGED content

(* os.remove(lockpath) of a lock taken for stale: ENOENT is not caught. *)
RemoveStale(p) ==
  /\ pc[p] = "remove"
  /\ \/ content = Absent /\ Ends(p, "error") /\ UNCHANGED content
     \/ /\ content # Absent
        /\ RemoveFile
        /\ seen' = [seen EXCEPT ![p] = None]
        /\ Goto(p, "open")
        /\ UNCHANGED ranOver

(* open(lockpath, "w") creates or truncates; a failure is only logged. *)
Open(p) ==
  /\ pc[p] = "open"
  /\ \/ /\ content' = Empty
        /\ linked' = linked \cup {p}
        /\ Goto(p, "write")
     \/ /\ WriteMayFail
        /\ Goto(p, "inside")
        /\ UNCHANGED <<content, linked>>
  /\ UNCHANGED <<seen, ranOver>>

(* write and close: the text reaches the path if the path is still p's file. *)
Write(p) ==
  /\ pc[p] = "write"
  /\ \/ content' = IF p \in linked THEN p ELSE content
     \/ WriteMayFail /\ UNCHANGED content
  /\ linked' = linked \ {p}
  /\ Goto(p, "inside")
  /\ UNCHANGED <<seen, ranOver>>

(* The body of the `with` statement ends, by return or by exception. *)
EndBody(p) ==
  /\ pc[p] = "inside"
  /\ Goto(p, "finally")
  /\ UNCHANGED <<content, linked, seen, ranOver>>

(* Plausible bug: only a file that still names the job is removed. *)
FinallyOwnFile(p) ==
  /\ pc[p] = "finally"
  /\ content' = IF content = p THEN Absent ELSE content
  /\ Goto(p, "leaving")
  /\ UNCHANGED <<linked, seen, ranOver>>

(***************************************************************************)
(* The `finally` clause removes whatever is at the path, or raises ENOENT. *)
(* Either way the process goes on with the rest of its script.             *)
(***************************************************************************)
Finally(p) ==
  /\ pc[p] = "finally"
  /\ IF AutoUnlock /\ content # Absent THEN RemoveFile
                                        ELSE UNCHANGED <<content, linked>>
  /\ Goto(p, "leaving")
  /\ UNCHANGED <<seen, ranOver>>

(* The script ends, by its last line or by an exception. *)
Exit(p) ==
  /\ pc[p] = "leaving"
  /\ Ends(p, "ok")
  /\ UNCHANGED content

(* A run with --unlock removes the file and exits. *)
Unlock ==
  /\ Cleaner /\ content # Absent
  /\ RemoveFile
  /\ UNCHANGED <<pc, seen, ranOver>>

(* Environment: SIGKILL, power loss; no `finally` runs. *)
Crash(p) ==
  /\ pc[p] \in CrashAt
  /\ Ends(p, "killed")
  /\ UNCHANGED content

(* Environment: time passes for a job inside its body. *)
RunOver(p) ==
  /\ Expire > 0 /\ pc[p] = "inside" /\ p \notin ranOver
  /\ ranOver' = ranOver \cup {p}
  /\ UNCHANGED <<content, linked, pc, seen>>

Step(p) == \/ CheckExists(p) \/ ReadPid(p) \/ Probe(p) \/ Kill(p)
           \/ RemoveStale(p) \/ Open(p) \/ Write(p) \/ EndBody(p) \/ Finally(p)
           \/ Exit(p)

Next == \/ \E p \in Jobs : Start(p) \/ Step(p) \/ Crash(p) \/ RunOver(p)
        \/ Unlock

Spec == Init /\ [][Next]_vars

(***************************************************************************)
(* A running process is scheduled, bodies end, and the scheduler (cron)    *)
(* keeps starting jobs.  Crashes and --unlock runs are never promised.     *)
(***************************************************************************)
LiveSpec == Spec /\ \A p \in Jobs : WF_vars(Step(p)) /\ WF_vars(Start(p))
-----------------------------------------------------------------------------
(* Jobs that have come to the `with` block and whose process still runs.   *)
Entrants == {p \in Jobs : pc[p] \in {"inside", "finally", "leaving"}}

(* Types, and the bookkeeping of open descriptors: only a job between open *)
(* and close has one, and only while something is at the path.             *)
TypeOK ==
  /\ content \in Jobs \cup {Absent, Empty}
  /\ pc \in [Jobs -> Ended \cup Running]
  /\ seen \in [Jobs -> Jobs \cup {None}]
  /\ linked \subseteq {p \in Jobs : pc[p] = "write"}
  /\ linked # {} => content # Absent
  /\ ranOver \subseteq Entrants

(* Jobs that will still reach the `finally` clause (lines 78-81). *)
Responsible == {p \in Jobs : pc[p] \in {"write", "inside", "finally"}}

(* Nobody is left that will remove the file at the path. *)
Abandoned == content # Absent /\ Responsible = {}

(* With --autounlock only the kill of a job leaves a lock file that nobody *)
(* will remove, however the jobs interleave, whichever writes fail and     *)
(* whoever runs --unlock: a file left behind means that a job was killed.  *)
AbandonedOnlyByKill ==
  [][Abandoned' /\ ~Abandoned
       => \E p \in Jobs : pc[p] # "killed" /\ pc'[p] = "killed"]_vars

(* A job that gives up because the lock "is running" (lines 59-66) has     *)
(* read the pid of a job that then held the lock or had been killed in its *)
(* block, and a process of that job runs when it is probed: never one of   *)
(* a contender, nor one that merely got the pid.  It may have left the     *)
(* block, and removed the file, between the read and the probe.            *)
RefusedOnlyByEntrant ==
  [][\A p \in Jobs :
       /\ pc[p] = "read" /\ pc'[p] = "probe"
            => pc[content] \in {"inside", "finally", "killed"}
       /\ pc[p] = "probe" /\ pc'[p] = "refused" => seen[p] \in Entrants]_vars

(* The kill of line 63 hits jobs that have been in the block of this lock, *)
(* never one that only contends for it or a process that merely has the    *)
(* pid the file named.  A job that has left may be hit as well: its pid    *)
(* was read before it removed the file, and its script was still running.  *)
OnlyEntrantsAreKilled ==
  [][\A p, d \in Jobs : /\ pc[p] = "kill" /\ pc'[p] # "kill" /\ p # d
                        /\ pc[d] # "killed" /\ pc'[d] = "killed"
        => d \in Entrants]_vars

(* Lines 67-69: the lock of a dead job is removed by a later job, so it    *)
(* does not stop the jobs that follow for ever.                            *)
AbandonedIsRecovered == Abandoned ~> ~Abandoned

Inside == {p \in Jobs : pc[p] = "inside"}
Mutex == INSTANCE MutexLock WITH inside <- Inside

(* What the `with` block promises, MutexLock with the jobs at the yield:   *)
(* entering and leaving are its steps, and nothing else changes who is     *)
(* inside.                                                                 *)
ImplementsMutex == Mutex!Spec
=============================================================================
