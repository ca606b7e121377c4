----------------------------- MODULE MutexLock -----------------------------
(***************************************************************************)
(* What `with lock(key):` of helpers/lock.py promises to the scripts that  *)
(* use it (demo/lock_demo.py, demo/lock2_demo.py): of all the jobs started *)
(* with the same key, at most one is inside the `with` block.  The three   *)
(* lock back-ends are compared with this specification.                    *)
(***************************************************************************)
CONSTANT Jobs      \* the processes that use the same lock key

VARIABLE inside    \* the jobs that are inside the `with` block

Init == inside = {}

(* A job enters only an empty block. *)
Enter(j) == /\ inside = {}
            /\ inside' = {j}

(* A job leaves the block, normally or because it died. *)
Leave(j) == /\ j \in inside
            /\ inside' = inside \ {j}

Next == \E j \in Jobs : Enter(j) \/ Leave(j)

Spec == Init /\ [][Next]_inside
=============================================================================
