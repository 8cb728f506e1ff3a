------------------------------- MODULE GpuSlot -------------------------------
(***************************************************************************)
(* What a GPU coordinator promises its callers (src/argus_cortex/gpu.py,   *)
(* GpuCoordinator): a lease() call asks for the card, waits, and then      *)
(* either runs its job or gives up.  At most one job runs at a time, and   *)
(* no caller waits forever, however long the running job takes.            *)
(***************************************************************************)

CONSTANTS Calls,     \* the lease() calls of the host
          Procs,     \* the processes they belong to
          ProcOf     \* ProcOf[c]: the process of call c

VARIABLES waiting,   \* calls inside lease(), before the body
          running    \* calls whose body runs

vars == <<waiting, running>>

Init == waiting = {} /\ running = {}

(* A call enters lease(). *)
Ask(c) ==
    /\ c \notin waiting \cup running
    /\ waiting' = waiting \cup {c}
    /\ UNCHANGED running

(* The body of the `with` block starts: no other job is running. *)
Start(c) ==
    /\ c \in waiting
    /\ running = {}
    /\ running' = {c}
    /\ waiting' = waiting \ {c}

(* lease() raises before the body: a timeout or any other exception. *)
GiveUp(c) ==
    /\ c \in waiting
    /\ waiting' = waiting \ {c}
    /\ UNCHANGED running

(* The body returns or raises. *)
Finish(c) ==
    /\ c \in running
    /\ running' = running \ {c}
    /\ UNCHANGED waiting

(* A process dies with every call it had under way. *)
Crash(p) ==
    /\ waiting' = {c \in waiting : ProcOf[c] # p}
    /\ running' = {c \in running : ProcOf[c] # p}

Next ==
    \/ \E c \in Calls : Ask(c) \/ Start(c) \/ GiveUp(c) \/ Finish(c)
    \/ \E p \in Procs : Crash(p)

Spec == Init /\ [][Next]_vars

(* A waiting call is served or gives up; nothing is asked of the job. *)
Fairness == \A c \in Calls : WF_vars(Start(c) \/ GiveUp(c))

FairSpec == Spec /\ Fairness
=============================================================================
