------------------------------- MODULE GpuLease -------------------------------
(***************************************************************************)
(* LeaseCoordinator.lease (src/argus_cortex/gpu.py): an flock on a file    *)
(* every argus process of the host opens, then, with the lock held, a wait *)
(* until NVML reports enough free memory.  Both waits poll against one     *)
(* deadline.  Jobs allocate on the card, tenants outside the lock do too,  *)
(* and processes die and come back.                                        *)
(*                                                                         *)
(* A flock belongs to the open file description, and every lease() call    *)
(* opens its own: `holder' is the call whose descriptor has the lock.      *)
(*                                                                         *)
(* Time: left[c] is `deadline - time.monotonic()' and nap[c] what is left  *)
(* of a sleep; Tick lowers both.  A step may be delayed by any number of   *)
(* ticks, so left goes below 0; it is not followed below -PollS - 1,       *)
(* where the code no longer tells values apart.                            *)
(***************************************************************************)
EXTENDS Integers, FiniteSets

CONSTANTS
    Calls,        \* lease() calls; one that has ended may be made again
    Procs,        \* the processes that make them
    ProcOf,       \* ProcOf[c]: the process that makes call c
    Timeouts,     \* the timeout_s of the coordinators in use
    PollS,        \* poll_s
    Needs,        \* the min_vram_mb that callers pass
    Vram,         \* memory of the card
    NoCall,       \* nobody has the lock
    NoReading     \* the None of free_vram_mb

ASSUME ProcAssumption == ProcOf \in [Calls -> Procs]
ASSUME TimeAssumption == Timeouts \subseteq Nat /\ PollS \in Nat
ASSUME VramAssumption == Vram \in Nat /\ Needs \subseteq Nat
ASSUME NoneAssumption == NoCall \notin Calls /\ NoReading \notin Nat

VARIABLES
    pc,        \* where each call is
    left,      \* time to its deadline
    nap,       \* time to the end of its sleep
    need,      \* its min_vram_mb
    reading,   \* the last answer of its probe
    holder,    \* the call whose descriptor holds the flock
    nvml,      \* _nvml_ready of each process
    used,      \* memory in use on the card, by anyone
    alloc,     \* memory the body of each call has allocated
    sure       \* history: the reading is a number, and since it was taken no
               \* tenant outside the lock has allocated

callVars == <<pc, left, nap, need, reading>>
cardVars == <<used, alloc, sure>>
vars == <<pc, left, nap, need, reading, holder, nvml, used, alloc, sure>>

LockWait == {"trylock", "lockedout", "locknap"}
RoomWait == {"probe", "answered", "roomnap"}
Locations == LockWait \cup RoomWait \cup {"idle", "body", "unlock", "close"}

(* Deadlines are not followed further below zero than this. *)
Floor == -PollS - 1
Free == Vram - used

Goto(c, loc) == pc' = [pc EXCEPT ![c] = loc]

-----------------------------------------------------------------------------
(* Slips one could make in this code.  The specification does not use      *)
(* them; the properties at the end must tell each from what the code does. *)

\* fcntl.lockf: POSIX locks belong to the process, not to the descriptor.
TakeLockPosix(c) ==
    /\ pc[c] = "trylock"
    /\ holder \in Calls => ProcOf[holder] = ProcOf[c]
    /\ holder' = c
    /\ Goto(c, IF need[c] = 0 THEN "body" ELSE "probe")
    /\ UNCHANGED <<left, nap, need, reading, nvml, cardVars>>

\* flock(LOCK_SH).
TakeLockShared(c) ==
    /\ pc[c] = "trylock"
    /\ holder' = c
    /\ Goto(c, IF need[c] = 0 THEN "body" ELSE "probe")
    /\ UNCHANGED <<left, nap, need, reading, nvml, cardVars>>

\* flock without LOCK_NB.
LockedOutBlocking(c) == FALSE

\* `>' for `>=' against the deadline.
AfterLockedOutStrict(c) ==
    /\ pc[c] = "lockedout"
    /\ IF left[c] < 0
         THEN Goto(c, "close") /\ UNCHANGED nap
         ELSE Goto(c, "locknap") /\ nap' = [nap EXCEPT ![c] = PollS]
    /\ UNCHANGED <<left, need, reading, holder, nvml, cardVars>>

\* Room for all but one MB is taken for room.
RoomShort(c) == reading[c] = NoReading \/ reading[c] + 1 >= need[c]

\* No close of the descriptor: the lock stays if LOCK_UN failed.
CloseForgotten(c) ==
    /\ pc[c] = "close"
    /\ Goto(c, "idle")
    /\ left' = [left EXCEPT ![c] = 0]
    /\ need' = [need EXCEPT ![c] = 0]
    /\ reading' = [reading EXCEPT ![c] = NoReading]
    /\ sure' = [sure EXCEPT ![c] = FALSE]
    /\ UNCHANGED <<nap, holder, nvml, used, alloc>>

-----------------------------------------------------------------------------
Down(t, floor) == IF t > floor THEN t - 1 ELSE floor

Init ==
    /\ pc = [c \in Calls |-> "idle"]
    /\ left = [c \in Calls |-> 0]
    /\ nap = [c \in Calls |-> 0]
    /\ need = [c \in Calls |-> 0]
    /\ reading = [c \in Calls |-> NoReading]
    /\ holder = NoCall
    /\ nvml = [p \in Procs |-> "untried"]
    /\ used \in 0..Vram
    /\ alloc = [c \in Calls |-> 0]
    /\ sure = [c \in Calls |-> FALSE]

(* lease() is entered: the deadline is set and the lock file opened. *)
Ask(c) ==
    /\ pc[c] = "idle"
    /\ \E t \in Timeouts : left' = [left EXCEPT ![c] = t]
    /\ \E m \in Needs : need' = [need EXCEPT ![c] = m]
    /\ Goto(c, "trylock")
    /\ UNCHANGED <<nap, reading, holder, nvml, cardVars>>

(* The lock is free: take it; without a memory need the body starts. *)
TakeLock(c) ==
    /\ pc[c] = "trylock"
    /\ holder = NoCall
    /\ holder' = c
    /\ Goto(c, IF need[c] = 0 THEN "body" ELSE "probe")
    /\ UNCHANGED <<left, nap, need, reading, nvml, cardVars>>

(* BlockingIOError: another descriptor has it. *)
LockedOut(c) ==
    /\ pc[c] = "trylock"
    /\ holder # NoCall
    /\ Goto(c, "lockedout")
    /\ UNCHANGED <<left, nap, need, reading, holder, nvml, cardVars>>

(* The clock is read after the failed attempt: raise, or sleep poll_s. *)
AfterLockedOut(c) ==
    /\ pc[c] = "lockedout"
    /\ IF left[c] <= 0
         THEN Goto(c, "close") /\ UNCHANGED nap
         ELSE Goto(c, "locknap") /\ nap' = [nap EXCEPT ![c] = PollS]
    /\ UNCHANGED <<left, need, reading, holder, nvml, cardVars>>

(* free_vram_mb: NVML is initialised once per process, and a failure is    *)
(* for good; the reading itself may fail on its own.                       *)
NvmlInit(old) == IF old = "untried" THEN {"untried", "ready", "failed"} ELSE {old}
ProbeAnswers(state) == IF state = "ready" THEN {Free, NoReading} ELSE {NoReading}

Probe(c) ==
    /\ pc[c] = "probe"
    /\ \E state \in NvmlInit(nvml[ProcOf[c]]) :
         /\ nvml' = [nvml EXCEPT ![ProcOf[c]] = state]
         /\ \E free \in ProbeAnswers(state) :
              /\ reading' = [reading EXCEPT ![c] = free]
              /\ sure' = [sure EXCEPT ![c] = free # NoReading]
    /\ Goto(c, "answered")
    /\ UNCHANGED <<left, nap, need, holder, used, alloc>>

(* What _wait_for_room does with the answer. *)
Room(c) == reading[c] = NoReading \/ reading[c] >= need[c]

AfterProbe(c) ==
    /\ pc[c] = "answered"
    /\ IF Room(c) THEN Goto(c, "body") /\ UNCHANGED nap
       ELSE IF left[c] <= 0 THEN Goto(c, "unlock") /\ UNCHANGED nap
       ELSE Goto(c, "roomnap") /\ nap' = [nap EXCEPT ![c] = PollS]
    /\ UNCHANGED <<left, need, reading, holder, nvml, cardVars>>

(* time.sleep returns, and the loop it is in goes round. *)
Wake(c) ==
    /\ pc[c] \in {"locknap", "roomnap"}
    /\ nap[c] = 0
    /\ Goto(c, IF pc[c] = "locknap" THEN "trylock" ELSE "probe")
    /\ UNCHANGED <<left, nap, need, reading, holder, nvml, cardVars>>

(* flock(LOCK_UN); an OSError it raises is suppressed. *)
Unlock(c) ==
    /\ pc[c] = "unlock"
    /\ holder' \in {NoCall, holder}
    /\ Goto(c, "close")
    /\ UNCHANGED <<left, nap, need, reading, nvml, cardVars>>

(* os.close(fd): the kernel drops a lock the descriptor still has. *)
Forget(c) ==
    /\ left' = [left EXCEPT ![c] = 0]
    /\ nap' = [nap EXCEPT ![c] = 0]
    /\ need' = [need EXCEPT ![c] = 0]
    /\ reading' = [reading EXCEPT ![c] = NoReading]
    /\ sure' = [sure EXCEPT ![c] = FALSE]

Close(c) ==
    /\ pc[c] = "close"
    /\ holder' = IF holder = c THEN NoCall ELSE holder
    /\ Goto(c, "idle")
    /\ Forget(c)
    /\ UNCHANGED <<nvml, used, alloc>>

-----------------------------------------------------------------------------
(* The job, and what can go wrong.                                         *)

(* The body allocates, within the estimate its stage gave.                 *)
Allocate(c) ==
    /\ pc[c] = "body"
    /\ Free > 0
    /\ need[c] = 0 \/ alloc[c] < need[c]
    /\ used' = used + 1
    /\ alloc' = [alloc EXCEPT ![c] = @ + 1]
    /\ UNCHANGED <<callVars, holder, nvml, sure>>

(* The job's memory is returned, or stays with the process that ran it.    *)
EndJob(c) ==
    /\ \E kept \in 0..alloc[c] : used' = used - alloc[c] + kept
    /\ alloc' = [alloc EXCEPT ![c] = 0]

(* The body returns or raises. *)
Finish(c) ==
    /\ pc[c] = "body"
    /\ EndJob(c)
    /\ Goto(c, "unlock")
    /\ UNCHANGED <<left, nap, need, reading, holder, nvml, sure>>

(* An exception during a wait: an flock error other than "would block", a  *)
(* probe that raises, a KeyboardInterrupt.                                 *)
Raise(c) ==
    /\ \/ pc[c] \in LockWait /\ Goto(c, "close")
       \/ pc[c] \in RoomWait /\ Goto(c, "unlock")
    /\ nap' = [nap EXCEPT ![c] = 0]
    /\ UNCHANGED <<left, need, reading, holder, nvml, cardVars>>

(* A process dies.  The kernel closes its descriptors and the driver takes *)
(* back the memory of its jobs, and of earlier ones that kept some.        *)
Crash(p) ==
    LET Dead(c) == ProcOf[c] = p IN
    /\ pc' = [c \in Calls |-> IF Dead(c) THEN "idle" ELSE pc[c]]
    /\ left' = [c \in Calls |-> IF Dead(c) THEN 0 ELSE left[c]]
    /\ nap' = [c \in Calls |-> IF Dead(c) THEN 0 ELSE nap[c]]
    /\ need' = [c \in Calls |-> IF Dead(c) THEN 0 ELSE need[c]]
    /\ reading' = [c \in Calls |-> IF Dead(c) THEN NoReading ELSE reading[c]]
    /\ sure' = [c \in Calls |-> sure[c] /\ ~Dead(c)]
    /\ alloc' = [c \in Calls |-> IF Dead(c) THEN 0 ELSE alloc[c]]
    /\ holder' = IF holder \in Calls /\ ProcOf[holder] = p THEN NoCall ELSE holder
    /\ nvml' = [nvml EXCEPT ![p] = "untried"]
    /\ used' \in {u \in 0..used : \A c \in Calls :
                    IF Dead(c) THEN u <= used - alloc[c] ELSE u >= alloc[c]}

(* ComfyUI, Ollama, or an argus job that kept its model: no lock taken.    *)
OutsideAllocates ==
    /\ used' \in (used + 1)..Vram
    /\ sure' = [c \in Calls |-> FALSE]
    /\ UNCHANGED <<callVars, holder, nvml, alloc>>

OutsideFrees ==
    /\ used' \in {u \in 0..(used - 1) : \A c \in Calls : u >= alloc[c]}
    /\ UNCHANGED <<callVars, holder, nvml, alloc, sure>>

Tick ==
    /\ left' = [c \in Calls |-> IF pc[c] = "idle" THEN left[c] ELSE Down(left[c], Floor)]
    /\ nap' = [c \in Calls |-> Down(nap[c], 0)]
    /\ UNCHANGED <<pc, need, reading, holder, nvml, cardVars>>

-----------------------------------------------------------------------------

(* The steps the code takes by itself once lease() is entered. *)
Advance(c) ==
    \/ TakeLock(c) \/ LockedOut(c) \/ AfterLockedOut(c)
    \/ Probe(c) \/ AfterProbe(c) \/ Wake(c)
    \/ Unlock(c) \/ Close(c)

Step ==
    \/ \E c \in Calls : Advance(c) \/ Ask(c) \/ Allocate(c) \/ Finish(c) \/ Raise(c)
    \/ \E p \in Procs : Crash(p)
    \/ OutsideAllocates \/ OutsideFrees

Next == Step \/ Tick

Spec == Init /\ [][Next]_vars

(* Threads that can run do run, and time passes.  Nothing makes a job end. *)
Fairness == WF_vars(Tick) /\ \A c \in Calls : WF_vars(Advance(c))

FairSpec == Spec /\ Fairness

-----------------------------------------------------------------------------

(* Every variable stays within its type. *)
TypeOK ==
    /\ pc \in [Calls -> Locations]
    /\ left \in [Calls -> Int]
    /\ nap \in [Calls -> Nat]
    /\ need \in [Calls -> Nat]
    /\ reading \in [Calls -> Nat \cup {NoReading}]
    /\ holder \in Calls \cup {NoCall}
    /\ nvml \in [Procs -> {"untried", "ready", "failed"}]
    /\ used \in 0..Vram
    /\ alloc \in [Calls -> Nat]
    /\ sure \in [Calls -> BOOLEAN]

InLock(c) == pc[c] \in RoomWait \cup {"body", "unlock"}

(* The lock is held through the room wait, the body and the unlock (the    *)
(* class comment of LeaseCoordinator), by one call at a time; and a lock   *)
(* that is held belongs to a call that is still on its way to release it,  *)
(* whatever raised or died meanwhile.                                      *)
LockHeld == \A c \in Calls : InLock(c) => holder = c
LockOwned == holder # NoCall => pc[holder] \in RoomWait \cup {"body", "unlock", "close"}

(* One argus GPU job at a time on this host. *)
OneJob == \A c, d \in Calls : pc[c] = "body" /\ pc[d] = "body" => c = d

(* A job that started on a measured reading still finds the rest of its    *)
(* estimate free, as long as no tenant outside the lock has allocated: no  *)
(* other argus job took the room between the check and the use.            *)
RoomReserved ==
    \A c \in Calls : pc[c] = "body" /\ sure[c] => need[c] - alloc[c] <= Free

(* No sleep runs until poll_s past the deadline, whichever of the two      *)
(* waits it is in: they share one deadline.                                *)
NapWithinPoll ==
    \A c \in Calls : nap[c] > 0 => nap[c] - left[c] < PollS

(* The code path of a job that ended gives the lock back. *)
LockReturned == \A c \in Calls : pc[c] = "unlock" ~> holder # c

(* lease() implements the abstract slot: a call waits there as long as it   *)
(* is in one of the two waits, and runs as long as its body does.  With    *)
(* the fairness: every caller is served or told, whatever the others do.   *)
Waiting == {c \in Calls : pc[c] \in LockWait \cup RoomWait}
Running == {c \in Calls : pc[c] = "body"}
Slot == INSTANCE GpuSlot WITH waiting <- Waiting, running <- Running
SlotFairSpec == Slot!FairSpec
=============================================================================
