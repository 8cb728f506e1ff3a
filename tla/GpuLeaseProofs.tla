---------------------------- MODULE GpuLeaseProofs ----------------------------
(***************************************************************************)
(* Theorems about GpuLease for every set of calls and processes, every     *)
(* timeout, poll period, memory need and card size.                        *)
(***************************************************************************)
EXTENDS GpuLease, TLAPS

-----------------------------------------------------------------------------
(* The inductive invariant.                                                *)

(* Memory of a job is counted only while its body runs, and is in use.     *)
AllocOfBody == \A c \in Calls : alloc[c] # 0 => pc[c] = "body"
AllocInUse == \A c \in Calls : alloc[c] <= used

(* A reading about to be acted upon is still no more than what is free.    *)
ReadingHolds ==
    \A c \in Calls : pc[c] = "answered" /\ sure[c] =>
        reading[c] \in Nat /\ reading[c] <= Free

LockInv == LockHeld /\ LockOwned
MemInv == AllocOfBody /\ AllocInUse /\ ReadingHolds /\ RoomReserved
IInv == TypeOK /\ LockInv /\ MemInv

(* The invariant holds at first. *)
LEMMA InitIInv == Init => IInv
  <1> SUFFICES ASSUME Init PROVE IInv
    OBVIOUS
  <1> USE NoneAssumption, VramAssumption DEF Init
  <1>1. TypeOK
    BY DEF TypeOK, Locations
  <1>2. LockInv
    BY DEF LockInv, LockHeld, LockOwned, InLock, RoomWait
  <1>3. MemInv
    BY DEF MemInv, AllocOfBody, AllocInUse, ReadingHolds, RoomReserved
  <1> QED BY <1>1, <1>2, <1>3 DEF IInv

-----------------------------------------------------------------------------
(* Types.  That the memory in use stays within the card needs that a job   *)
(* which ends gives back no more than is in use.                           *)
LEMMA TypeStep == TypeOK /\ AllocInUse /\ [Next]_vars => TypeOK'
  <1> SUFFICES ASSUME TypeOK, AllocInUse, [Next]_vars PROVE TypeOK'
    OBVIOUS
  <1> USE ProcAssumption, TimeAssumption, VramAssumption, NoneAssumption DEF TypeOK
  <1>1. ASSUME NEW c \in Calls, Ask(c) PROVE TypeOK'
    <2>1. PICK t \in Timeouts : left' = [left EXCEPT ![c] = t]
      BY <1>1 DEF Ask
    <2>2. PICK m \in Needs : need' = [need EXCEPT ![c] = m]
      BY <1>1 DEF Ask
    <2>3. t \in Nat /\ m \in Nat
      OBVIOUS
    <2> QED BY <1>1, <2>1, <2>2, <2>3 DEF Ask, Goto, Locations, LockWait, cardVars
  <1>2. ASSUME NEW c \in Calls, TakeLock(c) PROVE TypeOK'
    BY <1>2 DEF TakeLock, Goto, Locations, RoomWait, cardVars
  <1>3. ASSUME NEW c \in Calls, LockedOut(c) PROVE TypeOK'
    BY <1>3 DEF LockedOut, Goto, Locations, LockWait, cardVars
  <1>4. ASSUME NEW c \in Calls, AfterLockedOut(c) PROVE TypeOK'
    BY <1>4 DEF AfterLockedOut, Goto, Locations, LockWait, cardVars
  <1>5. ASSUME NEW c \in Calls, Probe(c) PROVE TypeOK'
    <2>1. PICK s \in NvmlInit(nvml[ProcOf[c]]) :
            /\ nvml' = [nvml EXCEPT ![ProcOf[c]] = s]
            /\ \E free \in ProbeAnswers(s) :
                 /\ reading' = [reading EXCEPT ![c] = free]
                 /\ sure' = [sure EXCEPT ![c] = free # NoReading]
      BY <1>5 DEF Probe
    <2>2. PICK f \in ProbeAnswers(s) :
            /\ reading' = [reading EXCEPT ![c] = f]
            /\ sure' = [sure EXCEPT ![c] = f # NoReading]
      BY <2>1
    <2>3. s \in {"untried", "ready", "failed"}
      BY DEF NvmlInit
    <2>4. f \in Nat \cup {NoReading}
      BY DEF ProbeAnswers, Free
    <2> QED
      BY <1>5, <2>1, <2>2, <2>3, <2>4 DEF Probe, Goto, Locations, RoomWait
  <1>6. ASSUME NEW c \in Calls, AfterProbe(c) PROVE TypeOK'
    BY <1>6 DEF AfterProbe, Goto, Locations, RoomWait, cardVars
  <1>7. ASSUME NEW c \in Calls, Wake(c) PROVE TypeOK'
    BY <1>7 DEF Wake, Goto, Locations, LockWait, RoomWait, cardVars
  <1>8. ASSUME NEW c \in Calls, Unlock(c) PROVE TypeOK'
    BY <1>8 DEF Unlock, Goto, Locations, cardVars
  <1>9. ASSUME NEW c \in Calls, Close(c) PROVE TypeOK'
    BY <1>9 DEF Close, Goto, Forget, Locations
  <1>10. ASSUME NEW c \in Calls, Allocate(c) PROVE TypeOK'
    BY <1>10 DEF Allocate, Free, callVars
  <1>11. ASSUME NEW c \in Calls, Finish(c) PROVE TypeOK'
    <2>1. PICK kept \in 0..alloc[c] : used' = used - alloc[c] + kept
      BY <1>11 DEF Finish, EndJob
    <2>2. used' \in 0..Vram
      BY <2>1 DEF AllocInUse
    <2> QED BY <1>11, <2>2 DEF Finish, EndJob, Goto, Locations
  <1>12. ASSUME NEW c \in Calls, Raise(c) PROVE TypeOK'
    BY <1>12 DEF Raise, Goto, Locations, LockWait, RoomWait, cardVars
  <1>13. ASSUME NEW p \in Procs, Crash(p) PROVE TypeOK'
    BY <1>13 DEF Crash, Locations
  <1>14. ASSUME OutsideAllocates PROVE TypeOK'
    BY <1>14 DEF OutsideAllocates, callVars
  <1>15. ASSUME OutsideFrees PROVE TypeOK'
    BY <1>15 DEF OutsideFrees, callVars
  <1>16. ASSUME Tick PROVE TypeOK'
    BY <1>16 DEF Tick, Down, Floor, cardVars
  <1>17. ASSUME UNCHANGED vars PROVE TypeOK'
    BY <1>17 DEF vars
  <1> QED
    BY <1>1, <1>2, <1>3, <1>4, <1>5, <1>6, <1>7, <1>8, <1>9, <1>10, <1>11, <1>12,
       <1>13, <1>14, <1>15, <1>16, <1>17 DEF Next, Step, Advance

-----------------------------------------------------------------------------
(* The lock.  A step moves the control state of at most one call, except   *)
(* a crash, which only sends calls to "idle" and drops their lock.         *)
LEMMA LockStep == TypeOK /\ LockInv /\ [Next]_vars => LockInv'
  <1> SUFFICES ASSUME TypeOK, LockInv, [Next]_vars PROVE LockInv'
    OBVIOUS
  <1> USE NoneAssumption
      DEF TypeOK, LockInv, LockHeld, LockOwned, InLock, RoomWait
  <1>1. ASSUME NEW c \in Calls, Ask(c) PROVE LockInv'
    BY <1>1 DEF Ask, Goto
  <1>2. ASSUME NEW c \in Calls, TakeLock(c) PROVE LockInv'
    BY <1>2 DEF TakeLock, Goto
  <1>3. ASSUME NEW c \in Calls, LockedOut(c) PROVE LockInv'
    BY <1>3 DEF LockedOut, Goto
  <1>4. ASSUME NEW c \in Calls, AfterLockedOut(c) PROVE LockInv'
    BY <1>4 DEF AfterLockedOut, Goto
  <1>5. ASSUME NEW c \in Calls, Probe(c) PROVE LockInv'
    BY <1>5 DEF Probe, Goto
  <1>6. ASSUME NEW c \in Calls, AfterProbe(c) PROVE LockInv'
    BY <1>6 DEF AfterProbe, Goto
  <1>7. ASSUME NEW c \in Calls, Wake(c) PROVE LockInv'
    BY <1>7 DEF Wake, Goto
  <1>8. ASSUME NEW c \in Calls, Unlock(c) PROVE LockInv'
    BY <1>8 DEF Unlock, Goto
  <1>9. ASSUME NEW c \in Calls, Close(c) PROVE LockInv'
    BY <1>9 DEF Close, Goto
  <1>10. ASSUME NEW c \in Calls, Allocate(c) PROVE LockInv'
    BY <1>10 DEF Allocate, callVars
  <1>11. ASSUME NEW c \in Calls, Finish(c) PROVE LockInv'
    BY <1>11 DEF Finish, Goto
  <1>12. ASSUME NEW c \in Calls, Raise(c) PROVE LockInv'
    BY <1>12 DEF Raise, Goto, LockWait
  <1>13. ASSUME NEW p \in Procs, Crash(p) PROVE LockInv'
    BY <1>13 DEF Crash
  <1>14. CASE OutsideAllocates \/ OutsideFrees
    BY <1>14 DEF OutsideAllocates, OutsideFrees, callVars
  <1>15. CASE Tick
    BY <1>15 DEF Tick
  <1>16. CASE UNCHANGED vars
    BY <1>16 DEF vars
  <1> QED
    BY <1>1, <1>2, <1>3, <1>4, <1>5, <1>6, <1>7, <1>8, <1>9, <1>10, <1>11, <1>12,
       <1>13, <1>14, <1>15, <1>16 DEF Next, Step, Advance

(* One holder, so one job. *)
LEMMA OneBody == LockInv => OneJob
  BY DEF LockInv, LockHeld, InLock, OneJob

-----------------------------------------------------------------------------
(* The card's memory: a job's room is kept for it, and a reading acted on  *)
(* is no more than what is free.                                           *)
LEMMA MemStep == TypeOK /\ LockInv /\ MemInv /\ [Next]_vars => MemInv'
  <1> SUFFICES ASSUME TypeOK, LockInv, MemInv, [Next]_vars PROVE MemInv'
    OBVIOUS
  <1> USE NoneAssumption, VramAssumption, ProcAssumption
      DEF TypeOK, MemInv, AllocOfBody, AllocInUse, ReadingHolds, RoomReserved, Free
  <1>0. \A c, d \in Calls : InLock(c) /\ InLock(d) => c = d
    BY DEF LockInv, LockHeld
  <1>1. ASSUME NEW c \in Calls, Ask(c) PROVE MemInv'
    BY <1>1 DEF Ask, Goto, cardVars
  <1>2. ASSUME NEW c \in Calls, TakeLock(c) PROVE MemInv'
    BY <1>2 DEF TakeLock, Goto, cardVars
  <1>3. ASSUME NEW c \in Calls, LockedOut(c) PROVE MemInv'
    BY <1>3 DEF LockedOut, Goto, cardVars
  <1>4. ASSUME NEW c \in Calls, AfterLockedOut(c) PROVE MemInv'
    BY <1>4 DEF AfterLockedOut, Goto, cardVars
  <1>5. ASSUME NEW c \in Calls, Probe(c) PROVE MemInv'
    <2>1. PICK f \in {Free, NoReading} :
            /\ reading' = [reading EXCEPT ![c] = f]
            /\ sure' = [sure EXCEPT ![c] = f # NoReading]
      BY <1>5 DEF Probe, ProbeAnswers
    <2>2. pc' = [pc EXCEPT ![c] = "answered"] /\ UNCHANGED <<need, used, alloc>>
      BY <1>5 DEF Probe, Goto
    <2>3. Free \in Nat
      OBVIOUS
    <2>4. alloc[c] = 0
      BY <1>5 DEF Probe
    <2>5. ReadingHolds'
      <3>1. CASE f = NoReading
        <4>1. ~sure'[c]
          BY <2>1, <3>1
        <4> QED BY <2>1, <2>2, <4>1
      <3>2. CASE f = Free
        <4>1. reading'[c] = Free
          BY <2>1, <3>2
        <4> QED BY <2>1, <2>2, <2>3, <4>1
      <3> QED BY <3>1, <3>2
    <2>6. RoomReserved'
      BY <2>1, <2>2
    <2> QED BY <2>2, <2>4, <2>5, <2>6
  <1>6. ASSUME NEW c \in Calls, AfterProbe(c) PROVE MemInv'
    BY <1>6 DEF AfterProbe, Room, Goto, cardVars
  <1>7. ASSUME NEW c \in Calls, Wake(c) PROVE MemInv'
    BY <1>7 DEF Wake, Goto, cardVars
  <1>8. ASSUME NEW c \in Calls, Unlock(c) PROVE MemInv'
    BY <1>8 DEF Unlock, Goto, cardVars
  <1>9. ASSUME NEW c \in Calls, Close(c) PROVE MemInv'
    BY <1>9 DEF Close, Forget, Goto
  <1>10. ASSUME NEW c \in Calls, Allocate(c) PROVE MemInv'
    <2>1. \A d \in Calls : pc[d] \in {"body", "answered"} => d = c
      BY <1>0, <1>10 DEF Allocate, InLock, RoomWait
    <2> QED BY <1>10, <2>1 DEF Allocate, callVars
  <1>11. ASSUME NEW c \in Calls, Finish(c) PROVE MemInv'
    <2>1. \A d \in Calls : pc[d] = "body" => d = c
      BY <1>0, <1>11 DEF Finish, InLock
    <2>2. used' <= used /\ used' >= 0
      BY <1>11 DEF Finish, EndJob
    <2> QED BY <1>11, <2>1, <2>2 DEF Finish, EndJob, Goto
  <1>12. ASSUME NEW c \in Calls, Raise(c) PROVE MemInv'
    BY <1>12 DEF Raise, LockWait, RoomWait, Goto, cardVars
  <1>13. ASSUME NEW p \in Procs, Crash(p) PROVE MemInv'
    <2>1. used' <= used /\ used' >= 0
      BY <1>13 DEF Crash
    <2> QED BY <1>13, <2>1 DEF Crash
  <1>14. CASE OutsideAllocates
    BY <1>14 DEF OutsideAllocates, callVars
  <1>15. CASE OutsideFrees
    BY <1>15 DEF OutsideFrees, callVars
  <1>16. CASE Tick
    BY <1>16 DEF Tick, cardVars
  <1>17. CASE UNCHANGED vars
    BY <1>17 DEF vars
  <1> QED
    BY <1>1, <1>2, <1>3, <1>4, <1>5, <1>6, <1>7, <1>8, <1>9, <1>10, <1>11, <1>12,
       <1>13, <1>14, <1>15, <1>16, <1>17 DEF Next, Step, Advance

(* Every reachable state satisfies the inductive invariant. *)
THEOREM Invariance == Spec => []IInv
  <1>1. IInv /\ [Next]_vars => IInv'
    BY TypeStep, LockStep, MemStep DEF IInv, MemInv
  <1> QED BY InitIInv, <1>1, PTL DEF Spec

(* The variables keep their types; in particular the memory in use never   *)
(* exceeds the card nor falls below zero (gpu.py, whole module).           *)
THEOREM Typing == Spec => []TypeOK
  BY Invariance, PTL DEF IInv

(* The lock covers the room wait, the job and the unlock, and is never     *)
(* left with a call that has ended (gpu.py, LeaseCoordinator.lease).       *)
THEOREM LockIsHeld == Spec => [](LockHeld /\ LockOwned)
  <1>1. IInv => LockHeld /\ LockOwned
    BY DEF IInv, LockInv
  <1> QED BY Invariance, <1>1, PTL

(* Two GPU jobs never run at once (gpu.py, LeaseCoordinator.lease).        *)
THEOREM MutualExclusion == Spec => []OneJob
  <1>1. IInv => OneJob
    BY OneBody DEF IInv
  <1> QED BY Invariance, <1>1, PTL

(* The room a job measured is still there for it unless a tenant outside   *)
(* the lock took it (gpu.py, LeaseCoordinator._wait_for_room).             *)
THEOREM RoomIsReserved == Spec => []RoomReserved
  <1>1. IInv => RoomReserved
    BY DEF IInv, MemInv
  <1> QED BY Invariance, <1>1, PTL

-----------------------------------------------------------------------------
(* Sleeps. *)

NapInv ==
    /\ \A c \in Calls : nap[c] # 0 => pc[c] \in {"locknap", "roomnap"}
    /\ NapWithinPoll

(* Sleeps end within poll_s of the deadline, in every step. *)
LEMMA NapStep == TypeOK /\ NapInv /\ [Next]_vars => NapInv'
  <1> SUFFICES ASSUME TypeOK, NapInv, [Next]_vars PROVE NapInv'
    OBVIOUS
  <1> USE TimeAssumption DEF TypeOK, NapInv, NapWithinPoll
  <1>1. ASSUME NEW c \in Calls, Ask(c) PROVE NapInv'
    <2>1. nap[c] = 0
      BY <1>1 DEF Ask
    <2>2. \A d \in Calls : d # c => left'[d] = left[d] /\ pc'[d] = pc[d]
      BY <1>1 DEF Ask, Goto
    <2> QED BY <1>1, <2>1, <2>2 DEF Ask
  <1>2. ASSUME NEW c \in Calls, TakeLock(c) PROVE NapInv'
    BY <1>2 DEF TakeLock, Goto
  <1>3. ASSUME NEW c \in Calls, LockedOut(c) PROVE NapInv'
    BY <1>3 DEF LockedOut, Goto
  <1>4. ASSUME NEW c \in Calls, AfterLockedOut(c) PROVE NapInv'
    BY <1>4 DEF AfterLockedOut, Goto
  <1>5. ASSUME NEW c \in Calls, Probe(c) PROVE NapInv'
    BY <1>5 DEF Probe, Goto
  <1>6. ASSUME NEW c \in Calls, AfterProbe(c) PROVE NapInv'
    BY <1>6 DEF AfterProbe, Goto
  <1>7. ASSUME NEW c \in Calls, Wake(c) PROVE NapInv'
    BY <1>7 DEF Wake, Goto
  <1>8. ASSUME NEW c \in Calls, Unlock(c) PROVE NapInv'
    BY <1>8 DEF Unlock, Goto
  <1>9. ASSUME NEW c \in Calls, Close(c) PROVE NapInv'
    BY <1>9 DEF Close, Forget, Goto
  <1>10. ASSUME NEW c \in Calls, Allocate(c) PROVE NapInv'
    BY <1>10 DEF Allocate, callVars
  <1>11. ASSUME NEW c \in Calls, Finish(c) PROVE NapInv'
    BY <1>11 DEF Finish, Goto
  <1>12. ASSUME NEW c \in Calls, Raise(c) PROVE NapInv'
    BY <1>12 DEF Raise, Goto
  <1>13. ASSUME NEW p \in Procs, Crash(p) PROVE NapInv'
    BY <1>13 DEF Crash
  <1>14. CASE OutsideAllocates \/ OutsideFrees
    BY <1>14 DEF OutsideAllocates, OutsideFrees, callVars
  <1>15. CASE Tick
    <2> SUFFICES ASSUME NEW c \in Calls, nap'[c] # 0
                 PROVE  /\ pc'[c] \in {"locknap", "roomnap"}
                        /\ nap'[c] - left'[c] < PollS
      BY <1>15 DEF Tick, Down
    <2>1. nap'[c] = nap[c] - 1 /\ nap[c] > 0
      BY <1>15 DEF Tick, Down
    <2>2. pc[c] # "idle" /\ left[c] > Floor
      BY <2>1 DEF Floor
    <2>3. left'[c] = left[c] - 1
      BY <1>15, <2>2 DEF Tick, Down
    <2> QED BY <1>15, <2>1, <2>3 DEF Tick
  <1>16. CASE UNCHANGED vars
    BY <1>16 DEF vars
  <1> QED
    BY <1>1, <1>2, <1>3, <1>4, <1>5, <1>6, <1>7, <1>8, <1>9, <1>10, <1>11, <1>12,
       <1>13, <1>14, <1>15, <1>16 DEF Next, Step, Advance

(* No sleep of either wait lasts until poll_s past the one deadline        *)
(* (gpu.py, the two polling loops).                                        *)
THEOREM SleepsShareDeadline == Spec => []NapWithinPoll
  <1>1. Init => NapInv
    BY DEF Init, NapInv, NapWithinPoll
  <1>2. NapInv /\ IInv /\ [Next]_vars => NapInv'
    BY NapStep DEF IInv
  <1>3. NapInv => NapWithinPoll
    BY DEF NapInv
  <1> QED BY Invariance, <1>1, <1>2, <1>3, PTL DEF Spec

-----------------------------------------------------------------------------
(* Refinement: every step is one of the slot's, or invisible to it. *)

(* A step that moves no call across waiting, running and idle. *)
LEMMA Invisible ==
    ASSUME NEW c \in Calls, NEW loc, TypeOK, Goto(c, loc),
           \/ pc[c] \in LockWait \cup RoomWait /\ loc \in LockWait \cup RoomWait
           \/ pc[c] \in {"idle", "unlock", "close"} /\ loc \in {"idle", "unlock", "close"}
    PROVE  UNCHANGED <<Waiting, Running>>
  BY DEF TypeOK, Goto, Waiting, Running, LockWait, RoomWait

(* A call that goes from a wait to its body while nobody runs. *)
LEMMA Starts ==
    ASSUME NEW c \in Calls, TypeOK, Goto(c, "body"), Running = {},
           pc[c] \in LockWait \cup RoomWait
    PROVE  Slot!Start(c)
  BY DEF TypeOK, Goto, Waiting, Running, LockWait, RoomWait, Slot!Start

(* A call that leaves its wait for good. *)
LEMMA GivesUp ==
    ASSUME NEW c \in Calls, NEW loc \in {"unlock", "close"}, TypeOK, Goto(c, loc),
           pc[c] \in LockWait \cup RoomWait
    PROVE  Slot!GiveUp(c)
  BY DEF TypeOK, Goto, Waiting, Running, LockWait, RoomWait, Slot!GiveUp

(* Every step of lease() is one of the slot, or invisible to it. *)
LEMMA SlotStep == IInv /\ [Next]_vars => [Slot!Next]_<<Waiting, Running>>
  <1> SUFFICES ASSUME IInv, [Next]_vars PROVE [Slot!Next]_<<Waiting, Running>>
    OBVIOUS
  <1>0. TypeOK /\ LockHeld
    BY DEF IInv, LockInv
  <1>1. ASSUME NEW c \in Calls, Ask(c) PROVE Slot!Ask(c)
    BY <1>0, <1>1
       DEF Ask, Goto, TypeOK, Waiting, Running, LockWait, RoomWait, Slot!Ask
  <1>2. ASSUME NEW c \in Calls, TakeLock(c)
        PROVE  Slot!Start(c) \/ UNCHANGED <<Waiting, Running>>
    <2>1. Running = {}
      BY <1>0, <1>2, NoneAssumption DEF TakeLock, Running, LockHeld, InLock
    <2>2. CASE need[c] = 0
      BY <1>0, <1>2, <2>1, <2>2, Starts DEF TakeLock, LockWait
    <2>3. CASE need[c] # 0
      BY <1>0, <1>2, <2>3, Invisible DEF TakeLock, LockWait, RoomWait
    <2> QED BY <2>2, <2>3
  <1>3. ASSUME NEW c \in Calls, LockedOut(c) PROVE UNCHANGED <<Waiting, Running>>
    BY <1>0, <1>3, Invisible DEF LockedOut, LockWait
  <1>4. ASSUME NEW c \in Calls, AfterLockedOut(c)
        PROVE  Slot!GiveUp(c) \/ UNCHANGED <<Waiting, Running>>
    BY <1>0, <1>4, Invisible, GivesUp DEF AfterLockedOut, LockWait
  <1>5. ASSUME NEW c \in Calls, Probe(c) PROVE UNCHANGED <<Waiting, Running>>
    BY <1>0, <1>5, Invisible DEF Probe, RoomWait
  <1>6. ASSUME NEW c \in Calls, AfterProbe(c)
        PROVE  Slot!Start(c) \/ Slot!GiveUp(c) \/ UNCHANGED <<Waiting, Running>>
    <2>1. Running = {}
      BY <1>0, <1>6 DEF AfterProbe, Running, LockHeld, InLock, RoomWait
    <2> QED BY <1>0, <1>6, <2>1, Starts, GivesUp, Invisible DEF AfterProbe, RoomWait
  <1>7. ASSUME NEW c \in Calls, Wake(c) PROVE UNCHANGED <<Waiting, Running>>
    BY <1>0, <1>7, Invisible DEF Wake, LockWait, RoomWait
  <1>8. ASSUME NEW c \in Calls, Unlock(c) PROVE UNCHANGED <<Waiting, Running>>
    BY <1>0, <1>8, Invisible DEF Unlock
  <1>9. ASSUME NEW c \in Calls, Close(c) PROVE UNCHANGED <<Waiting, Running>>
    BY <1>0, <1>9, Invisible DEF Close
  <1>10. ASSUME NEW c \in Calls, Allocate(c) PROVE UNCHANGED <<Waiting, Running>>
    BY <1>10 DEF Allocate, callVars, Waiting, Running
  <1>11. ASSUME NEW c \in Calls, Finish(c) PROVE Slot!Finish(c)
    BY <1>0, <1>11
       DEF Finish, Goto, TypeOK, Waiting, Running, LockWait, RoomWait, Slot!Finish
  <1>12. ASSUME NEW c \in Calls, Raise(c) PROVE Slot!GiveUp(c)
    BY <1>0, <1>12, GivesUp DEF Raise
  <1>13. ASSUME NEW p \in Procs, Crash(p) PROVE Slot!Crash(p)
    BY <1>0, <1>13
       DEF Crash, TypeOK, Waiting, Running, LockWait, RoomWait, Slot!Crash
  <1>14. CASE OutsideAllocates \/ OutsideFrees
    BY <1>14 DEF OutsideAllocates, OutsideFrees, callVars, Waiting, Running
  <1>15. CASE Tick
    BY <1>15 DEF Tick, Waiting, Running
  <1>16. CASE UNCHANGED vars
    BY <1>16 DEF vars, Waiting, Running
  <1> QED
    BY <1>1, <1>2, <1>3, <1>4, <1>5, <1>6, <1>7, <1>8, <1>9, <1>10, <1>11, <1>12,
       <1>13, <1>14, <1>15, <1>16 DEF Next, Step, Advance, Slot!Next

(* Every behaviour of lease() is one of the abstract slot's (gpu.py,       *)
(* GpuCoordinator): jobs start one at a time, and only from a wait.        *)
THEOREM SlotRefinement == Spec => Slot!Spec
  <1>1. Init => Slot!Init
    BY DEF Init, Slot!Init, Waiting, Running, LockWait, RoomWait
  <1>2. IInv /\ [Next]_vars => [Slot!Next]_(Slot!vars)
    BY SlotStep DEF Slot!vars
  <1> QED BY Invariance, <1>1, <1>2, PTL DEF Spec, Slot!Spec
=============================================================================
