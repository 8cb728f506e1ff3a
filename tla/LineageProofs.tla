----------------------------- MODULE LineageProofs -----------------------------
(***************************************************************************)
(* Theorems about the two halves of the lineage store: the client's pool,  *)
(* transactions and close() (LineageStore), for every set of threads and   *)
(* closers and every size of the pool; and the tables of its server        *)
(* (LineageDag), for every set of calls, of datasets and of ids.           *)
(***************************************************************************)
EXTENDS LineageStore, LineageDag, FiniteSetTheorems, TLAPS

-----------------------------------------------------------------------------
(* The inductive invariant, first of one call.                             *)

WithAmbient == {"acquire", "exec", "body"}

(* Where a call is fits what it was called for and the connections it has: *)
(* a transaction's until it ends, and one of its own only for a write      *)
(* outside any transaction.                                                *)
Placed(c) ==
    /\ c.tx # "none" <=> c.txPool # None
    /\ c.pc \in {"start", "done"} => c.txPool = None
    /\ c.txPool # None => c.task = "tx" /\ c.pc \in WithAmbient
    /\ c.task = "tx" => c.opPool = None
    /\ c.task = "tx" /\ c.txPool = None =>
         c.pc \notin WithAmbient /\ (c.pc \notin {"start", "done"} => c.goal = "tx")
    /\ c.task = "op" => c.pc # "body" /\ c.goal = "op"
    /\ c.pc = "exec" /\ c.txPool = None => c.opPool # None
    /\ c.pc = "borrow" => c.mine # None
    /\ c.out = "none" <=> c.pc # "done"

(* Until it has a transaction a call has written nothing. *)
Unwritten(c) ==
    c.txPool = None /\ c.pc # "done" =>
        c.at = 1 /\ c.buf = {} /\ c.saved = NoSavepoint /\ ~c.failed /\ ~c.swallowed

(* In its transaction, the rows that the server keeps for it are those     *)
(* that the block wrote to get where it is; only an exception that the     *)
(* block hid lets it go on in an aborted transaction, which is then never  *)
(* open again: no savepoint is taken in it.                                *)
Buffered(c) ==
    /\ c.at = 1 => c.buf = {}
    /\ c.at = 2 => c.buf = {1}
    /\ c.at = 3 => c.buf \in (IF c.saved = NoSavepoint THEN {{1}, {1, 2}} ELSE {{1, 2}})
    /\ c.at = 4 => c.buf \in {Chain, Rows}

InTransaction(c) ==
    c.txPool # None =>
        /\ c.pc # "body" => ~c.failed /\ c.at \in (IF c.saved = NoSavepoint THEN Chain ELSE {2})
        /\ c.saved # NoSavepoint => c.saved = {1} /\ c.at \in {2, 3} /\ ~c.swallowed
        /\ c.tx = "open" /\ ~c.failed => Buffered(c)
        /\ c.tx = "aborted" /\ ~c.failed => c.swallowed
        /\ c.swallowed => c.tx # "open"

Sound(c) == c \in Calls /\ Placed(c) /\ Unwritten(c) /\ InTransaction(c)

(* Then of the lock and the pools.                                         *)
Locked == {"recheck", "lookagain", "store"}

LockInv == \A t \in Threads : th[t].pc \in Locked <=> mutex = t

(* An open pool is the store's, or about to be, until close() has begun;   *)
(* and whoever has been let past the second closed check finds no other.   *)
PoolInv ==
    /\ \A k \in Closers : cl[k] # "start" => closed
    /\ ~closed => \A t \in Threads : pools[t] = "open" => pool = t \/ At(t, "store")
    /\ \A t, u \in Threads : pools[t] = "open" /\ pools[u] = "open" => t = u
    /\ \A t \in Threads : At(t, "lookagain") => \A u \in Threads : pools[u] = "open" => pool = u
    /\ \A t \in Threads : At(t, "store") => \A u \in Threads : pools[u] = "open" => u = t
    /\ \A t \in Threads, k \in Closers :
         At(t, "lookagain") /\ cl[k] = "dropping" /\ pool # None => pools[pool] = "closed"
    /\ \A t \in Threads : At(t, "take") /\ pool = None => closed

(* What the database has of a call that has not ended, and of one that has. *)
DbInv ==
    /\ \A t \in Threads : ~At(t, "done") => Committed(t) = {}
    /\ NoTornDag /\ ResultIsTrue

IInv ==
    /\ TypeOK /\ (\A t \in Threads : Sound(th[t]))
    /\ LockInv /\ PoolInv /\ DbInv

(* A step of a thread. *)
Moves(t) == Run(t) \/ PoolFails(t) \/ PoolTimeout(t) \/ Swallow(t) \/ BodyRaises(t)

-----------------------------------------------------------------------------
(* Steps of one call.                                                      *)

(* A call stays sound when its code throws; in a transaction, an operation *)
(* throws only once the server has aborted or lost it.                     *)
LEMMA ThrownIsSound ==
  ASSUME NEW c, Sound(c), NEW error \in {"StoreError", "AttributeError", "RuntimeError"},
         c.pc \notin {"start", "done", "acquire", "body"},
         c.pc = "exec" /\ c.txPool # None => c.tx # "open"
  PROVE  Sound(Thrown(c, error))
  <1> USE DEF Thrown, Sound, Calls, Placed, Unwritten, InTransaction, WithAmbient, Chain, Rows,
         PoolRefs, NoSavepoint
  <1>0. c \in Calls
    OBVIOUS
  <1>1. Thrown(c, error) \in Calls
    <2>1. CASE c.txPool # None
      <3>1. [c EXCEPT !.pc = "body", !.failed = TRUE] \in Calls
        BY ONLY <1>0, ZenonT(40) DEF Calls
      <3> QED BY ONLY <2>1, <3>1 DEF Thrown
    <2>2. CASE c.txPool = None
      <3>1. [c EXCEPT !.pc = "done", !.out = error] \in Calls
        BY ONLY <1>0, error \in {"StoreError", "AttributeError", "RuntimeError"},
           ZenonT(90) DEF Calls
      <3> QED BY ONLY <2>2, <3>1 DEF Thrown
    <2> QED BY ONLY <2>1, <2>2
  <1>2. Placed(Thrown(c, error)) OBVIOUS
  <1>3. Unwritten(Thrown(c, error)) OBVIOUS
  <1>4. InTransaction(Thrown(c, error)) OBVIOUS
  <1> QED BY <1>1, <1>2, <1>3, <1>4

Getting == {"get", "look", "lock", "recheck", "lookagain", "store", "take"}

(* A call stays sound on its way to a connection, *)
LEMMA ConnectingIsSound ==
  ASSUME NEW c, Sound(c), NEW p \in Threads, NEW loc \in Getting
  PROVE  /\ c.pc = "start" /\ c.task = "op" => Sound([c EXCEPT !.pc = "acquire"])
         /\ c.pc = "start" /\ c.task # "op" => Sound([c EXCEPT !.pc = "get", !.goal = "tx"])
         /\ c.pc = "acquire" /\ c.txPool # None => Sound([c EXCEPT !.pc = "exec", !.goal = "op"])
         /\ c.pc = "acquire" /\ c.txPool = None => Sound([c EXCEPT !.pc = "get", !.goal = "op"])
         /\ c.pc \in Getting => Sound([c EXCEPT !.pc = loc])
         /\ c.pc \in Getting => Sound([c EXCEPT !.pc = "borrow", !.mine = p])
         /\ c.pc = "borrow" /\ c.goal = "tx" =>
              Sound([c EXCEPT !.pc = "body", !.txPool = c.mine, !.tx = "open"])
         /\ c.pc = "borrow" /\ c.goal # "tx" => Sound([c EXCEPT !.pc = "exec", !.opPool = c.mine])
  <1> USE DEF Getting, Sound, Calls, Placed, Unwritten, InTransaction, WithAmbient, Chain, Rows,
              PoolRefs, NoSavepoint
  <1>1. ASSUME c.pc = "start", c.task = "op" PROVE Sound([c EXCEPT !.pc = "acquire"])
    BY <1>1
  <1>2. ASSUME c.pc = "start", c.task # "op" PROVE Sound([c EXCEPT !.pc = "get", !.goal = "tx"])
    BY <1>2
  <1>3. ASSUME c.pc = "acquire", c.txPool # None PROVE Sound([c EXCEPT !.pc = "exec", !.goal = "op"])
    <2> DEFINE d == [c EXCEPT !.pc = "exec", !.goal = "op"]
    <2>1. d \in Calls
      BY ONLY c \in Calls, ZenonT(40) DEF Calls, PoolRefs
    <2>2. Placed(d)
      BY <1>3
    <2>3. Unwritten(d)
      BY <1>3
    <2>4. InTransaction(d)
      BY <1>3 DEF Buffered
    <2> QED BY <2>1, <2>2, <2>3, <2>4
  <1>4. ASSUME c.pc = "acquire", c.txPool = None PROVE Sound([c EXCEPT !.pc = "get", !.goal = "op"])
    BY <1>4, ZenonT(60)
  <1>5. ASSUME c.pc \in Getting PROVE Sound([c EXCEPT !.pc = loc])
    BY <1>5
  <1>6. ASSUME c.pc \in Getting PROVE Sound([c EXCEPT !.pc = "borrow", !.mine = p])
    BY <1>6, ThreadAssumption, ZenonT(60)
  <1>7. ASSUME c.pc = "borrow", c.goal = "tx"
        PROVE  Sound([c EXCEPT !.pc = "body", !.txPool = c.mine, !.tx = "open"])
    <2> DEFINE d == [c EXCEPT !.pc = "body", !.txPool = c.mine, !.tx = "open"]
    <2>1. c.txPool = None /\ c.mine # None /\ c.task = "tx" /\ c.opPool = None
      BY <1>7
    <2>2. d \in Calls
      BY ONLY c \in Calls, ZenonT(40) DEF Calls, PoolRefs
    <2>3. Placed(d) /\ Unwritten(d)
      BY <1>7, <2>1
    <2>4. InTransaction(d)
      BY <1>7, <2>1 DEF Buffered
    <2> QED BY <2>2, <2>3, <2>4
  <1>8. ASSUME c.pc = "borrow", c.goal # "tx" PROVE Sound([c EXCEPT !.pc = "exec", !.opPool = c.mine])
    BY <1>8
  <1> QED BY <1>1, <1>2, <1>3, <1>4, <1>5, <1>6, <1>7, <1>8

(* and with a statement on its own connection,                             *)
LEMMA AloneIsSound ==
  ASSUME NEW c, Sound(c), c.pc = "exec", c.opPool # None, NEW out \in {"ok", "StoreError"}
  PROVE  /\ c.task = "op" /\ c.txPool = None
         /\ Sound([[c EXCEPT !.opPool = None] EXCEPT !.pc = "done", !.out = out])
  BY DEF Sound, Calls, Placed, Unwritten, InTransaction, WithAmbient, Chain, Rows, PoolRefs,
         NoSavepoint

(* or on a transaction's.                                                  *)
LEMMA InTxIsSound ==
  ASSUME NEW c, Sound(c), c.pc = "exec", c.opPool = None
  PROVE  /\ c.txPool # None
         /\ c.tx = "open" =>
              Sound([c EXCEPT !.pc = "body", !.buf = @ \cup {c.at}, !.at = @ + 1])
         /\ Sound([[c EXCEPT !.tx = IF @ = "open" THEN "aborted" ELSE @]
                     EXCEPT !.pc = "body", !.failed = TRUE])
  <1> USE DEF Sound, Calls, Placed, Unwritten, InTransaction, WithAmbient, Chain, Rows, PoolRefs,
              NoSavepoint
  <1>1. c.txPool # None /\ c.tx # "none"
    OBVIOUS
  <1>2. ASSUME c.tx = "open"
        PROVE  Sound([c EXCEPT !.pc = "body", !.buf = @ \cup {c.at}, !.at = @ + 1])
    <2> DEFINE d == [c EXCEPT !.pc = "body", !.buf = @ \cup {c.at}, !.at = @ + 1]
    <2>1. d \in Calls
      <3>1. c.at + 1 \in 1..4 /\ c.buf \cup {c.at} \in SUBSET Rows
        BY <1>1
      <3> QED BY <3>1
    <2>2. Placed(d) /\ Unwritten(d)
      BY <1>1
    <2>3. Buffered(d)
      BY <1>1, <1>2 DEF Buffered
    <2>4. InTransaction(d)
      BY <1>1, <1>2, <2>3
    <2> QED BY <2>1, <2>2, <2>4
  <1>3. Sound([[c EXCEPT !.tx = IF @ = "open" THEN "aborted" ELSE @]
                 EXCEPT !.pc = "body", !.failed = TRUE])
    BY <1>1, ZenonT(40)
  <1> QED BY <1>1, <1>2, <1>3

(* It stays sound through whatever its block does,                         *)
LEMMA BlockIsSound ==
  ASSUME NEW c, Sound(c), c.pc = "body"
  PROVE  /\ ~c.failed /\ c.at \in (IF c.saved # NoSavepoint THEN {2} ELSE Chain) =>
              Sound([c EXCEPT !.pc = "acquire"])
         /\ Sound([c EXCEPT !.failed = TRUE])
         /\ ~c.failed /\ c.at = 2 /\ c.saved = NoSavepoint =>
              /\ c.tx = "open" => Sound([c EXCEPT !.saved = c.buf])
              /\ Sound([c EXCEPT !.at = 3])
         /\ ~c.failed /\ c.at = 3 /\ c.saved # NoSavepoint =>
              Sound([c EXCEPT !.saved = NoSavepoint, !.failed = c.tx # "open"])
         /\ c.failed /\ c.saved = NoSavepoint /\ c.tx \in {"aborted", "lost"} /\ c.at < 4 =>
              Sound([c EXCEPT !.failed = FALSE, !.swallowed = TRUE, !.at = @ + 1])
  <1> USE DEF Sound, Calls, Placed, Unwritten, InTransaction, WithAmbient, Chain, Rows, PoolRefs,
              NoSavepoint
  <1>1. ASSUME ~c.failed, c.at \in (IF c.saved # NoSavepoint THEN {2} ELSE Chain)
        PROVE  Sound([c EXCEPT !.pc = "acquire"])
    <2> DEFINE d == [c EXCEPT !.pc = "acquire"]
    <2>1. d \in Calls
      BY ONLY c \in Calls DEF Calls, PoolRefs
    <2>2. Placed(d) /\ Unwritten(d)
      BY <1>1
    <2>3. Buffered(c) => Buffered(d)
      BY DEF Buffered
    <2>4. InTransaction(d)
      BY <1>1, <2>3
    <2> QED BY <2>1, <2>2, <2>4
  <1>2. Sound([c EXCEPT !.failed = TRUE])
    OBVIOUS
  <1>3. ASSUME ~c.failed, c.at = 2, c.saved = NoSavepoint, c.tx = "open"
        PROVE  Sound([c EXCEPT !.saved = c.buf])
    BY <1>3 DEF Buffered
  <1>4. ASSUME ~c.failed, c.at = 2, c.saved = NoSavepoint
        PROVE  Sound([c EXCEPT !.at = 3])
    BY <1>4 DEF Buffered
  <1>5. ASSUME ~c.failed, c.at = 3, c.saved # NoSavepoint
        PROVE  Sound([c EXCEPT !.saved = NoSavepoint, !.failed = c.tx # "open"])
    <2> DEFINE d == [c EXCEPT !.saved = NoSavepoint, !.failed = c.tx # "open"]
    <2>1. d \in Calls
      BY ONLY c \in Calls, ZenonT(40) DEF Calls, PoolRefs
    <2>2. Placed(d) /\ Unwritten(d)
      BY <1>5
    <2>3. InTransaction(d)
      BY <1>5 DEF Buffered
    <2> QED BY <2>1, <2>2, <2>3
  <1>6. ASSUME c.failed, c.saved = NoSavepoint, c.tx \in {"aborted", "lost"}, c.at < 4
        PROVE  Sound([c EXCEPT !.failed = FALSE, !.swallowed = TRUE, !.at = @ + 1])
    <2> DEFINE d == [c EXCEPT !.failed = FALSE, !.swallowed = TRUE, !.at = @ + 1]
    <2>1. d \in Calls
      <3>1. c.at + 1 \in 1..4
        BY <1>6
      <3> QED BY <3>1
    <2>2. Placed(d) /\ Unwritten(d)
      BY <1>6
    <2>3. InTransaction(d)
      BY <1>6
    <2> QED BY <2>1, <2>2, <2>3
  <1> QED BY <1>1, <1>2, <1>3, <1>4, <1>5, <1>6

(* through a return to the savepoint,                                      *)
LEMMA SavepointIsSound ==
  ASSUME NEW c, Sound(c), c.pc = "body", c.failed, c.saved # NoSavepoint,
         NEW lost, lost <=> c.tx = "lost",
         NEW back, back = [c EXCEPT !.saved = NoSavepoint,
                                    !.buf = IF lost THEN {} ELSE c.saved,
                                    !.tx = IF lost THEN "lost" ELSE "open"]
  PROVE  Sound(back) /\ Sound([back EXCEPT !.failed = FALSE, !.at = 3])
  <1> USE DEF Sound, Calls, Placed, Unwritten, InTransaction, WithAmbient, Chain, Rows, PoolRefs,
              NoSavepoint
  <1>1. c.saved = {1} /\ ~c.swallowed
    OBVIOUS
  <1>2. Sound(back)
    BY <1>1
  <1>3. Sound([back EXCEPT !.failed = FALSE, !.at = 3])
    <2> DEFINE d == [back EXCEPT !.failed = FALSE, !.at = 3]
    <2>1. d \in Calls
      <3>1. back \in Calls
        BY <1>2
      <3>2. \A b \in Calls, n \in 1..4 : [b EXCEPT !.failed = FALSE, !.at = n] \in Calls
        BY ZenonT(40)
      <3>3. 3 \in 1..4
        OBVIOUS
      <3> QED BY ONLY <3>1, <3>2, <3>3
    <2>2. Placed(d)
      BY <1>2
    <2>3. Unwritten(d)
      BY <1>2
    <2>4. InTransaction(d)
      BY <1>1 DEF Buffered
    <2> QED BY <2>1, <2>2, <2>3, <2>4
  <1> QED BY <1>2, <1>3

(* at its end, and when the server drops its connection.                   *)
LEMMA EndIsSound ==
  ASSUME NEW c, Sound(c), c.txPool # None
  PROVE  /\ \A result \in {"ok", "StoreError", "raised"} :
              Sound([c EXCEPT !.pc = "done", !.txPool = None, !.tx = "none", !.buf = {},
                              !.out = result])
         /\ Sound([c EXCEPT !.tx = "lost", !.buf = {}])
  <1> USE DEF Sound, Calls, Placed, Unwritten, InTransaction, WithAmbient, Chain, Rows, PoolRefs,
              NoSavepoint
  <1>1. ASSUME NEW result \in {"ok", "StoreError", "raised"}
        PROVE  Sound([c EXCEPT !.pc = "done", !.txPool = None, !.tx = "none", !.buf = {},
                               !.out = result])
    <2> DEFINE d == [c EXCEPT !.pc = "done", !.txPool = None, !.tx = "none", !.buf = {},
                              !.out = result]
    <2>1. d \in Calls
      BY ONLY c \in Calls, ZenonT(40) DEF Calls, PoolRefs
    <2>2. Placed(d)
      OBVIOUS
    <2>3. Unwritten(d) /\ InTransaction(d)
      OBVIOUS
    <2> QED BY <2>1, <2>2, <2>3
  <1>2. Sound([c EXCEPT !.tx = "lost", !.buf = {}])
    <2> DEFINE d == [c EXCEPT !.tx = "lost", !.buf = {}]
    <2>1. d \in Calls
      BY ONLY c \in Calls DEF Calls, PoolRefs
    <2>2. Placed(d)
      OBVIOUS
    <2>3. Unwritten(d) /\ InTransaction(d)
      OBVIOUS
    <2> QED BY <2>1, <2>2, <2>3
  <1> QED BY <1>1, <1>2

-----------------------------------------------------------------------------
(* Every step of a thread moves that thread's call alone, and keeps it     *)
(* sound.                                                                  *)
LEMMA CallStep ==
  ASSUME TypeOK, NEW t \in Threads, Sound(th[t]), Moves(t)
  PROVE  Sound(th'[t]) /\ th' = [th EXCEPT ![t] = th'[t]]
  <1> DEFINE c == th[t]
  <1> SUFFICES \E d : Set(t, d) /\ Sound(d)
    BY DEF Set, TypeOK
  <1> USE DEF At, Goto, Getting
  <1>1. CASE Call(t) \/ Acquire(t)
    BY <1>1, ConnectingIsSound DEF Call, Acquire, Ambient
  <1>2. CASE Look(t) \/ Lock(t) \/ LookAgain(t) \/ Store(t)
    BY <1>2, ConnectingIsSound DEF Look, Lock, LookAgain, Store
  <1>3. CASE GetPool(t) \/ Recheck(t)
    <2>1. CASE closed
      BY <1>3, <2>1, ThrownIsSound DEF GetPool, Recheck
    <2>2. CASE ~closed
      BY <1>3, <2>2, ConnectingIsSound DEF GetPool, Recheck
    <2> QED BY <2>1, <2>2
  <1>4. CASE Take(t)
    <2>1. CASE pool = None
      BY <1>4, <2>1, ThrownIsSound DEF Take
    <2>2. CASE pool # None
      BY <1>4, <2>2, ConnectingIsSound DEF Take, TypeOK, PoolRefs
    <2> QED BY <2>1, <2>2
  <1>5. CASE Borrow(t)
    <2>1. c.pc = "borrow"
      BY <1>5 DEF Borrow
    <2>2. CASE c.goal = "tx"
      <3> DEFINE d == [c EXCEPT !.pc = "body", !.txPool = c.mine, !.tx = "open"]
      <3>1. Sound(d)
        BY <2>1, <2>2, ConnectingIsSound
      <3>2. Set(t, d)
        BY <1>5, <2>2 DEF Borrow
      <3> QED BY <3>1, <3>2
    <2>3. CASE c.goal # "tx"
      BY <1>5, <2>1, <2>3, ConnectingIsSound DEF Borrow
    <2> QED BY <2>2, <2>3
  <1>6. CASE PoolFails(t) \/ Refused(t) \/ PoolTimeout(t)
    BY <1>6, ThrownIsSound DEF PoolFails, Refused, PoolTimeout
  <1>7. CASE ExecAlone(t)
    <2> DEFINE b == [c EXCEPT !.opPool = None]
    <2>1. c.pc = "exec" /\ c.opPool # None
      BY <1>7 DEF ExecAlone
    <2>2. c.task = "op" /\ c.txPool = None
      BY <2>1, AloneIsSound
    <2>3. b.task = "op" /\ b.txPool = None
      BY <2>2 DEF Sound, Calls
    <2>4. Set(t, Thrown(b, "StoreError")) \/ Set(t, [b EXCEPT !.pc = "done", !.out = "ok"])
      BY <1>7, <2>3 DEF ExecAlone
    <2>5. Thrown(b, "StoreError") = [b EXCEPT !.pc = "done", !.out = "StoreError"]
      BY <2>3 DEF Thrown
    <2>6. Sound([b EXCEPT !.pc = "done", !.out = "ok"])
          /\ Sound([b EXCEPT !.pc = "done", !.out = "StoreError"])
      BY <2>1, AloneIsSound
    <2> QED BY <2>4, <2>5, <2>6
  <1>8. CASE ExecInTx(t)
    <2> DEFINE bad == [c EXCEPT !.tx = IF @ = "open" THEN "aborted" ELSE @]
    <2>1. c.pc = "exec" /\ c.opPool = None
      BY <1>8 DEF ExecInTx
    <2>2. c.txPool # None
      BY <2>1, InTxIsSound
    <2>3. Thrown(bad, "StoreError") = [bad EXCEPT !.pc = "body", !.failed = TRUE]
      BY <2>2 DEF Thrown, Sound, Calls
    <2>4. CASE Set(t, Thrown(bad, "StoreError"))
      <3>1. Sound([bad EXCEPT !.pc = "body", !.failed = TRUE])
        BY <2>1, InTxIsSound
      <3> QED BY <2>3, <2>4, <3>1
    <2>5. CASE ~Set(t, Thrown(bad, "StoreError"))
      BY <1>8, <2>1, <2>5, InTxIsSound DEF ExecInTx
    <2> QED BY <2>4, <2>5
  <1>9. CASE WriteNext(t) \/ EnterNested(t) \/ SkipNested(t) \/ LeaveNested(t) \/ BodyRaises(t)
    BY <1>9, BlockIsSound
    DEF WriteNext, EnterNested, SkipNested, LeaveNested, BodyRaises, InBlock, BlockStep, Nested
  <1>10. CASE Swallow(t)
    <2> DEFINE d == [c EXCEPT !.failed = FALSE, !.swallowed = TRUE, !.at = @ + 1]
    <2>1. /\ c.pc = "body" /\ c.failed /\ c.saved = NoSavepoint
          /\ c.tx \in {"aborted", "lost"} /\ c.at < 4 /\ Set(t, d)
      BY <1>10 DEF Swallow, BlockStep, Nested
    <2>2. Sound(d)
      BY <2>1, BlockIsSound
    <2> QED BY <2>1, <2>2
  <1>11. CASE NestedRaises(t)
    BY <1>11, SavepointIsSound DEF NestedRaises, BlockStep, Nested
  <1>12. CASE Commit(t) \/ Rollback(t)
    <2>1. c.pc = "body" /\ c.txPool # None
      BY <1>12 DEF Commit, Rollback, InBlock, Sound, Calls, Placed, WithAmbient
    <2> QED BY <1>12, <2>1, EndIsSound DEF Commit, Rollback, EndTx
  <1> QED
    BY <1>1, <1>2, <1>3, <1>4, <1>5, <1>6, <1>7, <1>8, <1>9, <1>10, <1>11, <1>12 DEF Moves, Run

-----------------------------------------------------------------------------
(* Who moves.                                                              *)

(* A thread's step leaves every other thread's call as it is. *)
LEMMA OneMoves ==
  ASSUME TypeOK, NEW t \in Threads, Sound(th[t]), Moves(t)
  PROVE  /\ th' \in [Threads -> Calls] /\ Sound(th'[t])
         /\ \A u \in Threads \ {t} : th'[u] = th[u]
  BY CallStep DEF TypeOK, Sound

(* Where an exception leads. *)
LEMMA ThrownTo ==
  ASSUME NEW c \in Calls, NEW error
  PROVE  /\ Thrown(c, error).pc = IF c.txPool # None THEN "body" ELSE "done"
         /\ Thrown(c, error).task = c.task
         /\ Thrown(c, error).pc = "done" => Thrown(c, error).out = error
  BY DEF Thrown, Calls

(* Outside _get_pool's lock, a step touches neither lock nor pools, and    *)
(* goes nowhere that the lock or the pools are spoken of.                  *)
LEMMA OutsideLock ==
  ASSUME TypeOK, NEW t \in Threads, Sound(th[t]), Moves(t),
         ~Look(t), ~Lock(t), ~Recheck(t), ~LookAgain(t), ~PoolFails(t), ~Store(t)
  PROVE  /\ th[t].pc \notin Locked /\ th'[t].pc \notin Locked \cup {"take"}
         /\ UNCHANGED <<closed, pool, mutex, pools, cl>>
  <1> DEFINE c == th[t]
  <1>0. /\ th \in [Threads -> Calls] /\ c \in Calls
        /\ c.pc = "exec" /\ c.opPool = None => c.txPool # None
    BY DEF TypeOK, Sound, Placed
  <1> USE <1>0 DEF At, Goto, Set, Calls, Locked
  <1>1. CASE Call(t)
    <2>1. CASE c.task = "op"
      BY <1>1, <2>1 DEF Call
    <2>2. CASE c.task # "op"
      BY <1>1, <2>2, ZenonT(40) DEF Call
    <2> QED BY <2>1, <2>2
  <1>2. CASE Acquire(t)
    BY <1>2 DEF Acquire
  <1>3. CASE GetPool(t)
    <2>1. CASE closed
      BY <1>3, <2>1, ThrownTo DEF GetPool
    <2>2. CASE ~closed
      BY <1>3, <2>2 DEF GetPool, Thrown
    <2> QED BY <2>1, <2>2
  <1>4. CASE Take(t)
    <2>1. CASE pool = None
      BY <1>4, <2>1, ThrownTo DEF Take
    <2>2. CASE pool # None
      BY <1>4, <2>2, Zenon DEF Take, Thrown
    <2> QED BY <2>1, <2>2
  <1>5. CASE Borrow(t)
    BY <1>5 DEF Borrow
  <1>6. CASE Refused(t)
    BY <1>6 DEF Refused, Thrown
  <1>7. CASE PoolTimeout(t)
    BY <1>7 DEF PoolTimeout, Thrown
  <1>8. CASE ExecAlone(t)
    BY <1>8 DEF ExecAlone, Thrown
  <1>9. CASE ExecInTx(t)
    <2> DEFINE bad == [c EXCEPT !.tx = IF @ = "open" THEN "aborted" ELSE @]
    <2>1. c.pc = "exec" /\ c.txPool # None
      BY <1>9 DEF ExecInTx
    <2>2. Thrown(bad, "StoreError").pc = "body"
      BY <2>1 DEF Thrown
    <2>3. CASE Set(t, Thrown(bad, "StoreError"))
      BY <1>9, <2>1, <2>2, <2>3 DEF ExecInTx
    <2>4. CASE ~Set(t, Thrown(bad, "StoreError"))
      BY <1>9, <2>1, <2>4 DEF ExecInTx
    <2> QED BY <2>3, <2>4
  <1>10. CASE WriteNext(t)
    BY <1>10 DEF WriteNext, InBlock, BlockStep
  <1>11. CASE EnterNested(t)
    BY <1>11 DEF EnterNested, InBlock, BlockStep
  <1>12. CASE SkipNested(t)
    BY <1>12 DEF SkipNested, InBlock, BlockStep
  <1>13. CASE LeaveNested(t)
    BY <1>13 DEF LeaveNested, InBlock, BlockStep
  <1>14. CASE NestedRaises(t)
    <2> DEFINE lost == c.tx = "lost"
               back == [c EXCEPT !.saved = NoSavepoint,
                                 !.buf = IF lost THEN {} ELSE c.saved,
                                 !.tx = IF lost THEN "lost" ELSE "open"]
    <2>1. c.pc = "body" /\ UNCHANGED <<closed, pool, mutex, pools, cl>>
      BY <1>14 DEF NestedRaises, BlockStep
    <2>2. th'[t] = back \/ th'[t] = [back EXCEPT !.failed = FALSE, !.at = 3]
      BY <1>14 DEF NestedRaises, BlockStep
    <2>3. back.pc = "body" /\ [back EXCEPT !.failed = FALSE, !.at = 3].pc = "body"
      BY <2>1
    <2> QED BY <2>1, <2>2, <2>3
  <1>15. CASE Swallow(t)
    BY <1>15 DEF Swallow, BlockStep
  <1>16. CASE BodyRaises(t)
    BY <1>16 DEF BodyRaises, InBlock, BlockStep
  <1>17. CASE Commit(t)
    <2>1. PICK result \in {"ok", "StoreError"} : EndTx(t, result)
      BY <1>17 DEF Commit
    <2> QED BY <1>17, <2>1 DEF Commit, EndTx, InBlock
  <1>18. CASE Rollback(t)
    BY <1>18 DEF Rollback, EndTx
  <1> QED
    BY <1>1, <1>2, <1>3, <1>4, <1>5, <1>6, <1>7, <1>8, <1>9, <1>10, <1>11, <1>12, <1>13, <1>14, <1>15, <1>16, <1>17, <1>18 DEF Moves, Run

(* A restart of the server changes no more than the transactions in it. *)
LEMMA RestartStep ==
  ASSUME TypeOK, \A t \in Threads : Sound(th[t]), ServerRestart
  PROVE  /\ th' \in [Threads -> Calls]
         /\ \A t \in Threads :
              /\ Sound(th'[t])
              /\ th'[t].pc = th[t].pc /\ th'[t].task = th[t].task
              /\ th'[t].out = th[t].out /\ th'[t].swallowed = th[t].swallowed
  <1>1. ASSUME NEW t \in Threads
        PROVE  /\ Sound(th'[t])
               /\ th'[t].pc = th[t].pc /\ th'[t].task = th[t].task
               /\ th'[t].out = th[t].out /\ th'[t].swallowed = th[t].swallowed
    <2>1. th[t] \in Calls /\ (th[t].tx # "none" => th[t].txPool # None)
      BY DEF Sound, Placed
    <2>2. th'[t] = IF th[t].tx = "none" THEN th[t]
                   ELSE [th[t] EXCEPT !.tx = "lost", !.buf = {}]
      BY DEF ServerRestart
    <2>3. Sound(th'[t])
      BY <2>1, <2>2, EndIsSound
    <2>4. /\ th'[t].pc = th[t].pc /\ th'[t].task = th[t].task
          /\ th'[t].out = th[t].out /\ th'[t].swallowed = th[t].swallowed
      BY <2>1, <2>2 DEF Calls
    <2> QED BY <2>3, <2>4
  <1>2. th' \in [Threads -> Calls]
    BY <1>1 DEF ServerRestart, Sound
  <1> QED BY <1>1, <1>2

-----------------------------------------------------------------------------
(* The lock and the pools.                                                 *)

(* The steps of _get_pool that look at the pool, and those in the lock. *)
LEMMA GetPoolSteps ==
  ASSUME TypeOK, NEW t \in Threads, Sound(th[t])
  PROVE  /\ Look(t) => /\ th[t].pc = "look"
                       /\ th'[t].pc = IF pool = None THEN "lock" ELSE "take"
                       /\ UNCHANGED <<closed, pool, mutex, pools, cl, db>>
         /\ Lock(t) => /\ th[t].pc = "lock" /\ mutex = None
                       /\ th'[t].pc = "recheck" /\ mutex' = t
                       /\ UNCHANGED <<closed, pool, pools, cl, db>>
         /\ Recheck(t) => /\ th[t].pc = "recheck"
                          /\ closed => th'[t].pc = "done" /\ mutex' = None
                          /\ ~closed => th'[t].pc = "lookagain" /\ mutex' = mutex
                          /\ UNCHANGED <<closed, pool, pools, cl, db>>
         /\ LookAgain(t) => /\ th[t].pc = "lookagain"
                            /\ IF pool = None
                                 THEN /\ th'[t].pc = "store" /\ mutex' = mutex
                                      /\ pools' = [pools EXCEPT ![t] = "open"]
                                 ELSE th'[t].pc = "take" /\ mutex' = None /\ pools' = pools
                            /\ UNCHANGED <<closed, pool, cl, db>>
         /\ PoolFails(t) => /\ th[t].pc = "lookagain" /\ th'[t].pc = "done"
                            /\ th'[t].out \in {"StoreError", "RuntimeError"}
                            /\ mutex' = None
                            /\ UNCHANGED <<closed, pool, pools, cl, db>>
         /\ Store(t) => /\ th[t].pc = "store"
                        /\ th'[t].pc = "take" /\ mutex' = None /\ pool' = t
                        /\ UNCHANGED <<closed, pools, cl, db>>
  <1> USE DEF At, Goto, Set
  <1>0. /\ th \in [Threads -> Calls] /\ th[t] \in Calls
        /\ th[t].pc \in {"recheck", "lookagain"} => th[t].txPool = None
    BY DEF TypeOK, Sound, Placed, WithAmbient
  <1>1. \A loc : [th[t] EXCEPT !.pc = loc].pc = loc
    BY <1>0 DEF Calls
  <1>2. th[t].pc = "recheck" => Thrown(th[t], "StoreError").pc = "done"
    BY <1>0, ThrownTo
  <1>3. Look(t) \/ Lock(t) \/ LookAgain(t) \/ Store(t) =>
          th'[t].pc = IF Look(t) THEN IF pool = None THEN "lock" ELSE "take"
                      ELSE IF Lock(t) THEN "recheck"
                      ELSE IF LookAgain(t) THEN IF pool = None THEN "store" ELSE "take"
                      ELSE "take"
    BY <1>0, <1>1 DEF Look, Lock, LookAgain, Store
  <1>4. Look(t) => UNCHANGED <<closed, pool, mutex, pools, cl, db>> /\ th[t].pc = "look"
    BY DEF Look
  <1>5. Lock(t) => /\ th[t].pc = "lock" /\ mutex = None /\ mutex' = t
                   /\ UNCHANGED <<closed, pool, pools, cl, db>>
    BY DEF Lock
  <1>6. Recheck(t) => /\ th[t].pc = "recheck"
                      /\ closed => th'[t].pc = "done" /\ mutex' = None
                      /\ ~closed => th'[t].pc = "lookagain" /\ mutex' = mutex
                      /\ UNCHANGED <<closed, pool, pools, cl, db>>
    BY <1>0, <1>1, <1>2 DEF Recheck
  <1>7. LookAgain(t) => /\ th[t].pc = "lookagain" /\ UNCHANGED <<closed, pool, cl, db>>
                        /\ IF pool = None
                             THEN mutex' = mutex /\ pools' = [pools EXCEPT ![t] = "open"]
                             ELSE mutex' = None /\ pools' = pools
    BY DEF LookAgain
  <1>8. Store(t) => /\ th[t].pc = "store" /\ mutex' = None /\ pool' = t
                    /\ UNCHANGED <<closed, pools, cl, db>>
    BY DEF Store
  <1>9. PoolFails(t) => /\ th[t].pc = "lookagain" /\ th'[t].pc = "done"
                        /\ th'[t].out \in {"StoreError", "RuntimeError"}
                        /\ mutex' = None
                        /\ UNCHANGED <<closed, pool, pools, cl, db>>
    BY <1>0, ThrownTo DEF PoolFails
  <1> QED BY <1>3, <1>4, <1>5, <1>6, <1>7, <1>8, <1>9

(* The lock is held by the one thread between its acquisition and release. *)
LEMMA LockStep ==
  ASSUME TypeOK, \A t \in Threads : Sound(th[t]), LockInv, [Next]_vars
  PROVE  LockInv'
  <1> USE ThreadAssumption DEF LockInv, Locked
  <1>1. ASSUME NEW t \in Threads, Moves(t) PROVE LockInv'
    <2>1. \A u \in Threads \ {t} : th'[u] = th[u]
      BY <1>1, OneMoves
    <2>2. CASE Look(t) \/ Lock(t) \/ Recheck(t) \/ LookAgain(t) \/ PoolFails(t) \/ Store(t)
      BY <2>1, <2>2, GetPoolSteps
    <2>3. CASE ~(Look(t) \/ Lock(t) \/ Recheck(t) \/ LookAgain(t) \/ PoolFails(t) \/ Store(t))
      BY <1>1, <2>1, <2>3, OutsideLock
    <2> QED BY <2>2, <2>3
  <1>2. ASSUME NEW k \in Closers, Close(k) PROVE LockInv'
    BY <1>2 DEF Close, MarkClosed, IfPool, ClosePool, DropPool
  <1>3. ASSUME ServerRestart PROVE LockInv'
    BY <1>3, RestartStep DEF ServerRestart
  <1>4. CASE UNCHANGED vars
    BY <1>4 DEF vars
  <1> QED BY <1>1, <1>2, <1>3, <1>4 DEF Next, Moves

(* No two pools are open, whatever close() does meanwhile.  The step that  *)
(* builds a pool is taken where none is open; the step that puts it in its *)
(* place finds that place empty of open ones; and close() drops only what  *)
(* it closed, or what nobody can follow with another: whoever comes then   *)
(* sees the flag.                                                          *)
LEMMA PoolStep ==
  ASSUME TypeOK, \A t \in Threads : Sound(th[t]), LockInv, PoolInv, [Next]_vars
  PROVE  PoolInv'
  <1> USE ThreadAssumption DEF PoolInv, At
  <1>1. ASSUME NEW t \in Threads, Moves(t) PROVE PoolInv'
    <2>1. \A u \in Threads \ {t} : th'[u] = th[u]
      BY <1>1, OneMoves
    <2>2. CASE Look(t)
      BY <2>1, <2>2, GetPoolSteps
    <2>3. CASE Lock(t)
      BY <2>1, <2>3, GetPoolSteps
    <2>4. CASE Recheck(t)
      BY <2>1, <2>4, GetPoolSteps DEF LockInv, Locked
    <2>5. CASE LookAgain(t)
      <3>1. \A u \in Threads \ {t} : th[u].pc \notin Locked
        BY <2>5, GetPoolSteps DEF LockInv, Locked
      <3>2. CASE pool = None
        <4>1. /\ pools' = [pools EXCEPT ![t] = "open"] /\ th'[t].pc = "store"
              /\ UNCHANGED <<closed, pool, cl, db>>
          BY <2>5, <3>2, GetPoolSteps
        <4>2. \A u \in Threads : pools[u] # "open"
          BY <2>5, <3>2, GetPoolSteps
        <4>3. \A u \in Threads : pools'[u] = "open" => u = t
          BY <4>1, <4>2 DEF TypeOK
        <4> QED BY <2>1, <3>1, <3>2, <4>1, <4>3 DEF Locked
      <3>3. CASE pool # None
        BY <2>1, <2>5, <3>1, <3>3, GetPoolSteps DEF Locked
      <3> QED BY <3>2, <3>3
    <2>6. CASE Store(t)
      <3>1. \A u \in Threads \ {t} : th[u].pc \notin Locked
        BY <2>6, GetPoolSteps DEF LockInv, Locked
      <3> QED BY <2>1, <2>6, <3>1, GetPoolSteps DEF Locked
    <2>7. CASE ~(Look(t) \/ Lock(t) \/ Recheck(t) \/ LookAgain(t) \/ PoolFails(t) \/ Store(t))
      BY <1>1, <2>1, <2>7, OutsideLock DEF Locked
    <2>8. CASE PoolFails(t)
      BY <2>1, <2>8, GetPoolSteps
    <2> QED BY <2>2, <2>3, <2>4, <2>5, <2>6, <2>7, <2>8
  <1>2. ASSUME NEW k \in Closers, MarkClosed(k) PROVE PoolInv'
    BY <1>2 DEF MarkClosed, CloserAt, TypeOK
  <1>3. ASSUME NEW k \in Closers, IfPool(k) PROVE PoolInv'
    BY <1>3 DEF IfPool, CloserAt, TypeOK
  <1>4. ASSUME NEW k \in Closers, ClosePool(k) PROVE PoolInv'
    <2>1. /\ cl[k] = "closing" /\ DOMAIN cl' = Closers
          /\ cl'[k] \in {"AttributeError", "dropping"} /\ \A j \in Closers \ {k} : cl'[j] = cl[j]
          /\ UNCHANGED <<closed, pool, th>>
      BY <1>4 DEF ClosePool, CloserAt, TypeOK
    <2>2. \A t \in Threads : pools'[t] = IF t = pool THEN "closed" ELSE pools[t]
      BY <1>4 DEF ClosePool
    <2>3. pool # None => pools'[pool] = "closed"
      BY <2>2 DEF TypeOK, PoolRefs
    <2> QED BY <2>1, <2>2, <2>3
  <1>5. ASSUME NEW k \in Closers, DropPool(k) PROVE PoolInv'
    <2>1. /\ closed /\ pool' = None /\ cl[k] = "dropping" /\ cl' = [cl EXCEPT ![k] = "ok"]
          /\ UNCHANGED <<closed, mutex, pools, th, db>>
      BY <1>5 DEF DropPool, CloserAt
    <2>2. ASSUME NEW t \in Threads, At(t, "lookagain"), NEW u \in Threads PROVE pools[u] # "open"
      BY <2>1, <2>2
    <2> QED BY <2>1, <2>2 DEF TypeOK
  <1>6. ASSUME ServerRestart PROVE PoolInv'
    <2>1. \A t \in Threads : th'[t].pc = th[t].pc
      BY <1>6, RestartStep
    <2>2. UNCHANGED <<closed, pool, pools, cl>>
      BY <1>6 DEF ServerRestart
    <2> QED BY <2>1, <2>2
  <1>7. CASE UNCHANGED vars
    BY <1>7 DEF vars
  <1> QED BY <1>1, <1>2, <1>3, <1>4, <1>5, <1>6, <1>7 DEF Next, Moves, Close

-----------------------------------------------------------------------------
(* The database.                                                           *)

(* A call's end: only a statement on a connection of its own or a COMMIT   *)
(* changes the database, and without either the call ends in an error; an  *)
(* AttributeError, only once close() has begun.                            *)
LEMMA EndStep ==
  ASSUME TypeOK, PoolInv, NEW t \in Threads, Sound(th[t]), Moves(t),
         ~ExecAlone(t), ~Commit(t)
  PROVE  /\ th[t].pc # "done" /\ db' = db /\ th'[t].task = th[t].task
         /\ th'[t].pc = "done" =>
              /\ th'[t].out \in {"StoreError", "raised", "AttributeError", "RuntimeError"}
              /\ th'[t].out = "AttributeError" => closed'
  <1> DEFINE c == th[t]
  <1>0. /\ th \in [Threads -> Calls] /\ c \in Calls
        /\ c.pc = "exec" /\ c.opPool = None => c.txPool # None
        /\ At(t, "take") /\ pool = None => closed
    BY DEF TypeOK, Sound, Placed, PoolInv
  <1> USE <1>0 DEF At, Goto, Set
  <1>1. CASE Call(t)
    <2>1. CASE c.task = "op"
      BY <1>1, <2>1 DEF Call, Calls
    <2>2. CASE c.task # "op"
      <3> DEFINE d == [c EXCEPT !.pc = "get", !.goal = "tx"]
      <3>1. d.pc = "get" /\ d.task = c.task
        BY DEF Calls
      <3>2. th'[t] = d /\ c.pc = "start" /\ db' = db
        BY <1>1, <2>2 DEF Call
      <3> QED BY ONLY <3>1, <3>2
    <2> QED BY <2>1, <2>2
  <1>2. CASE Acquire(t)
    BY <1>2 DEF Acquire, Calls
  <1>3. CASE GetPool(t)
    BY <1>3, ThrownTo DEF GetPool, Calls
  <1>4. CASE Look(t)
    BY <1>4 DEF Look, Calls
  <1>5. CASE Lock(t)
    BY <1>5 DEF Lock, Calls
  <1>6. CASE Recheck(t)
    BY <1>6, ThrownTo DEF Recheck, Calls
  <1>7. CASE LookAgain(t)
    BY <1>7 DEF LookAgain, Calls
  <1>8. CASE Store(t)
    BY <1>8 DEF Store, Calls
  <1>9. CASE Take(t)
    <2>1. CASE pool = None
      BY <1>9, <2>1, ThrownTo DEF Take
    <2>2. CASE pool # None
      BY <1>9, <2>2 DEF Take, Calls
    <2> QED BY <2>1, <2>2
  <1>10. CASE Borrow(t)
    BY <1>10 DEF Borrow, Calls
  <1>11. CASE Refused(t)
    BY <1>11, ThrownTo DEF Refused, Calls
  <1>12. CASE PoolTimeout(t)
    BY <1>12, ThrownTo DEF PoolTimeout, Calls
  <1>13. CASE ExecInTx(t)
    <2> DEFINE bad == [c EXCEPT !.tx = IF @ = "open" THEN "aborted" ELSE @]
    <2>1. c.pc = "exec" /\ c.txPool # None /\ db' = db
      BY <1>13 DEF ExecInTx
    <2>2. bad \in Calls /\ bad.txPool # None /\ bad.task = c.task
      BY <2>1 DEF Calls
    <2> HIDE DEF bad
    <2>3. Thrown(bad, "StoreError").pc = "body" /\ Thrown(bad, "StoreError").task = c.task
      BY <2>2, ThrownTo
    <2>4. CASE Set(t, Thrown(bad, "StoreError"))
      BY <2>1, <2>3, <2>4
    <2>5. CASE ~Set(t, Thrown(bad, "StoreError"))
      <3> DEFINE d == [c EXCEPT !.pc = "body", !.buf = @ \cup {c.at}, !.at = @ + 1]
      <3>1. d.pc = "body" /\ d.task = c.task
        BY DEF Calls
      <3>2. th'[t] = d
        BY <1>13, <2>5 DEF ExecInTx, bad
      <3> QED BY <2>1, <3>1, <3>2
    <2> QED BY <2>4, <2>5
  <1>14. CASE WriteNext(t)
    BY <1>14 DEF WriteNext, InBlock, BlockStep, Calls
  <1>15. CASE EnterNested(t)
    BY <1>15 DEF EnterNested, InBlock, BlockStep, Calls
  <1>16. CASE SkipNested(t)
    BY <1>16 DEF SkipNested, InBlock, BlockStep, Calls
  <1>17. CASE LeaveNested(t)
    BY <1>17 DEF LeaveNested, InBlock, BlockStep, Calls
  <1>18. CASE NestedRaises(t)
    <2> DEFINE lost == c.tx = "lost"
               back == [c EXCEPT !.saved = NoSavepoint,
                                 !.buf = IF lost THEN {} ELSE c.saved,
                                 !.tx = IF lost THEN "lost" ELSE "open"]
    <2>1. c.pc = "body" /\ db' = db
      BY <1>18 DEF NestedRaises, BlockStep
    <2>2. th'[t] = back \/ th'[t] = [back EXCEPT !.failed = FALSE, !.at = 3]
      BY <1>18 DEF NestedRaises, BlockStep
    <2>3. /\ back.pc = "body" /\ [back EXCEPT !.failed = FALSE, !.at = 3].pc = "body"
          /\ back.task = c.task /\ [back EXCEPT !.failed = FALSE, !.at = 3].task = c.task
      BY <2>1 DEF Calls
    <2> QED BY <2>1, <2>2, <2>3
  <1>19. CASE Swallow(t)
    BY <1>19 DEF Swallow, BlockStep, Calls
  <1>20. CASE BodyRaises(t)
    BY <1>20 DEF BodyRaises, InBlock, BlockStep, Calls
  <1>21. CASE Rollback(t)
    BY <1>21 DEF Rollback, EndTx, Calls
  <1>22. CASE PoolFails(t)
    BY <1>22, ThrownTo DEF PoolFails, Calls
  <1> QED
    BY <1>1, <1>2, <1>3, <1>4, <1>5, <1>6, <1>7, <1>8, <1>9, <1>10, <1>11, <1>12, <1>13, <1>14, <1>15, <1>16, <1>17, <1>18, <1>19, <1>20, <1>21, <1>22 DEF Moves, Run

(* A COMMIT of an open transaction writes the rows of a block that hid     *)
(* nothing; any other writes nothing, and reports no success unless the    *)
(* block hid an exception.                                                 *)
LEMMA CommitStep ==
  ASSUME TypeOK, NEW t \in Threads, Sound(th[t]), Commit(t)
  PROVE  /\ th[t].pc = "body" /\ th[t].task = "tx" /\ th'[t].pc = "done"
         /\ th'[t].task = "tx" /\ th'[t].swallowed = th[t].swallowed
         /\ th'[t].out \in {"ok", "StoreError"}
         /\ \/ /\ db' = db
               /\ th'[t].out = "ok" => th[t].swallowed
            \/ /\ ~th[t].swallowed
               /\ \E rows \in {Chain, Rows} : db' = db \cup {<<t, r>> : r \in rows}
  <1> DEFINE c == th[t]
  <1>1. /\ th \in [Threads -> Calls] /\ c \in Calls
        /\ c.pc = "body" /\ ~c.failed /\ c.at = 4 /\ c.txPool # None /\ c.task = "tx"
    BY DEF TypeOK, Sound, Placed, Commit, InBlock, At, WithAmbient, Calls
  <1>2. PICK result \in {"ok", "StoreError"} : EndTx(t, result)
    BY DEF Commit
  <1>3. /\ th'[t].pc = "done" /\ th'[t].task = "tx" /\ th'[t].swallowed = c.swallowed
        /\ th'[t].out = result
    BY <1>1, <1>2 DEF EndTx, Set, Calls
  <1>4. CASE c.tx = "open"
    <2>1. c.buf \in {Chain, Rows} /\ ~c.swallowed
      BY <1>1, <1>4 DEF Sound, InTransaction, Buffered
    <2>2. db' = db \cup {<<t, r>> : r \in c.buf}
      BY <1>4 DEF Commit
    <2> QED BY <1>1, <1>2, <1>3, <2>1, <2>2
  <1>5. CASE c.tx # "open"
    <2>1. db' = db
      BY <1>5 DEF Commit
    <2>2. result = "ok" => c.tx = "aborted"
      BY <1>1, <1>3, <1>5, ZenonT(40) DEF Commit, EndTx, Set, Calls
    <2>3. result = "ok" => c.swallowed
      BY <1>1, <2>2 DEF Sound, InTransaction
    <2> QED BY <1>1, <1>2, <1>3, <2>1, <2>3
  <1> QED BY <1>4, <1>5

(* A statement on a connection of its own ends its call. *)
LEMMA AloneStep ==
  ASSUME TypeOK, NEW t \in Threads, Sound(th[t]), ExecAlone(t)
  PROVE  /\ th[t].task = "op" /\ th'[t].task = "op" /\ th'[t].pc = "done"
         /\ th'[t].out \in {"ok", "StoreError"}
         /\ \E row \in Rows : db' \in {db, db \cup {<<t, row>>}}
  <1> DEFINE c == th[t]
             b == [c EXCEPT !.opPool = None]
  <1>1. th \in [Threads -> Calls] /\ c \in Calls /\ c.pc = "exec" /\ c.opPool # None
    BY DEF TypeOK, ExecAlone, At
  <1>2. c.task = "op" /\ c.txPool = None /\ c.at = 1
    BY <1>1, AloneIsSound DEF Sound, Unwritten
  <1>3. b \in Calls /\ b.task = "op" /\ b.txPool = None /\ b.at = 1
    BY <1>1, <1>2 DEF Calls, PoolRefs
  <1>4. th'[t] = Thrown(b, "StoreError") \/ th'[t] = [b EXCEPT !.pc = "done", !.out = "ok"]
    BY <1>1, <1>3 DEF ExecAlone, Set
  <1>5. th'[t].pc = "done" /\ th'[t].task = "op" /\ th'[t].out \in {"ok", "StoreError"}
    <2> HIDE DEF b
    <2>1. CASE th'[t] = Thrown(b, "StoreError")
      BY <1>3, <2>1, ThrownTo
    <2>2. CASE th'[t] = [b EXCEPT !.pc = "done", !.out = "ok"]
      BY <1>3, <2>2 DEF Calls
    <2> QED BY <1>4, <2>1, <2>2
  <1>6. db' \in {db, db \cup {<<t, 1>>}}
    BY <1>3 DEF ExecAlone
  <1> QED BY <1>2, <1>5, <1>6 DEF Rows

(* Whole transactions, and honest results. *)
LEMMA DbStep ==
  ASSUME TypeOK, \A t \in Threads : Sound(th[t]), PoolInv, DbInv, [Next]_vars
  PROVE  DbInv'
  <1> USE DEF DbInv, NoTornDag, ResultIsTrue, At
  <1>1. ASSUME NEW t \in Threads, Moves(t) PROVE DbInv'
    <2>1. \A u \in Threads \ {t} : th'[u] = th[u]
      BY <1>1, OneMoves
    <2>0. closed => closed'
      BY <1>1, OutsideLock, GetPoolSteps
    <2>2. CASE Commit(t)
      <3>1. Committed(t) = {}
        BY <2>2, CommitStep
      <3>2. \A u \in Threads \ {t} : Committed(u)' = Committed(u)
        BY <2>2, CommitStep DEF Committed
      <3>3. CASE db' = db
        <4>1. Committed(t)' = {}
          BY <3>1, <3>3 DEF Committed
        <4>2. th'[t].pc = "done" /\ th'[t].out \in {"ok", "StoreError"}
          BY <2>2, CommitStep
        <4>3. th'[t].out = "ok" => th'[t].swallowed
          <5>1. <<t, 1>> \notin db'
            BY <4>1 DEF Committed, Rows
          <5>2. \A rows \in {Chain, Rows} : <<t, 1>> \in {<<t, r>> : r \in rows}
            BY DEF Chain, Rows
          <5> QED BY <2>2, <5>1, <5>2, CommitStep
        <4> QED BY <2>0, <2>1, <3>2, <4>1, <4>2, <4>3
      <3>4. CASE db' # db
        <4>1. PICK rows \in {Chain, Rows} : db' = db \cup {<<t, r>> : r \in rows}
          BY <2>2, <3>4, CommitStep
        <4>2. Committed(t)' = rows
          BY <3>1, <4>1 DEF Committed, Chain, Rows
        <4>3. Chain \subseteq rows /\ ~th'[t].swallowed
          BY <2>2, <3>4, CommitStep DEF Chain, Rows
        <4> QED BY <2>0, <2>1, <2>2, <3>2, <4>2, <4>3, CommitStep
      <3> QED BY <3>3, <3>4
    <2>3. CASE ExecAlone(t)
      <3>1. \A u \in Threads \ {t} : Committed(u)' = Committed(u)
        BY <2>3, AloneStep DEF Committed
      <3> QED BY <2>0, <2>1, <2>3, <3>1, AloneStep
    <2>4. CASE ~ExecAlone(t) /\ ~Commit(t)
      <3>1. \A u \in Threads : Committed(u)' = Committed(u)
        BY <1>1, <2>4, EndStep DEF Committed
      <3>2. Committed(t) = {}
        BY <1>1, <2>4, EndStep
      <3>3. th'[t].pc # "done" => th'[t].out = "none"
        BY <1>1, OneMoves DEF Sound, Placed
      <3> QED BY <1>1, <2>0, <2>1, <2>4, <3>1, <3>2, <3>3, EndStep
    <2> QED BY <2>2, <2>3, <2>4
  <1>2. ASSUME NEW k \in Closers, Close(k) PROVE DbInv'
    BY <1>2 DEF Close, MarkClosed, IfPool, ClosePool, DropPool, Committed
  <1>3. ASSUME ServerRestart PROVE DbInv'
    <2>1. \A t \in Threads :
            /\ th'[t].pc = th[t].pc /\ th'[t].task = th[t].task
            /\ th'[t].out = th[t].out /\ th'[t].swallowed = th[t].swallowed
      BY <1>3, RestartStep
    <2>2. closed' = closed /\ \A t \in Threads : Committed(t)' = Committed(t)
      BY <1>3 DEF ServerRestart, Committed
    <2> QED BY <2>1, <2>2
  <1>4. CASE UNCHANGED vars
    BY <1>4 DEF vars, Committed
  <1> QED BY <1>1, <1>2, <1>3, <1>4 DEF Next, Moves

-----------------------------------------------------------------------------
(* The theorems.                                                           *)

LEMMA InitIInv == Init => IInv
  <1> SUFFICES ASSUME Init PROVE IInv
    OBVIOUS
  <1> USE ThreadAssumption
  <1>1. PICK tasks \in [Threads -> {"op", "tx"}] :
          th = [t \in Threads |->
                  [pc |-> "start", task |-> tasks[t], goal |-> "op", mine |-> None,
                   txPool |-> None, opPool |-> None, tx |-> "none", buf |-> {},
                   saved |-> NoSavepoint, at |-> 1, failed |-> FALSE, swallowed |-> FALSE,
                   out |-> "none"]]
    BY DEF Init
  <1>2. ASSUME NEW t \in Threads PROVE Sound(th[t])
    BY <1>1 DEF Sound, Calls, PoolRefs, Rows, Placed, WithAmbient, Unwritten, InTransaction
  <1>3. TypeOK
    <2>1. th \in [Threads -> Calls]
      BY <1>1, <1>2 DEF Sound
    <2> QED BY <2>1 DEF Init, TypeOK, PoolRefs
  <1>4. LockInv
    BY <1>1 DEF Init, LockInv, Locked
  <1>5. PoolInv
    BY <1>1 DEF Init, PoolInv, At
  <1>6. DbInv
    BY <1>1 DEF Init, DbInv, NoTornDag, ResultIsTrue, Committed, At
  <1> QED BY <1>2, <1>3, <1>4, <1>5, <1>6 DEF IInv

(* Calls stay sound, and variables within their types. *)
LEMMA TypeStep ==
  ASSUME TypeOK, \A t \in Threads : Sound(th[t]), PoolInv, [Next]_vars
  PROVE  TypeOK' /\ \A t \in Threads : Sound(th'[t])
  <1>1. ASSUME NEW t \in Threads, Moves(t)
        PROVE  TypeOK' /\ \A u \in Threads : Sound(th'[u])
    <2>1. th' \in [Threads -> Calls] /\ \A u \in Threads : Sound(th'[u])
      BY <1>1, OneMoves
    <2>2. closed' \in BOOLEAN /\ pool' \in PoolRefs /\ mutex' \in PoolRefs /\ cl' = cl
          /\ pools' \in [Threads -> {"unborn", "open", "closed"}]
      BY <1>1, OutsideLock, GetPoolSteps DEF TypeOK, PoolRefs
    <2>3. db' \subseteq Threads \X Rows
      <3>1. CASE Commit(t)
        BY <3>1, CommitStep DEF TypeOK, Chain, Rows
      <3>2. CASE ExecAlone(t)
        BY <3>2, AloneStep DEF TypeOK
      <3>3. CASE ~Commit(t) /\ ~ExecAlone(t)
        BY <1>1, <3>3, EndStep DEF TypeOK
      <3> QED BY <3>1, <3>2, <3>3
    <2> QED BY <2>1, <2>2, <2>3 DEF TypeOK
  <1>2. ASSUME NEW k \in Closers, Close(k)
        PROVE  TypeOK' /\ \A u \in Threads : Sound(th'[u])
    BY <1>2 DEF Close, MarkClosed, IfPool, ClosePool, DropPool, CloserAt, TypeOK, PoolRefs
  <1>3. ASSUME ServerRestart PROVE TypeOK' /\ \A u \in Threads : Sound(th'[u])
    BY <1>3, RestartStep DEF ServerRestart, TypeOK
  <1>4. CASE UNCHANGED vars
    BY <1>4 DEF vars, TypeOK
  <1> QED BY <1>1, <1>2, <1>3, <1>4 DEF Next, Moves

(* The invariant is inductive. *)
LEMMA Inductive == IInv /\ [Next]_vars => IInv'
  <1> SUFFICES ASSUME IInv, [Next]_vars PROVE IInv'
    OBVIOUS
  <1>1. TypeOK' /\ \A t \in Threads : Sound(th'[t])
    BY TypeStep DEF IInv
  <1>2. LockInv' /\ PoolInv' /\ DbInv'
    BY LockStep, PoolStep, DbStep DEF IInv
  <1> QED BY <1>1, <1>2 DEF IInv

LEMMA Invariance == Spec => []IInv
  BY InitIInv, Inductive, PTL DEF Spec

(* However calls and close() interleave, the store never has two pools     *)
(* open at once (lineage.py, _get_pool).                                   *)
THEOREM OnePool == Spec => []OneOpenPool
  <1>1. IInv => OneOpenPool
    <2> SUFFICES ASSUME IInv PROVE OneOpenPool
      OBVIOUS
    <2> DEFINE open == {t \in Threads : pools[t] = "open"}
    <2>1. CASE open = {}
      BY <2>1, FS_EmptySet DEF OneOpenPool
    <2>2. ASSUME NEW t \in open PROVE OneOpenPool
      <3>1. open = {t}
        BY DEF IInv, PoolInv
      <3>2. Cardinality(open) = 1
        BY <3>1, FS_Singleton
      <3> QED BY <3>2 DEF OneOpenPool
    <2> QED BY <2>1, <2>2
  <1> QED BY <1>1, Invariance, PTL

(* No transaction is ever committed in part (lineage.py, transaction).     *)
THEOREM WholeTransactions == Spec => []NoTornDag
  <1>1. IInv => NoTornDag
    BY DEF IInv, DbInv
  <1> QED BY <1>1, Invariance, PTL

(* Until a block has ended, nobody else sees a row of it: not while        *)
(* statements of it fail, and not for a nested block that has ended        *)
(* (lineage.py, transaction).                                              *)
THEOREM NoEarlyRows == Spec => []NothingEarly
  <1>1. IInv => NothingEarly
    BY DEF IInv, DbInv, NothingEarly
  <1> QED BY <1>1, Invariance, PTL

(* What a caller is told of its block is so, whatever exceptions the block *)
(* hid, savepoints were gone back to and connections lost (lineage.py,     *)
(* transaction, _insert, _acquire).                                        *)
THEOREM HonestResults == Spec => []ResultIsTrue
  <1>1. IInv => ResultIsTrue
    BY DEF IInv, DbInv
  <1> QED BY <1>1, Invariance, PTL

-----------------------------------------------------------------------------
(***************************************************************************)
(* What the constraints and the upserts of the lineage DAG amount to: the  *)
(* links are never torn, one hash is one asset, and what stages recorded,  *)
(* in whatever order, is what the rows say together.                       *)
(*                                                                         *)
(* The histories grow at one end.  A row says what the last call that said *)
(* anything did; so each history is held to "the row says what call n      *)
(* said, and no call after n said anything", which appending a call, and   *)
(* blanking what a deletion unlinks, keep; LastOf is derived in the end.   *)
(***************************************************************************)

(* The calls of a history that say something of a field. *)
WithImmich(log) == {n \in DOMAIN log : log[n].immich # Null}
WithKey(log, k) == {n \in DOMAIN log : k \in DOMAIN log[n].meta}
WithEdit(log) == {n \in DOMAIN log : log[n].edit # Null}

(* Call n is the last of them. *)
IsLast(n, such) == n \in such /\ \A k \in such : k <= n

(* What a row has of its history. *)
AssetRemembers(row, log) ==
    /\ row.uri = log[Len(log)].uri
    /\ \/ WithImmich(log) = {} /\ row.immich = Null
       \/ \E n \in DOMAIN log : IsLast(n, WithImmich(log)) /\ row.immich = log[n].immich
    /\ \A k : k \in DOMAIN row.meta <=> WithKey(log, k) # {}
    /\ \A k \in DOMAIN row.meta : \E n \in DOMAIN log :
         IsLast(n, WithKey(log, k)) /\ row.meta[k] = log[n].meta[k]
MemberRemembers(row, log) ==
    \/ WithEdit(log) = {} /\ row.edit = Null
    \/ \E n \in DOMAIN log : IsLast(n, WithEdit(log)) /\ row.edit = log[n].edit

Histories ==
    /\ \A i \in DOMAIN assetLog : assetLog[i] \in Seq(AssetCalls) \ {<<>>}
    /\ \A m \in DOMAIN memberLog : memberLog[m] \in Seq(Links) \ {<<>>}
RowsRemember ==
    /\ \A i \in DOMAIN asset : AssetRemembers(asset[i], assetLog[i])
    /\ \A m \in DOMAIN member : MemberRemembers(member[m], memberLog[m])

DagInv == DagTypeOK /\ Histories /\ NoDanglingLink /\ OneAssetPerHash /\ RowsRemember

-----------------------------------------------------------------------------
(* The operators of the model.                                             *)

(* A row's new id is one of the ids no row has. *)
LEMMA FreshIsFree ==
    ASSUME NEW rows, Room(rows)
    PROVE  Fresh(rows) \in Ids \ rows
BY DEF Room, Fresh

(* The last of a set of calls is the one no other comes after. *)
LEMMA LastIs ==
    ASSUME NEW S \in SUBSET Nat, NEW n, IsLast(n, S)
    PROVE  LastOf(S) = n
<1>1. \A m \in S : (\A k \in S : k <= m) => m = n
  BY DEF IsLast
<1>2. \E m \in S : \A k \in S : k <= m
  BY DEF IsLast
<1>3. S # {}
  BY DEF IsLast
<1> QED BY <1>1, <1>2, <1>3 DEF LastOf

(* Null is no id. *)
LEMMA NullIsNoId == Null \notin Ids
BY NullAssumption DEF Ids

(* A longer history. *)
LEMMA Longer ==
    ASSUME NEW S, NEW log \in Seq(S), NEW call \in S, NEW longer, longer = Append(log, call)
    PROVE  /\ longer \in Seq(S) \ {<<>>} /\ Len(log) \in Nat /\ Len(longer) = Len(log) + 1
           /\ DOMAIN log = 1..Len(log) /\ DOMAIN longer = 1..Len(log) + 1
           /\ longer[Len(log) + 1] = call /\ \A n \in DOMAIN log : longer[n] = log[n]
OBVIOUS

-----------------------------------------------------------------------------
(* One asset and its history.                                              *)

LEMMA FirstCallRemembered ==
    ASSUME NEW call \in AssetCalls
    PROVE  <<call>> \in Seq(AssetCalls) \ {<<>>} /\ AssetRemembers(NewAsset(call), <<call>>)
<1> DEFINE log == <<call>>
<1>1. log \in Seq(AssetCalls) \ {<<>>} /\ Len(log) = 1 /\ DOMAIN log = {1} /\ log[1] = call
  OBVIOUS
<1> HIDE DEF log
<1>2. WithImmich(log) = IF call.immich # Null THEN {1} ELSE {}
  BY <1>1 DEF WithImmich
<1>3. \A k : WithKey(log, k) = IF k \in DOMAIN call.meta THEN {1} ELSE {}
  BY <1>1 DEF WithKey
<1>4. IsLast(1, {1})
  BY DEF IsLast
<1>5. /\ NewAsset(call).uri = call.uri /\ NewAsset(call).immich = call.immich
      /\ NewAsset(call).meta = call.meta
  BY DEF NewAsset
<1>6. AssetRemembers(NewAsset(call), log)
  BY <1>1, <1>2, <1>3, <1>4, <1>5 DEF AssetRemembers
<1> QED BY <1>1, <1>6 DEF log

LEMMA NextCallRemembered ==
    ASSUME NEW log \in Seq(AssetCalls), NEW call \in AssetCalls,
           NEW row, AssetRemembers(row, log),
           NEW new, new.uri = call.uri, new.immich = Coalesce(call.immich, row.immich),
           new.meta = Merge(row.meta, call.meta)
    PROVE  AssetRemembers(new, Append(log, call))
<1> DEFINE longer == Append(log, call)
           len == Len(log)
<1>1. /\ len \in Nat /\ DOMAIN log = 1..len
      /\ Len(longer) = len + 1 /\ DOMAIN longer = 1..len + 1 /\ longer[len + 1] = call
      /\ \A n \in 1..len : longer[n] = log[n]
  BY Longer
<1> HIDE DEF longer, len
<1>2. new.uri = longer[Len(longer)].uri
  BY <1>1
<1>3. \/ WithImmich(longer) = {} /\ new.immich = Null
      \/ \E n \in DOMAIN longer :
           IsLast(n, WithImmich(longer)) /\ new.immich = longer[n].immich
  <2>1. WithImmich(log) \in SUBSET (1..len)
    BY <1>1 DEF WithImmich
  <2>2. CASE call.immich # Null
    <3>1. WithImmich(longer) = WithImmich(log) \cup {len + 1}
      BY <1>1, <2>2 DEF WithImmich
    <3>2. IsLast(len + 1, WithImmich(longer))
      BY <1>1, <2>1, <3>1 DEF IsLast
    <3> QED BY <1>1, <2>2, <3>2 DEF Coalesce
  <2>3. CASE call.immich = Null
    <3>1. WithImmich(longer) = WithImmich(log)
      BY <1>1, <2>3 DEF WithImmich
    <3>2. new.immich = row.immich
      BY <2>3 DEF Coalesce
    <3> QED BY <1>1, <3>1, <3>2 DEF AssetRemembers
  <2> QED BY <2>2, <2>3
<1>4. ASSUME NEW k
      PROVE  WithKey(longer, k) =
               WithKey(log, k) \cup (IF k \in DOMAIN call.meta THEN {len + 1} ELSE {})
  BY <1>1 DEF WithKey
<1>5. DOMAIN new.meta = DOMAIN row.meta \cup DOMAIN call.meta
  BY DEF Merge
<1>6. \A k : k \in DOMAIN new.meta <=> WithKey(longer, k) # {}
  BY <1>4, <1>5 DEF AssetRemembers
<1>7. ASSUME NEW k \in DOMAIN new.meta
      PROVE  \E n \in DOMAIN longer :
               IsLast(n, WithKey(longer, k)) /\ new.meta[k] = longer[n].meta[k]
  <2>1. WithKey(log, k) \in SUBSET (1..len)
    BY <1>1 DEF WithKey
  <2>2. CASE k \in DOMAIN call.meta
    <3>1. IsLast(len + 1, WithKey(longer, k))
      BY <1>1, <1>4, <2>1, <2>2 DEF IsLast
    <3>2. new.meta[k] = call.meta[k]
      BY <1>5, <1>7, <2>2 DEF Merge
    <3> QED BY <1>1, <3>1, <3>2
  <2>3. CASE k \notin DOMAIN call.meta
    <3>1. WithKey(longer, k) = WithKey(log, k)
      BY <1>4, <2>3
    <3>2. k \in DOMAIN row.meta /\ new.meta[k] = row.meta[k]
      BY <1>5, <1>7, <2>3 DEF Merge
    <3>3. PICK n \in DOMAIN log : IsLast(n, WithKey(log, k)) /\ row.meta[k] = log[n].meta[k]
      BY <3>2 DEF AssetRemembers
    <3> QED BY <1>1, <3>1, <3>2, <3>3
  <2> QED BY <2>2, <2>3
<1>8. AssetRemembers(new, longer)
  BY <1>2, <1>3, <1>6, <1>7 DEF AssetRemembers
<1> QED BY <1>8 DEF longer


-----------------------------------------------------------------------------
(* One membership and its history.                                         *)

LEMMA FirstMembershipRemembered ==
    ASSUME NEW call \in Links
    PROVE  <<call>> \in Seq(Links) \ {<<>>} /\ MemberRemembers(call, <<call>>)
<1> DEFINE log == <<call>>
<1>1. log \in Seq(Links) \ {<<>>} /\ DOMAIN log = {1} /\ log[1] = call
  OBVIOUS
<1> HIDE DEF log
<1>2. WithEdit(log) = IF call.edit # Null THEN {1} ELSE {}
  BY <1>1 DEF WithEdit
<1>3. IsLast(1, {1})
  BY DEF IsLast
<1>4. MemberRemembers(call, log)
  BY <1>1, <1>2, <1>3 DEF MemberRemembers
<1> QED BY <1>1, <1>4 DEF log

LEMMA NextMembershipRemembered ==
    ASSUME NEW log \in Seq(Links), NEW call \in Links,
           NEW row, MemberRemembers(row, log),
           NEW new, new.edit = Coalesce(call.edit, row.edit)
    PROVE  MemberRemembers(new, Append(log, call))
<1> DEFINE longer == Append(log, call)
           len == Len(log)
<1>1. /\ len \in Nat /\ DOMAIN log = 1..len /\ DOMAIN longer = 1..len + 1
      /\ longer[len + 1] = call /\ \A n \in 1..len : longer[n] = log[n]
  BY Longer
<1> HIDE DEF longer, len
<1>2. WithEdit(log) \in SUBSET (1..len)
  BY <1>1 DEF WithEdit
<1>3. CASE call.edit # Null
  <2>1. WithEdit(longer) = WithEdit(log) \cup {len + 1}
    BY <1>1, <1>3 DEF WithEdit
  <2>2. IsLast(len + 1, WithEdit(longer))
    BY <1>1, <1>2, <2>1 DEF IsLast
  <2>3. MemberRemembers(new, longer)
    BY <1>1, <1>3, <2>2 DEF Coalesce, MemberRemembers
  <2> QED BY <2>3 DEF longer
<1>4. CASE call.edit = Null
  <2>1. WithEdit(longer) = WithEdit(log)
    BY <1>1, <1>4 DEF WithEdit
  <2>2. new.edit = row.edit
    BY <1>4 DEF Coalesce
  <2>3. MemberRemembers(new, longer)
    BY <1>1, <2>1, <2>2 DEF MemberRemembers
  <2> QED BY <2>3 DEF longer
<1> QED BY <1>3, <1>4

(* Unlinking deleted rows from a membership and blanking them in its       *)
(* history.                                                                *)
LEMMA UnlinkedRemembered ==
    ASSUME NEW log \in Seq(Links) \ {<<>>}, NEW row \in Links, MemberRemembers(row, log),
           NEW edits \in SUBSET Ids, NEW runs \in SUBSET Ids
    PROVE  /\ Unlink(row, edits, runs) \in Links
           /\ Unlink(row, edits, runs).edit \in edits \cup {Null}
           /\ Unlink(row, edits, runs).run \in runs \cup {Null}
           /\ Relog(log, row, edits, runs) \in Seq(Links) \ {<<>>}
           /\ MemberRemembers(Unlink(row, edits, runs), Relog(log, row, edits, runs))
<1> DEFINE new == Unlink(row, edits, runs)
           relog == Relog(log, row, edits, runs)
<1>1. /\ new \in Links /\ new.edit \in edits \cup {Null} /\ new.run \in runs \cup {Null}
      /\ new.edit = IF row.edit \in edits THEN row.edit ELSE Null
  BY DEF Unlink, Links
<1>2. /\ Len(log) \in Nat /\ Len(log) # 0 /\ DOMAIN log = 1..Len(log)
      /\ \A n \in 1..Len(log) : log[n] \in Links
  OBVIOUS
<1>3. /\ DOMAIN relog = DOMAIN log
      /\ \A n \in DOMAIN log : relog[n] =
           [edit |-> IF row.edit \in edits /\ log[n].edit \in edits THEN log[n].edit ELSE Null,
            run |-> IF row.run \in runs /\ log[n].run \in runs THEN log[n].run ELSE Null]
  BY DEF Relog
<1>4. \A n \in DOMAIN log : relog[n] \in Links
  BY <1>3 DEF Links
<1>5. relog \in [1..Len(log) -> Links]
  BY <1>2, <1>4 DEF Relog
<1>6. relog \in Seq(Links) \ {<<>>}
  BY <1>2, <1>5
<1>7. \A n \in DOMAIN log : relog[n].edit =
        IF row.edit \in edits /\ log[n].edit \in edits THEN log[n].edit ELSE Null
  BY <1>3
<1> HIDE DEF new, relog
<1>8. CASE row.edit \notin edits
  <2>1. WithEdit(relog) = {} /\ new.edit = Null
    BY <1>1, <1>3, <1>7, <1>8 DEF WithEdit
  <2> QED BY <1>1, <1>6, <2>1 DEF MemberRemembers, new, relog
<1>9. CASE row.edit \in edits
  <2>1. PICK n \in DOMAIN log : IsLast(n, WithEdit(log)) /\ row.edit = log[n].edit
    BY <1>9, NullIsNoId DEF MemberRemembers
  <2>2. WithEdit(relog) \in SUBSET WithEdit(log) /\ n \in WithEdit(relog)
    BY <1>3, <1>7, <1>9, <2>1, NullIsNoId DEF WithEdit
  <2>3. IsLast(n, WithEdit(relog)) /\ new.edit = relog[n].edit
    BY <1>1, <1>7, <1>9, <2>1, <2>2 DEF IsLast
  <2> QED BY <1>1, <1>3, <1>6, <2>3 DEF MemberRemembers, new, relog
<1> QED BY <1>8, <1>9

-----------------------------------------------------------------------------
(* The initial state and the steps.                                        *)

LEMMA InitDagInv == DagInit => DagInv
<1> SUFFICES ASSUME DagInit PROVE DagInv
  OBVIOUS
<1>1. /\ DOMAIN asset = {} /\ DOMAIN caption = {} /\ DOMAIN edit = {} /\ DOMAIN member = {}
      /\ DOMAIN assetLog = {} /\ DOMAIN memberLog = {} /\ run = {} /\ calls = 0
  BY DEF DagInit
<1> QED BY <1>1, BoundAssumption
      DEF DagInv, DagTypeOK, Histories, NoDanglingLink, OneAssetPerHash, RowsRemember

LEMMA RecordAssetStep ==
    ASSUME DagInv, NEW call \in AssetCalls, RecordAsset(call)
    PROVE  DagInv'
<1> USE DEF DagInv
<1>1. calls' \in 0..MaxCalls
  <2>1. OneCall
    BY DEF RecordAsset
  <2> QED BY <2>1, BoundAssumption DEF OneCall, DagTypeOK
<1>2. /\ UNCHANGED <<caption, edit, run, member, memberLog>>
      /\ DOMAIN asset \subseteq DOMAIN asset'
  BY DEF RecordAsset, With
<1>3. CASE /\ SameHash(call.sha) = {} /\ Room(DOMAIN asset)
           /\ asset' = With(asset, Fresh(DOMAIN asset), NewAsset(call))
           /\ assetLog' = With(assetLog, Fresh(DOMAIN asset), <<call>>)
  <2> DEFINE i == Fresh(DOMAIN asset)
  <2>1. i \in Ids \ DOMAIN asset
    BY <1>3, FreshIsFree
  <2> HIDE DEF i
  <2>2. /\ DOMAIN asset' = DOMAIN asset \cup {i} /\ DOMAIN assetLog' = DOMAIN assetLog \cup {i}
        /\ asset'[i] = NewAsset(call) /\ assetLog'[i] = <<call>>
        /\ \A j \in DOMAIN asset : asset'[j] = asset[j] /\ assetLog'[j] = assetLog[j]
    BY <1>3, <2>1 DEF With, DagTypeOK, i
  <2>3. DagTypeOK'
    BY <1>1, <1>2, <2>1, <2>2 DEF DagTypeOK, NewAsset
  <2>4. Histories'
    BY <1>2, <2>2, FirstCallRemembered DEF Histories, DagTypeOK
  <2>5. NoDanglingLink'
    BY <1>2 DEF NoDanglingLink
  <2>6. OneAssetPerHash'
    <3>1. \A j \in DOMAIN asset : call.sha # Null => asset[j].sha # call.sha
      BY <1>3 DEF SameHash
    <3>2. asset'[i].sha = call.sha
      BY <2>2 DEF NewAsset
    <3>3. Len(assetLog'[i]) = 1 /\ \A n \in DOMAIN assetLog'[i] : assetLog'[i][n].sha = call.sha
      BY <2>2
    <3> QED BY <2>2, <3>1, <3>2, <3>3 DEF OneAssetPerHash
  <2>7. RowsRemember'
    BY <1>2, <2>2, FirstCallRemembered DEF RowsRemember
  <2> QED BY <2>3, <2>4, <2>5, <2>6, <2>7
<1>4. ASSUME NEW i \in SameHash(call.sha),
             asset' = [asset EXCEPT ![i].uri = call.uri,
                                    ![i].immich = Coalesce(call.immich, @),
                                    ![i].meta = Merge(@, call.meta)],
             assetLog' = [assetLog EXCEPT ![i] = Append(@, call)]
      PROVE  DagInv'
  <2>1. i \in DOMAIN asset /\ i \in DOMAIN assetLog
    BY <1>4 DEF SameHash, DagTypeOK
  <2>2. /\ DOMAIN asset' = DOMAIN asset /\ DOMAIN assetLog' = DOMAIN assetLog
        /\ \A j \in DOMAIN asset \ {i} : asset'[j] = asset[j] /\ assetLog'[j] = assetLog[j]
        /\ assetLog'[i] = Append(assetLog[i], call)
    BY <1>4, <2>1 DEF DagTypeOK
  <2>3. /\ DOMAIN asset'[i] = DOMAIN asset[i] /\ asset'[i].sha = asset[i].sha
        /\ asset'[i].uri = call.uri /\ asset'[i].immich = Coalesce(call.immich, asset[i].immich)
        /\ asset'[i].meta = Merge(asset[i].meta, call.meta)
    BY <1>4, <2>1 DEF DagTypeOK
  <2>4. DagTypeOK'
    BY <1>1, <1>2, <2>1, <2>2, <2>3 DEF DagTypeOK
  <2>5. Histories'
    <3>1. assetLog'[i] \in Seq(AssetCalls) \ {<<>>}
      BY <2>1, <2>2, Longer DEF Histories
    <3> QED BY <1>2, <2>2, <3>1 DEF Histories, DagTypeOK
  <2>6. NoDanglingLink'
    BY <1>2 DEF NoDanglingLink
  <2>7. OneAssetPerHash'
    <3>1. asset[i].sha = call.sha /\ call.sha # Null
      BY <1>4 DEF SameHash
    <3>2. \A n \in DOMAIN assetLog'[i] : assetLog'[i][n].sha = call.sha
      <4>1. assetLog[i] \in Seq(AssetCalls)
        BY <2>1 DEF Histories
      <4>2. \A n \in DOMAIN assetLog[i] : assetLog[i][n].sha = call.sha
        BY <2>1, <3>1 DEF OneAssetPerHash
      <4> QED BY <2>2, <4>1, <4>2, Longer
    <3> QED BY <2>1, <2>2, <2>3, <3>1, <3>2 DEF OneAssetPerHash
  <2>8. AssetRemembers(asset'[i], assetLog'[i])
    BY <2>1, <2>2, <2>3, NextCallRemembered DEF Histories, RowsRemember
  <2>9. RowsRemember'
    BY <1>2, <2>2, <2>8 DEF RowsRemember
  <2> QED BY <2>4, <2>5, <2>6, <2>7, <2>9
<1> QED BY <1>3, <1>4 DEF RecordAsset

LEMMA RecordCaptionStep ==
    ASSUME DagInv, NEW a \in Ids, RecordCaption(a)
    PROVE  DagInv'
<1> USE DEF DagInv
<1> DEFINE c == Fresh(DOMAIN caption)
<1>1. c \in Ids \ DOMAIN caption /\ a \in DOMAIN asset
  BY FreshIsFree DEF RecordCaption
<1>2. /\ DOMAIN caption' = DOMAIN caption \cup {c} /\ caption'[c] = a
      /\ \A d \in DOMAIN caption : caption'[d] = caption[d]
  BY <1>1 DEF RecordCaption, With
<1>3. UNCHANGED <<asset, edit, run, member, assetLog, memberLog, calls>>
  BY DEF RecordCaption
<1> HIDE DEF c
<1>4. DagTypeOK'
  BY <1>1, <1>2, <1>3 DEF DagTypeOK
<1>5. NoDanglingLink'
  BY <1>1, <1>2, <1>3 DEF NoDanglingLink
<1>6. Histories' /\ OneAssetPerHash' /\ RowsRemember'
  BY <1>3 DEF Histories, OneAssetPerHash, RowsRemember
<1> QED BY <1>4, <1>5, <1>6

LEMMA RecordEditStep ==
    ASSUME DagInv, NEW c \in Ids, RecordEdit(c)
    PROVE  DagInv'
<1> USE DEF DagInv
<1> DEFINE e == Fresh(DOMAIN edit)
<1>1. e \in Ids \ DOMAIN edit /\ c \in DOMAIN caption
  BY FreshIsFree DEF RecordEdit
<1>2. /\ DOMAIN edit' = DOMAIN edit \cup {e} /\ edit'[e] = c
      /\ \A d \in DOMAIN edit : edit'[d] = edit[d]
  BY <1>1 DEF RecordEdit, With
<1>3. UNCHANGED <<asset, caption, run, member, assetLog, memberLog, calls>>
  BY DEF RecordEdit
<1> HIDE DEF e
<1>4. DagTypeOK'
  BY <1>1, <1>2, <1>3 DEF DagTypeOK
<1>5. NoDanglingLink'
  BY <1>1, <1>2, <1>3 DEF NoDanglingLink
<1>6. Histories' /\ OneAssetPerHash' /\ RowsRemember'
  BY <1>3 DEF Histories, OneAssetPerHash, RowsRemember
<1> QED BY <1>4, <1>5, <1>6

LEMMA RecordTrainingRunStep ==
    ASSUME DagInv, RecordTrainingRun
    PROVE  DagInv'
<1> USE DEF DagInv
<1>1. Fresh(run) \in Ids
  BY FreshIsFree DEF RecordTrainingRun
<1>2. run' \subseteq Ids /\ run \subseteq run'
  BY <1>1 DEF RecordTrainingRun, DagTypeOK
<1>3. UNCHANGED <<asset, caption, edit, member, assetLog, memberLog, calls>>
  BY DEF RecordTrainingRun
<1>4. DagTypeOK'
  BY <1>2, <1>3 DEF DagTypeOK
<1>5. NoDanglingLink'
  BY <1>2, <1>3 DEF NoDanglingLink
<1>6. Histories' /\ OneAssetPerHash' /\ RowsRemember'
  BY <1>3 DEF Histories, OneAssetPerHash, RowsRemember
<1> QED BY <1>4, <1>5, <1>6

LEMMA AddToDatasetStep ==
    ASSUME DagInv, NEW d \in Datasets, NEW c \in Ids, NEW e \in Ids \cup {Null},
           NEW r \in Ids \cup {Null}, AddToDataset(d, c, e, r)
    PROVE  DagInv'
<1> USE DEF DagInv
<1> DEFINE m == <<d, c>>
           call == [edit |-> e, run |-> r]
<1>1. /\ c \in DOMAIN caption /\ e \in DOMAIN edit \cup {Null} /\ r \in run \cup {Null}
      /\ UNCHANGED <<asset, caption, edit, run, assetLog>>
  BY DEF AddToDataset
<1>2. calls' \in 0..MaxCalls
  <2>1. OneCall
    BY DEF AddToDataset
  <2> QED BY <2>1, BoundAssumption DEF OneCall, DagTypeOK
<1>3. m \in Datasets \X Ids /\ m[2] = c
  OBVIOUS
<1>4. call \in Links /\ call.edit = e /\ call.run = r
  BY DEF Links
<1>5. \/ /\ m \notin DOMAIN member
         /\ member' = With(member, m, call) /\ memberLog' = With(memberLog, m, <<call>>)
      \/ /\ m \in DOMAIN member
         /\ member' = [member EXCEPT ![m].edit = Coalesce(e, @), ![m].run = Coalesce(r, @)]
         /\ memberLog' = [memberLog EXCEPT ![m] = Append(@, call)]
  BY DEF AddToDataset
<1> HIDE DEF m, call
<1>6. /\ DOMAIN member' = DOMAIN member \cup {m} /\ DOMAIN memberLog' = DOMAIN member'
      /\ \A n \in DOMAIN member \ {m} : member'[n] = member[n] /\ memberLog'[n] = memberLog[n]
  <2>1. DOMAIN memberLog = DOMAIN member
    BY DEF DagTypeOK
  <2>2. CASE m \notin DOMAIN member
    BY <1>5, <2>1, <2>2 DEF With
  <2>3. CASE m \in DOMAIN member
    BY <1>5, <2>1, <2>3
  <2> QED BY <2>2, <2>3
<1>7. /\ member'[m] \in Links /\ member'[m].edit \in DOMAIN edit \cup {Null}
      /\ member'[m].run \in run \cup {Null}
      /\ memberLog'[m] \in Seq(Links) \ {<<>>} /\ MemberRemembers(member'[m], memberLog'[m])
  <2>1. CASE m \notin DOMAIN member
    <3>1. member'[m] = call /\ memberLog'[m] = <<call>>
      BY <1>5, <2>1 DEF With
    <3> QED BY <1>1, <1>4, <3>1, FirstMembershipRemembered
  <2>2. CASE m \in DOMAIN member
    <3> DEFINE row == member[m]
               new == member'[m]
               log == memberLog[m]
    <3>1. /\ row \in Links /\ row.edit \in DOMAIN edit \cup {Null} /\ row.run \in run \cup {Null}
          /\ log \in Seq(Links) /\ MemberRemembers(row, log) /\ m \in DOMAIN memberLog
      BY <2>2 DEF DagTypeOK, NoDanglingLink, Histories, RowsRemember
    <3>2. /\ new = [[row EXCEPT !.edit = Coalesce(e, @)] EXCEPT !.run = Coalesce(r, @)]
          /\ memberLog'[m] = Append(log, call)
      BY <1>5, <2>2, <3>1
    <3> HIDE DEF row, new, log
    <3>3. new.edit = Coalesce(e, row.edit) /\ new.run = Coalesce(r, row.run)
      BY <3>1, <3>2 DEF Links
    <3>4. new \in Links
      <4>1. new = [edit |-> new.edit, run |-> new.run]
        BY <3>1, <3>2 DEF Links
      <4>2. new.edit \in Ids \cup {Null} /\ new.run \in Ids \cup {Null}
        BY <3>1, <3>3 DEF Links, Coalesce
      <4> QED BY <4>1, <4>2 DEF Links
    <3>5. new.edit \in DOMAIN edit \cup {Null} /\ new.run \in run \cup {Null}
      BY <1>1, <3>1, <3>3 DEF Coalesce
    <3>6. memberLog'[m] \in Seq(Links) \ {<<>>}
      BY <1>4, <3>1, <3>2, Longer
    <3>7. MemberRemembers(new, Append(log, call))
      BY <1>4, <3>1, <3>3, NextMembershipRemembered
    <3> QED BY <3>2, <3>4, <3>5, <3>6, <3>7 DEF new
  <2> QED BY <2>1, <2>2
<1>8. DagTypeOK'
  BY <1>1, <1>2, <1>3, <1>6, <1>7 DEF DagTypeOK, m
<1>9. Histories'
  BY <1>1, <1>6, <1>7 DEF Histories, DagTypeOK
<1>10. NoDanglingLink'
  BY <1>1, <1>3, <1>6, <1>7 DEF NoDanglingLink
<1>11. OneAssetPerHash'
  BY <1>1 DEF OneAssetPerHash
<1>12. RowsRemember'
  BY <1>1, <1>6, <1>7 DEF RowsRemember
<1> QED BY <1>8, <1>9, <1>10, <1>11, <1>12

(* Rows go, of any tables; so does every row that needs one of them, and a *)
(* membership that links one is unlinked from it.                          *)
LEMMA RowsGo ==
    ASSUME DagInv,
           NEW assets \in SUBSET DOMAIN asset, NEW captions \in SUBSET DOMAIN caption,
           NEW edits \in SUBSET DOMAIN edit, NEW runs \in SUBSET run,
           NEW kept \in SUBSET DOMAIN member,
           \A c \in captions : caption[c] \in assets,
           \A e \in edits : edit[e] \in captions,
           \A m \in kept : m[2] \in captions,
           DOMAIN asset' = assets, DOMAIN assetLog' = assets,
           \A i \in assets : asset'[i] = asset[i] /\ assetLog'[i] = assetLog[i],
           DOMAIN caption' = captions, \A c \in captions : caption'[c] = caption[c],
           DOMAIN edit' = edits, \A e \in edits : edit'[e] = edit[e],
           run' = runs, calls' = calls,
           member' = [m \in kept |-> Unlink(member[m], edits, runs)],
           memberLog' = [m \in kept |-> Relog(memberLog[m], member[m], edits, runs)]
    PROVE  DagInv'
<1> USE DEF DagInv
<1>1. edits \in SUBSET Ids /\ runs \in SUBSET Ids
  BY DEF DagTypeOK
<1>2. ASSUME NEW m \in kept
      PROVE  /\ member'[m] \in Links
             /\ member'[m].edit \in edits \cup {Null} /\ member'[m].run \in runs \cup {Null}
             /\ memberLog'[m] \in Seq(Links) \ {<<>>}
             /\ MemberRemembers(member'[m], memberLog'[m])
  <2>1. /\ member[m] \in Links /\ memberLog[m] \in Seq(Links) \ {<<>>}
        /\ MemberRemembers(member[m], memberLog[m])
    BY DEF DagTypeOK, Histories, RowsRemember
  <2>2. /\ member'[m] = Unlink(member[m], edits, runs)
        /\ memberLog'[m] = Relog(memberLog[m], member[m], edits, runs)
    OBVIOUS
  <2> QED BY <1>1, <2>1, <2>2, UnlinkedRemembered
<1>3. DOMAIN member' = kept /\ DOMAIN memberLog' = kept
  OBVIOUS
<1>4. DagTypeOK'
  BY <1>2, <1>3 DEF DagTypeOK
<1>5. Histories'
  BY <1>2, <1>3 DEF Histories, DagTypeOK
<1>6. NoDanglingLink'
  BY <1>2, <1>3 DEF NoDanglingLink
<1>7. OneAssetPerHash'
  BY DEF OneAssetPerHash
<1>8. RowsRemember'
  BY <1>2, <1>3 DEF RowsRemember
<1> QED BY <1>4, <1>5, <1>6, <1>7, <1>8

LEMMA DeletionStep ==
    ASSUME DagInv, NEW x \in Ids,
           DeleteAsset(x) \/ DeleteCaption(x) \/ DeleteEdit(x) \/ DeleteRun(x)
    PROVE  DagInv'
<1>1. ASSUME NEW assets \in SUBSET DOMAIN asset, NEW captions \in SUBSET DOMAIN caption,
             \A c \in captions : caption[c] \in assets,
             DOMAIN asset' = assets, DOMAIN assetLog' = assets,
             \A i \in assets : asset'[i] = asset[i] /\ assetLog'[i] = assetLog[i],
             CascadeCaptions(captions), UNCHANGED <<run, calls>>
      PROVE  DagInv'
  <2> DEFINE edits == {e \in DOMAIN edit : edit[e] \in captions}
             kept == {m \in DOMAIN member : m[2] \in captions}
  <2>1. /\ DOMAIN caption' = captions /\ \A c \in captions : caption'[c] = caption[c]
        /\ DOMAIN edit' = edits /\ \A e \in edits : edit'[e] = edit[e]
    BY <1>1 DEF CascadeCaptions, Only
  <2>2. /\ member' = [m \in kept |-> Unlink(member[m], edits, run)]
        /\ memberLog' = [m \in kept |-> Relog(memberLog[m], member[m], edits, run)]
    BY <1>1 DEF CascadeCaptions
  <2>3. /\ edits \in SUBSET DOMAIN edit /\ \A e \in edits : edit[e] \in captions
        /\ kept \in SUBSET DOMAIN member /\ \A m \in kept : m[2] \in captions
    OBVIOUS
  <2> HIDE DEF edits, kept
  <2> QED BY <1>1, <2>1, <2>2, <2>3, RowsGo
<1>2. CASE DeleteAsset(x)
  <2> DEFINE assets == DOMAIN asset \ {x}
             captions == {c \in DOMAIN caption : caption[c] # x}
  <2>1. /\ captions \in SUBSET DOMAIN caption /\ assets \in SUBSET DOMAIN asset
        /\ \A c \in captions : caption[c] \in assets
    BY DEF DagInv, NoDanglingLink
  <2>2. /\ DOMAIN asset' = assets /\ DOMAIN assetLog' = assets
        /\ \A i \in assets : asset'[i] = asset[i] /\ assetLog'[i] = assetLog[i]
    BY <1>2 DEF DeleteAsset, Only, DagInv, DagTypeOK
  <2>3. CascadeCaptions(captions) /\ UNCHANGED <<run, calls>>
    BY <1>2 DEF DeleteAsset
  <2> HIDE DEF assets, captions
  <2> QED BY <1>1, <2>1, <2>2, <2>3
<1>3. CASE DeleteCaption(x)
  <2> DEFINE captions == DOMAIN caption \ {x}
  <2>1. captions \in SUBSET DOMAIN caption /\ \A c \in captions : caption[c] \in DOMAIN asset
    BY DEF DagInv, NoDanglingLink
  <2>2. CascadeCaptions(captions) /\ UNCHANGED <<asset, assetLog, run, calls>>
    BY <1>3 DEF DeleteCaption
  <2>3. DOMAIN assetLog = DOMAIN asset
    BY DEF DagInv, DagTypeOK
  <2> HIDE DEF captions
  <2> QED BY <1>1, <2>1, <2>2, <2>3
<1>4. CASE DeleteEdit(x)
  <2> DEFINE edits == DOMAIN edit \ {x}
  <2>1. /\ DOMAIN edit' = edits /\ \A e \in edits : edit'[e] = edit[e]
        /\ member' = [m \in DOMAIN member |-> Unlink(member[m], edits, run)]
        /\ memberLog' = [m \in DOMAIN member |-> Relog(memberLog[m], member[m], edits, run)]
        /\ UNCHANGED <<asset, assetLog, caption, run, calls>>
    BY <1>4 DEF DeleteEdit, Only, DagInv, DagTypeOK
  <2>2. edits \in SUBSET DOMAIN edit
    OBVIOUS
  <2> HIDE DEF edits
  <2> QED BY <2>1, <2>2, RowsGo DEF DagInv, DagTypeOK, NoDanglingLink
<1>5. CASE DeleteRun(x)
  <2> DEFINE runs == run \ {x}
  <2>1. /\ run' = runs
        /\ member' = [m \in DOMAIN member |-> Unlink(member[m], DOMAIN edit, runs)]
        /\ memberLog' = [m \in DOMAIN member |->
                           Relog(memberLog[m], member[m], DOMAIN edit, runs)]
        /\ UNCHANGED <<asset, assetLog, caption, edit, calls>>
    BY <1>5 DEF DeleteRun
  <2>2. runs \in SUBSET run
    OBVIOUS
  <2> HIDE DEF runs
  <2> QED BY <2>1, <2>2, RowsGo DEF DagInv, DagTypeOK, NoDanglingLink
<1> QED BY <1>2, <1>3, <1>4, <1>5

LEMMA DagInductive == DagInv /\ [DagNext]_dagVars => DagInv'
<1> SUFFICES ASSUME DagInv, [DagNext]_dagVars PROVE DagInv'
  OBVIOUS
<1>1. CASE DagNext
  BY <1>1, RecordAssetStep, RecordCaptionStep, RecordEditStep, RecordTrainingRunStep,
     AddToDatasetStep, DeletionStep DEF DagNext
<1>2. CASE UNCHANGED dagVars
  BY <1>2 DEF dagVars, DagInv, DagTypeOK, Histories, NoDanglingLink, OneAssetPerHash, RowsRemember
<1> QED BY <1>1, <1>2

LEMMA DagInvariance == DagSpec => []DagInv
BY InitDagInv, DagInductive, PTL DEF DagSpec

-----------------------------------------------------------------------------
(* The theorems.                                                           *)

(* The rows and the histories stay within their types. *)
THEOREM DagTyping == DagSpec => []DagTypeOK
<1>1. DagInv => DagTypeOK
  BY DEF DagInv
<1> QED BY <1>1, DagInvariance, PTL

(* Whatever is recorded and whatever is deleted by hand, in any order and  *)
(* however many rows there are, no link of the DAG leads nowhere.          *)
THEOREM Untorn == DagSpec => []NoDanglingLink
<1>1. DagInv => NoDanglingLink
  BY DEF DagInv
<1> QED BY <1>1, DagInvariance, PTL

(* The same bytes are one row, and no asset without a hash is ever taken   *)
(* for another, whatever is recorded and deleted.                          *)
THEOREM Unforked == DagSpec => []OneAssetPerHash
<1>1. DagInv => OneAssetPerHash
  BY DEF DagInv
<1> QED BY <1>1, DagInvariance, PTL

(* An asset's row is what all its stages' calls say together. *)
THEOREM Remembering == DagSpec => []AssetsRemember
<1>1. DagInv => AssetsRemember
  <2> SUFFICES ASSUME DagInv, NEW i \in DOMAIN asset
               PROVE  LET log == assetLog[i]
                          withImmich == LastOf({n \in DOMAIN log : log[n].immich # Null})
                          keys == UNION {DOMAIN log[n].meta : n \in DOMAIN log}
                      IN  /\ asset[i].uri = log[Len(log)].uri
                          /\ asset[i].immich =
                               IF withImmich = 0 THEN Null ELSE log[withImmich].immich
                          /\ DOMAIN asset[i].meta = keys
                          /\ \A k \in keys : asset[i].meta[k] =
                               log[LastOf({n \in DOMAIN log : k \in DOMAIN log[n].meta})].meta[k]
    BY DEF AssetsRemember
  <2> DEFINE log == assetLog[i]
             row == asset[i]
  <2>1. AssetRemembers(row, log) /\ log \in Seq(AssetCalls)
    BY DEF DagInv, RowsRemember, Histories, DagTypeOK
  <2> HIDE DEF log, row
  <2>2. DOMAIN log \in SUBSET (Nat \ {0})
    BY <2>1
  <2>3. \A n : IsLast(n, WithImmich(log)) => LastOf(WithImmich(log)) = n
    BY <2>2, LastIs DEF WithImmich
  <2>4. WithImmich(log) = {} => LastOf(WithImmich(log)) = 0
    BY DEF LastOf
  <2>5. row.immich = LET n == LastOf(WithImmich(log)) IN IF n = 0 THEN Null ELSE log[n].immich
    BY <2>1, <2>2, <2>3, <2>4 DEF AssetRemembers
  <2>6. DOMAIN row.meta = UNION {DOMAIN log[n].meta : n \in DOMAIN log}
    BY <2>1 DEF AssetRemembers, WithKey
  <2>7. \A k \in DOMAIN row.meta : row.meta[k] = log[LastOf(WithKey(log, k))].meta[k]
    BY <2>1, <2>2, LastIs DEF AssetRemembers, WithKey
  <2> QED BY <2>1, <2>5, <2>6, <2>7 DEF AssetRemembers, WithImmich, WithKey, log, row
<1> QED BY <1>1, DagInvariance, PTL

(* A dataset's training pairs are the edits pinned last, each for its own  *)
(* caption.                                                                *)
THEOREM Selecting == DagSpec => []PairsAreSelected
<1>1. DagInv => PairsAreSelected
  <2> SUFFICES ASSUME DagInv, NEW d \in Datasets, NEW c \in DOMAIN caption, NEW e \in DOMAIN edit
               PROVE  <<c, e>> \in Pairs(d) <=>
                        /\ edit[e] = c
                        /\ <<d, c>> \in DOMAIN memberLog
                        /\ LET log == memberLog[<<d, c>>]
                               pinned == LastOf({n \in DOMAIN log : log[n].edit # Null})
                           IN  pinned # 0 /\ log[pinned].edit = e
    BY DEF PairsAreSelected
  <2> DEFINE m == <<d, c>>
             log == memberLog[m]
  <2>1. DOMAIN memberLog = DOMAIN member /\ e # Null
    BY NullIsNoId DEF DagInv, DagTypeOK
  <2>2. <<c, e>> \in Pairs(d) <=> edit[e] = c /\ m \in DOMAIN member /\ member[m].edit = e
    BY DEF Pairs, AllPairs
  <2>3. ASSUME m \in DOMAIN member
        PROVE  member[m].edit = e <=>
                 LastOf(WithEdit(log)) # 0 /\ log[LastOf(WithEdit(log))].edit = e
    <3>1. MemberRemembers(member[m], log) /\ log \in Seq(Links)
      BY <2>1, <2>3 DEF DagInv, RowsRemember, Histories
    <3> HIDE DEF m, log
    <3>2. DOMAIN log \in SUBSET (Nat \ {0})
      BY <3>1
    <3>3. \A n : IsLast(n, WithEdit(log)) => LastOf(WithEdit(log)) = n
      BY <3>2, LastIs DEF WithEdit
    <3>4. WithEdit(log) = {} => LastOf(WithEdit(log)) = 0
      BY DEF LastOf
    <3> QED BY <2>1, <3>1, <3>2, <3>3, <3>4 DEF MemberRemembers
  <2> QED BY <2>1, <2>2, <2>3 DEF WithEdit
<1> QED BY <1>1, DagInvariance, PTL
=============================================================================
