----------------------------- MODULE LineageStore -----------------------------
(***************************************************************************)
(* PostgresLineageStore (src/argus_cortex/store/lineage.py) as threads     *)
(* share it: the pool that the first call builds, the connections that     *)
(* operations and transactions borrow from it, the connection a            *)
(* transaction hands to the operations inside it, and close().             *)
(*                                                                         *)
(* A thread makes one call: a single write, or a transaction() block that  *)
(* writes row 1, then perhaps row 2 in a nested transaction(), then row 3. *)
(* psycopg, its pool and the server are modelled from how the store uses   *)
(* them: a pool lends at most MaxSize connections, a closed one lends      *)
(* none, a connection in autocommit commits each statement, a failed       *)
(* statement aborts its transaction up to the savepoint, and the server    *)
(* can drop every connection at any time.                                  *)
(***************************************************************************)
EXTENDS Naturals, FiniteSets

CONSTANTS
    Threads,      \* the threads that use the store
    Closers,      \* the threads that call close()
    MaxSize,      \* the pool's max_size
    None          \* no pool, no thread

ASSUME SizeAssumption == MaxSize \in Nat \ {0}
ASSUME ThreadAssumption == Threads \cap Closers = {} /\ None \notin Threads \cup Closers

Rows == 1..3
Chain == {1, 3}        \* the rows that belong together; row 2 is the nested block's
NoSavepoint == {0}

VARIABLES
    closed,    \* self._closed
    pool,      \* self._pool, named by the thread that built it
    mutex,     \* the thread inside `with self._lock'
    pools,     \* the ConnectionPool each thread has built, if any
    th,        \* the threads, see Calls
    cl,        \* the closers: where each is, and how its close() ended
    db         \* the rows committed

vars == <<closed, pool, mutex, pools, th, cl, db>>

PoolRefs == Threads \cup {None}

Calls == [
    pc : {"start", "acquire", "get", "look", "lock", "recheck", "lookagain", "store", "take",
          "borrow", "exec", "body", "done"},
    task : {"op", "tx"},                          \* a single write, or a block
    goal : {"op", "tx"},                          \* what it borrows a connection for
    mine : PoolRefs,                              \* what _get_pool returned
    txPool : PoolRefs, opPool : PoolRefs,         \* whose connections it holds
    tx : {"none", "open", "aborted", "lost"},     \* the server's view of its transaction
    buf : SUBSET Rows,                            \* rows written and not committed
    saved : (SUBSET Rows) \cup {NoSavepoint},     \* those before the savepoint
    at : 1..4,                                    \* the row the block writes next
    failed : BOOLEAN,                             \* the block is handling an exception
    swallowed : BOOLEAN,                          \* history: it once went on after one
    out : {"none", "ok", "StoreError", "AttributeError", "RuntimeError", "raised"}]

InUse(p) == Cardinality({t \in Threads : th[t].txPool = p})
            + Cardinality({t \in Threads : th[t].opPool = p})
At(t, loc) == th[t].pc = loc
Set(t, call) == th' = [th EXCEPT ![t] = call]
Goto(t, loc) == Set(t, [th[t] EXCEPT !.pc = loc])

(* call, with an exception on its way out of the store's code: to the      *)
(* block it was made in, or to the caller.                                 *)
Thrown(call, error) ==
    IF call.txPool # None
      THEN [call EXCEPT !.pc = "body", !.failed = TRUE]
      ELSE [call EXCEPT !.pc = "done", !.out = error]

-----------------------------------------------------------------------------
(* Slips one could make in this code.  The specification does not use      *)
(* them; the properties at the end must tell each from what the code does. *)

\* The operations of a block borrow connections of their own.
AmbientForgotten(t) == FALSE

\* No second `if self._pool is None'.
LookAgainBlind(t) ==
    /\ At(t, "lookagain")
    /\ Goto(t, "store") /\ pools' = [pools EXCEPT ![t] = "open"]
    /\ UNCHANGED <<closed, pool, mutex, cl, db>>

\* The block is not in conn.transaction(): its statements commit one by one.
ExecInTxAutocommit(t) ==
    /\ At(t, "exec") /\ th[t].opPool = None
    /\ \/ /\ th[t].tx = "open"
          /\ Set(t, [th[t] EXCEPT !.pc = "body", !.at = @ + 1])
          /\ db' = db \cup {<<t, th[t].at>>}
       \/ Set(t, Thrown(th[t], "StoreError")) /\ UNCHANGED db
    /\ UNCHANGED <<closed, pool, mutex, pools, cl>>

\* A nested block rolls the whole transaction back.
NestedRaisesAll(t) ==
    /\ At(t, "body") /\ th[t].failed /\ th[t].saved # NoSavepoint
    /\ Set(t, [th[t] EXCEPT !.saved = NoSavepoint, !.buf = {}, !.failed = FALSE, !.at = 3,
                            !.tx = "open"])
    /\ UNCHANGED <<closed, pool, mutex, pools, cl, db>>

\* A nested block commits the transaction it is in.
LeaveNestedCommits(t) ==
    /\ At(t, "body") /\ ~th[t].failed /\ th[t].at = 3 /\ th[t].saved # NoSavepoint
    /\ Set(t, [th[t] EXCEPT !.saved = NoSavepoint, !.failed = th[t].tx # "open"])
    /\ db' = db \cup {<<t, r>> : r \in th[t].buf}
    /\ UNCHANGED <<closed, pool, mutex, pools, cl>>

-----------------------------------------------------------------------------

Init ==
    /\ closed = FALSE /\ pool = None /\ mutex = None
    /\ pools = [t \in Threads |-> "unborn"]
    /\ \E tasks \in [Threads -> {"op", "tx"}] :
         th = [t \in Threads |->
                 [pc |-> "start", task |-> tasks[t], goal |-> "op", mine |-> None,
                  txPool |-> None, opPool |-> None, tx |-> "none", buf |-> {},
                  saved |-> NoSavepoint, at |-> 1, failed |-> FALSE, swallowed |-> FALSE,
                  out |-> "none"]]
    /\ cl = [k \in Closers |-> "start"]
    /\ db = {}

-----------------------------------------------------------------------------
(* _acquire and transaction(): which connection.                           *)

(* A write goes through _acquire; an outermost transaction() does not.     *)
Call(t) ==
    /\ At(t, "start")
    /\ IF th[t].task = "op" THEN Goto(t, "acquire")
       ELSE Set(t, [th[t] EXCEPT !.pc = "get", !.goal = "tx"])
    /\ UNCHANGED <<closed, pool, mutex, pools, cl, db>>

(* The ambient connection is used if the thread is in a transaction().     *)
Ambient(t) == th[t].txPool # None

Acquire(t) ==
    /\ At(t, "acquire")
    /\ Set(t, [th[t] EXCEPT !.pc = IF Ambient(t) THEN "exec" ELSE "get", !.goal = "op"])
    /\ UNCHANGED <<closed, pool, mutex, pools, cl, db>>

-----------------------------------------------------------------------------
(* _get_pool: double-checked locking.                                      *)

(* if self._closed: raise *)
GetPool(t) ==
    /\ At(t, "get")
    /\ IF closed THEN Set(t, Thrown(th[t], "StoreError")) ELSE Goto(t, "look")
    /\ UNCHANGED <<closed, pool, mutex, pools, cl, db>>

(* if self._pool is None *)
Look(t) ==
    /\ At(t, "look")
    /\ Goto(t, IF pool = None THEN "lock" ELSE "take")
    /\ UNCHANGED <<closed, pool, mutex, pools, cl, db>>

Lock(t) ==
    /\ At(t, "lock")
    /\ mutex = None
    /\ mutex' = t
    /\ Goto(t, "recheck")
    /\ UNCHANGED <<closed, pool, pools, cl, db>>

(* The closed check once more, under the lock. *)
Recheck(t) ==
    /\ At(t, "recheck")
    /\ IF closed THEN Set(t, Thrown(th[t], "StoreError")) /\ mutex' = None
                 ELSE Goto(t, "lookagain") /\ UNCHANGED mutex
    /\ UNCHANGED <<closed, pool, pools, cl, db>>

(* Without a pool, build one, which opens it; otherwise leave the lock. *)
LookAgain(t) ==
    /\ At(t, "lookagain")
    /\ IF pool = None
         THEN Goto(t, "store") /\ pools' = [pools EXCEPT ![t] = "open"] /\ UNCHANGED mutex
         ELSE Goto(t, "take") /\ mutex' = None /\ UNCHANGED pools
    /\ UNCHANGED <<closed, pool, cl, db>>

(* It is not built: the driver is missing, which is a StoreError, or the   *)
(* ConnectionPool cannot be made (it starts threads, and finds none to     *)
(* start), which is no psycopg error and reaches the caller as it is.      *)
PoolFails(t) ==
    /\ At(t, "lookagain") /\ pool = None
    /\ \E error \in {"StoreError", "RuntimeError"} : Set(t, Thrown(th[t], error))
    /\ mutex' = None
    /\ UNCHANGED <<closed, pool, pools, cl, db>>

Store(t) ==
    /\ At(t, "store")
    /\ pool' = t
    /\ mutex' = None
    /\ Goto(t, "take")
    /\ UNCHANGED <<closed, pools, cl, db>>

(* return self._pool, read once more; .connection() of a None is no        *)
(* psycopg error and reaches the caller as it is.                          *)
Take(t) ==
    /\ At(t, "take")
    /\ IF pool = None THEN Set(t, Thrown(th[t], "AttributeError"))
       ELSE Set(t, [th[t] EXCEPT !.pc = "borrow", !.mine = pool])
    /\ UNCHANGED <<closed, pool, mutex, pools, cl, db>>

-----------------------------------------------------------------------------
(* pool.connection()                                                       *)

Borrow(t) ==
    LET p == th[t].mine IN
    /\ At(t, "borrow")
    /\ pools[p] = "open" /\ InUse(p) < MaxSize
    /\ Set(t, IF th[t].goal = "tx"
                THEN [th[t] EXCEPT !.pc = "body", !.txPool = p, !.tx = "open"]
                ELSE [th[t] EXCEPT !.pc = "exec", !.opPool = p])
    /\ UNCHANGED <<closed, pool, mutex, pools, cl, db>>

(* A closed pool refuses; psycopg_pool's errors become StoreError. *)
Refused(t) ==
    /\ At(t, "borrow")
    /\ pools[th[t].mine] = "closed"
    /\ Set(t, Thrown(th[t], "StoreError"))
    /\ UNCHANGED <<closed, pool, mutex, pools, cl, db>>

(* No connection came back within the pool's own timeout. *)
PoolTimeout(t) ==
    /\ At(t, "borrow")
    /\ InUse(th[t].mine) >= MaxSize
    /\ Set(t, Thrown(th[t], "StoreError"))
    /\ UNCHANGED <<closed, pool, mutex, pools, cl, db>>

-----------------------------------------------------------------------------
(* _insert                                                                 *)

(* On the operation's own connection: one statement, committed at once,    *)
(* and the connection given back.  A lost connection may hide a commit.    *)
ExecAlone(t) ==
    LET c == [th[t] EXCEPT !.opPool = None] IN
    /\ At(t, "exec")
    /\ th[t].opPool # None
    /\ \E written, answered \in BOOLEAN :
         /\ answered => written
         /\ db' = IF written THEN db \cup {<<t, c.at>>} ELSE db
         /\ Set(t, IF ~answered THEN Thrown(c, "StoreError")
                   ELSE IF c.task = "op" THEN [c EXCEPT !.pc = "done", !.out = "ok"]
                   ELSE [c EXCEPT !.pc = "body", !.at = @ + 1])
    /\ UNCHANGED <<closed, pool, mutex, pools, cl>>

(* On the transaction's connection: the server keeps the row for it, or    *)
(* the statement fails and aborts the transaction, unless that was so.     *)
ExecInTx(t) ==
    /\ At(t, "exec")
    /\ th[t].opPool = None
    /\ \/ /\ th[t].tx = "open"
          /\ Set(t, [th[t] EXCEPT !.pc = "body", !.buf = @ \cup {th[t].at}, !.at = @ + 1])
       \/ Set(t, Thrown([th[t] EXCEPT !.tx = IF @ = "open" THEN "aborted" ELSE @],
                        "StoreError"))
    /\ UNCHANGED <<closed, pool, mutex, pools, cl, db>>

-----------------------------------------------------------------------------
(* The block of a transaction()                                            *)

Nested(t) == th[t].saved # NoSavepoint
InBlock(t) == At(t, "body") /\ ~th[t].failed
BlockStep(t, call) == Set(t, call) /\ UNCHANGED <<closed, pool, mutex, pools, cl, db>>

(* The block makes its next write. *)
WriteNext(t) ==
    /\ InBlock(t)
    /\ th[t].at \in (IF Nested(t) THEN {2} ELSE Chain)
    /\ BlockStep(t, [th[t] EXCEPT !.pc = "acquire"])

(* It goes through the nested part, or has no need of it.  A nested        *)
(* transaction() is a savepoint of the ambient connection; the server      *)
(* takes none in an aborted transaction or on a lost connection.           *)
EnterNested(t) ==
    /\ InBlock(t) /\ th[t].at = 2 /\ ~Nested(t)
    /\ BlockStep(t, IF th[t].tx = "open" THEN [th[t] EXCEPT !.saved = th[t].buf]
                                         ELSE [th[t] EXCEPT !.failed = TRUE])

SkipNested(t) ==
    /\ InBlock(t) /\ th[t].at = 2 /\ ~Nested(t)
    /\ BlockStep(t, [th[t] EXCEPT !.at = 3])

(* The nested block ends: the savepoint is released. *)
LeaveNested(t) ==
    /\ InBlock(t) /\ th[t].at = 3 /\ Nested(t)
    /\ BlockStep(t, [th[t] EXCEPT !.saved = NoSavepoint, !.failed = th[t].tx # "open"])

(* It raises: the server goes back to the savepoint, and the outer block   *)
(* handles the exception or lets it through.                               *)
NestedRaises(t) ==
    LET lost == th[t].tx = "lost"
        back == [th[t] EXCEPT !.saved = NoSavepoint,
                              !.buf = IF lost THEN {} ELSE th[t].saved,
                              !.tx = IF lost THEN "lost" ELSE "open"]
    IN  /\ At(t, "body") /\ th[t].failed /\ Nested(t)
        /\ \/ BlockStep(t, [back EXCEPT !.failed = FALSE, !.at = 3])
           \/ BlockStep(t, back)

(* The block goes on after a write of its own failed, as if it had worked. *)
Swallow(t) ==
    /\ At(t, "body") /\ th[t].failed /\ ~Nested(t)
    /\ th[t].tx \in {"aborted", "lost"} /\ th[t].at < 4
    /\ BlockStep(t, [th[t] EXCEPT !.failed = FALSE, !.swallowed = TRUE, !.at = @ + 1])

(* Something of the caller's own raises in the block. *)
BodyRaises(t) == InBlock(t) /\ BlockStep(t, [th[t] EXCEPT !.failed = TRUE])

(* The end of `with connection, conn.transaction()': the ambient           *)
(* connection is taken back and returned to its pool.                      *)
EndTx(t, result) ==
    /\ Set(t, [th[t] EXCEPT !.pc = "done", !.txPool = None, !.tx = "none", !.buf = {},
                            !.out = result])
    /\ UNCHANGED <<closed, pool, mutex, pools, cl>>

(* A clean exit: COMMIT.  In an aborted transaction the server rolls back  *)
(* and reports no error; on a lost connection it fails; and the connection *)
(* may go after the server committed and before it said so.                *)
Commit(t) ==
    /\ InBlock(t) /\ th[t].at = 4
    /\ \/ /\ th[t].tx = "open"
          /\ db' = db \cup {<<t, r>> : r \in th[t].buf}
          /\ EndTx(t, "ok") \/ EndTx(t, "StoreError")
       \/ th[t].tx = "aborted" /\ EndTx(t, "ok") /\ UNCHANGED db
       \/ th[t].tx = "lost" /\ EndTx(t, "StoreError") /\ UNCHANGED db

(* The block raises: ROLLBACK, and the exception goes on. *)
Rollback(t) ==
    /\ At(t, "body") /\ th[t].failed /\ ~Nested(t)
    /\ EndTx(t, "raised")
    /\ UNCHANGED db

(* The server drops every connection: open transactions are gone. *)
ServerRestart ==
    /\ \E t \in Threads : th[t].tx \in {"open", "aborted"}
    /\ th' = [t \in Threads |-> IF th[t].tx = "none" THEN th[t]
                                ELSE [th[t] EXCEPT !.tx = "lost", !.buf = {}]]
    /\ UNCHANGED <<closed, pool, mutex, pools, cl, db>>

-----------------------------------------------------------------------------
(* close(), which does not take the lock                                   *)

CloserAt(k, loc, next) == cl[k] = loc /\ cl' = [cl EXCEPT ![k] = next]

MarkClosed(k) ==
    /\ CloserAt(k, "start", "marked")
    /\ closed' = TRUE
    /\ UNCHANGED <<pool, mutex, pools, th, db>>

(* if self._pool is not None *)
IfPool(k) ==
    /\ CloserAt(k, "marked", IF pool = None THEN "ok" ELSE "closing")
    /\ UNCHANGED <<closed, pool, mutex, pools, th, db>>

(* self._pool.close(): connections in use are closed as they come back.    *)
ClosePool(k) ==
    /\ CloserAt(k, "closing", IF pool = None THEN "AttributeError" ELSE "dropping")
    /\ pools' = [t \in Threads |-> IF t = pool THEN "closed" ELSE pools[t]]
    /\ UNCHANGED <<closed, pool, mutex, th, db>>

(* self._pool = None *)
DropPool(k) ==
    /\ CloserAt(k, "dropping", "ok")
    /\ pool' = None
    /\ UNCHANGED <<closed, mutex, pools, th, db>>

-----------------------------------------------------------------------------

Run(t) ==
    \/ Call(t) \/ Acquire(t)
    \/ GetPool(t) \/ Look(t) \/ Lock(t) \/ Recheck(t) \/ LookAgain(t) \/ Store(t) \/ Take(t)
    \/ Borrow(t) \/ Refused(t) \/ ExecAlone(t) \/ ExecInTx(t)
    \/ WriteNext(t) \/ EnterNested(t) \/ SkipNested(t) \/ LeaveNested(t) \/ NestedRaises(t)
    \/ Commit(t) \/ Rollback(t)

Close(k) == MarkClosed(k) \/ IfPool(k) \/ ClosePool(k) \/ DropPool(k)

Next ==
    \/ \E t \in Threads : Run(t) \/ PoolFails(t) \/ PoolTimeout(t) \/ Swallow(t) \/ BodyRaises(t)
    \/ \E k \in Closers : Close(k)
    \/ ServerRestart

Spec == Init /\ [][Next]_vars

(* Threads run and blocks end.  No pool timeout is counted on. *)
FairSpec == Spec /\ \A t \in Threads : WF_vars(Run(t))

-----------------------------------------------------------------------------

(* Every variable stays within its type. *)
TypeOK ==
    /\ closed \in BOOLEAN /\ pool \in PoolRefs /\ mutex \in PoolRefs
    /\ pools \in [Threads -> {"unborn", "open", "closed"}]
    /\ th \in [Threads -> Calls]
    /\ cl \in [Closers -> {"start", "marked", "closing", "dropping", "ok", "AttributeError"}]
    /\ db \subseteq Threads \X Rows

Committed(t) == {r \in Rows : <<t, r>> \in db}

(* However calls and close() interleave, two pools are never open at once. *)
OneOpenPool == Cardinality({t \in Threads : pools[t] = "open"}) <= 1

(* "a torn DAG (an asset with no caption, a caption in no dataset) is      *)
(* never committed" (lineage.py:237): what a transaction leaves is whole.  *)
NoTornDag ==
    \A t \in Threads : th[t].task = "tx" => Committed(t) \in {{}, Chain, Rows}

(* "Every write in the block ... commits together on a clean exit"         *)
(* (lineage.py:234): until a block has ended, nobody else sees a row of    *)
(* it, whatever has failed in it, and whichever nested blocks have ended.  *)
NothingEarly ==
    \A t \in Threads : th[t].task = "tx" /\ ~At(t, "done") => Committed(t) = {}

(* What a caller is told is so.  A block that ended without an exception,  *)
(* and hid none, is in the database, nested blocks that failed aside; one  *)
(* that hid a failed write is not there at all, although the caller is     *)
(* told nothing.  A block that raised has left nothing.  Two errors that   *)
(* are not the store's own get through, both before a row is written: that *)
(* of a pool that cannot be built, and, once close() has begun, that of    *)
(* the None it leaves between two reads of self._pool (201, 217).          *)
ResultIsTrue ==
    \A t \in Threads :
        /\ th[t].task = "tx" /\ th[t].out = "ok" =>
             IF th[t].swallowed THEN Committed(t) = {} ELSE Chain \subseteq Committed(t)
        /\ th[t].task = "tx" /\ th[t].out = "raised" => Committed(t) = {}
        /\ th[t].out = "AttributeError" => closed
        /\ th[t].out \in {"AttributeError", "RuntimeError"} => Committed(t) = {}

(* Callers alone never exhaust the pool for good: every call ends, though  *)
(* no borrow ever times out, because a block's operations take no second   *)
(* connection while it holds one.                                          *)
EveryCallEnds == \A t \in Threads : <>At(t, "done")

(* "a racing/later op raises instead of silently rebuilding a fresh pool   *)
(* (which would leak connections past shutdown)" (lineage.py:433).         *)
NoPoolPastClose ==
    (\A t \in Threads : At(t, "done")) /\ (\E k \in Closers : cl[k] = "ok")
        => \A t \in Threads : pools[t] # "open"
=============================================================================
