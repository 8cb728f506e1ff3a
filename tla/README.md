# Verification of argus-cortex

TLA+ models of the parts of argus-cortex that keep state shared by several
threads, processes or machines, of the way a batch takes through its stores, of
the verdicts its moderation clients read out of other servers' answers, and of
what a stage's server makes of its environment, its requests and its payloads;
model-checked with TLC, with theorems checked by TLAPS. Sources are named relative to `src/argus_cortex/`.

## The system

argus-cortex is the library that the stages of the Argus image suite (quarry,
curator, lens, proof, forge) share. It runs in every stage's process; the
stages meet only in what it writes.

| part | state it keeps | operations | how it meets the others |
|---|---|---|---|
| GPU lease (`gpu.py`) | a lock file, NVML's state per process, the card's memory | `lease`, `free_vram_mb` | every argus process of a host, and GPU tenants outside argus |
| lineage store (`store/lineage.py`, `store/errors.py`) | a connection pool, a closed flag, a lock, each thread's ambient connection | `_get_pool`, `_acquire`, `transaction`, the `record_*` calls, `close` | threads of a process share one store |
| lineage DAG (`store/schema.py`, `store/models.py`, SQL of `store/lineage.py`) | five tables | upserts, inserts, `caption_edit_pairs`, deletions by hand | all stages write the same rows |
| XMP sidecars (`xmp.py`) | one file per image | `read_xmp`, `write_xmp`, `merge_xmp` | stages and photo tools rewrite the same file, with no lock |
| remote backend (`backends.py`) | a lazily made HTTP client | `post_json`, `get_json`, `with_retries`, `unload` | threads share the client; the network loses and delays |
| blob store, vector store (`store/blob.py`, `store/vector.py`) | a lazily made client; a bucket, a collection | `ensure_*`, `put`, `get`, `upsert`, `search`, `close` | several workers create the same bucket or collection; content hashes and ids join to the lineage |
| write guard (`server.py`) | none | `env_flag`, refuse or forward a request | stands before a stage's routes |
| configuration (`store/config.py`, `open_*_store`, `coordinator_from_env`) | none | make a stage's parts from the environment | decides which store, pool size, deadline a stage runs with |
| wire contract (`wire.py`) | none | stamp and gate a payload's version | stages of different builds exchange and keep payloads |
| moderation (`moderation/`) | none | verdicts from the answers of two services | one client serves a pool of threads |
| taxonomy, package surface | none | names, re-exports | |

What is hard in it: the exclusion between processes that may die, and two waits
that share a deadline; a pool built on first use that races a `close()`; a
transaction whose connection travels to the calls inside it; upserts by stages
that do not know of each other, in blocks that wait for each other's rows; three
services that a stage fills one after the other; a file that everyone reads,
merges and renames;
and retries over a network that cannot say whether a request was carried out.
`PROJECT.json` lists these hazards at their lines.

What makes each part correct:

- lease: one job at a time; measured room stays measured; an ended job gives the
  lock back; every wait ends.
- lineage store: one pool; whole transactions; an honest result; no call stuck;
  nothing open after `close()`.
- DAG: no dangling link; one asset per hash, and one per recording without a
  hash; no stage erases what another knew;
  training pairs are the pinned edits.
- sidecars: never half-written; a merge touches what it was given and nothing
  else; malformed files and modes are kept.
- blob and vector store: what a call reports is so; losing a creation race is no
  failure; a key has one point; an error that is no `StoreError` has one of two
  known causes.
- moderation: no pass without a verdict; illegal letters agree with the policy
  texts; what is posted fits; shrinking ends.
- remote: an answer is final; attempts are used up and no more; a POST that was
  carried out is not sent again (which is not so, see Findings).
- ingest: whoever is past `ensure_schema` finds the schema; bytes, rows, captions
  and points join; a block is there whole or not at all, erases nothing, and ends.
- stage server: what starts is usable, however its variables were mistyped;
  exactly the writes that the mode and the origin forbid are refused; no stamped
  payload is read by a build that does not know its layout.

## The modules

| module | models | state and actions |
|---|---|---|
| `GpuSlot` | nothing of the code: the abstract slot, a set of waiting and a set of running callers | `Ask`, `Start`, `GiveUp`, `Finish`, `Crash` |
| `GpuLease` | `LeaseCoordinator.lease`, `_wait_for_room`, `free_vram_mb` | `pc` is the place in the two loops, `left` and `nap` are the deadline and the sleep, `holder` is the descriptor that has the flock, `nvml` is `_nvml_ready` |
| `GpuLeaseProofs` | theorems about `GpuLease` | |
| `LineageStore` | `_get_pool` (one action per read or write of shared state), `_acquire`, `transaction`, `_insert`, `close` | `PoolFails` is the pool that cannot be built; `pool`, `closed`, `mutex` are the attributes; `pools` the pools ever built; `th` what each thread is doing, with its transaction as the server sees it; `db` the rows committed |
| `LineageDag` | the statements and the foreign keys, one SQL statement per action | one variable per table, and two histories: which calls went to each asset and membership |
| `LineageProofs` | theorems about `LineageStore` and about `LineageDag` | |
| `XmpSidecar` | `write_xmp`, one action per system call, with `merge_xmp` as the operator `Merge` and `parse_xmp` as `Value` | `file` is the sidecar, the rest each writer's locals, `stale` a history |
| `XmpSidecarProofs` | theorems about `XmpSidecar` | |
| `RemoteBackend` | `_client`, `_send`, `with_retries`, `post_json`, `get_json`, `unload`, and the network | `Posts` are the calls of `post_json`; `CreateFails` is the client that cannot be made; `http`, `client` are the lazily made clients, `attempt` the loop's counter, `net`, `handled`, `replies` the network and the endpoint |
| `RemoteBackendProofs` | theorems about `RemoteBackend` | |
| `ServiceStores` | `S3BlobStore` and `QdrantVectorStore`, one action per request or read of the client attribute, or the null store | `DriverFails` is a missing driver, refused credentials, endpoint or argument, when the client is made or (`ModelFails`) when Qdrant's models are; `service`, `enabled` are the configuration, `client` is `_client_obj`, `container` and `items` what the service holds, `mine` the client a call works with; `seen`, `kept` are histories |
| `ServiceStoresProofs` | theorems about `ServiceStores` | |
| `LineageUnits` | nothing of the code: the abstract lineage, whose blocks are applied whole or not at all | `Open`, `Apply`, `Fail` |
| `Ingest` | `ensure_schema`, `put_content_addressed`, `transaction` with `record_asset` and `record_caption`, and `upsert` of a point, as several stages call them in that order, over PostgreSQL's row locks | `tables`, `blobs`, `rows`, `captions`, `points` are what the services hold; `owner` and `draft` the rows that open transactions have locked and changed; `pc`, `at`, `block` where each stage is |
| `IngestProofs` | theorems about `Ingest`, and that it implements `LineageUnits` | |
| `StageServer` | `env_flag`, `StoreConfig.from_env`, `open_lineage_store`, `coordinator_from_env` (`Parts`); `WriteGuard` with its two predicates (`Refused`); `check_version` and the stamp (`Reads`, `Stamped`) | `server` is each process with its parts, `docs` the payloads kept, `answer` the request in hand |
| `StageServerProofs` | theorems about `StageServer` | |
| `Moderation` | `SingGuardClient.check` with `downscale` and `to_result`, `check_text`, `NudeNetClient.check` with `to_result`, `post_json`, the headings of the policies and `is_illegal` | one check: `edge` is the local of the shrinking loop, `sent`, `answer`, `result` what goes out, comes back and is returned |
| `ModerationProofs` | theorems about `Moderation` | |
| `MC*` | instances for TLC | |

`LineageDag` calls its parts `DagInit`, `DagNext`, `DagSpec` and `DagTypeOK`, so that
`LineageProofs` can extend both halves of the lineage store.

Each module holds a block of *slips*: operators that change one definition the
way a bug would. The specification does not use them. For every property,
`PROJECT.json` ("mutants") names a slip with which TLC finds it violated.

Outside code is modelled from how the library uses it: a flock belongs to the
open file description and goes with it; NVML may fail at once or later; a
closed psycopg pool refuses, a failed statement aborts its transaction up to the
savepoint, a commit of an aborted transaction rolls back without an error; a
closed HTTP client raises an error that is not an `httpx.HTTPError`; PostgreSQL
runs at READ COMMITTED, an upsert waits for the transaction that has locked its
row or its unique key and then works on what that one committed, one of a circle
of waiting transactions is aborted, and `CREATE ... IF NOT EXISTS` looks before
it creates.

## The runs

| run | shows | bounds |
|---|---|---|
| `gpu` | exclusion, room, bounded sleeps, over exceptions anywhere and deaths of the process; `lease()` implements `GpuSlot` with its fairness, so that every wait ends; the lock comes back | two threads of one process, timeouts 0 and 1, poll 2, card of 2 |
| `lineage` | one pool, whole transactions, no row before its block ends, honest results, no stuck call | two threads, one closer, a pool of one connection |
| `lineage_leak` | **violated**: no pool is rebuilt past `close()` | one thread, one closer |
| `dag` | links, hashes, memory of assets, training pairs | two rows a table, four upserts, one dataset |
| `xmp` | atomic, exact, mode-keeping writes; no litter | two writers, five documents of tools, three properties |
| `xmp_lost` | **violated**: every other property is preserved | the same |
| `remote` | answers are final, attempts are used, calls end | two calls of two attempts, a POST and a GET, one `unload()` |
| `remote_resent` | **violated**: a POST that reached the server is not sent again | the same, without `unload()` |
| `stores` | true outcomes, harmless races, one point a key, unwrapped errors only from a `close()` or a refusing driver, over failing requests, removals and `close()` | two threads, one content, one other name, a UUID in two spellings and another key, two vector sizes |
| `moderation` | fitting requests, no pass without a verdict, illegal letters, the exposed score, an end | five policies, pairs of eleven topics between image and text, three roles, five forms of a rule, answers of two detections, edges 3 to 12 around limits 4 and 8 |
| `ingest` | the schema is there; the stores join; `transaction()` implements `LineageUnits` with its fairness | two stages with the same two images in opposite order, two tables, two blocks each |
| `stage` | usable parts, an exact guard, no misread stamp, over restarts with other builds and other variables | two servers, two builds (majors 1, and 10 reading both), two documents, some forty environments, five methods, four origins, two hosts |

Why these are enough. Two threads of one process open two descriptors, as two
processes do, and a lock that belonged to the process would let both in; that one
process dies while a call of another goes on is in the theorems, which hold for
every assignment of calls to processes, and not in the run. Exclusion, pool creation, lost updates and races with
`close()` are between two parties. A poll longer than the timeout makes a sleep
cross the deadline; a card of two units tells no room, some room and enough
apart. A pool of one connection is the smallest limit, and the one that
deadlocks when a block asks for a second. A transaction of two rows around a
nested one separates its three outcomes. Two rows a table and four upserts let a
row be re-recorded three times, be deleted and its id reused. Two descriptions,
with a property in both forms, are the cases `merge_xmp` tells apart. Two
attempts have a first that is not the last. A policy heading is matched by single
topics, and pairs let an illegal and a legal one fire together; two detections
are what the order of an answer can be about; edges 8, 6, 5 and 4 are a loop that
is entered at its limit, between the limits and at the end. Two images in
opposite order are the smallest circle of waits, and two stages the smallest
circle; a third of either adds longer circles only. Two tables have a first that
is there without the last, and two blocks a batch that is made again. The texts
of a variable are one of each kind that the parsers tell apart: unset, blank,
padded, a word, a number out of range on either side, on the bound, and not
finite. Versions 1 and 10 share a first digit; two documents let one be kept
while another is read. Deadlock is checked where the system never stops; in
`LineageStore`, `RemoteBackend`, `Ingest` and `Moderation` every call is made
once, or a bounded number of times, and ends, so it is not.

Bounds of the models: `MaxRows` and `MaxCalls` in `LineageDag`, `Floor` in
`GpuLease` (a deadline is not followed once the code can no longer tell how long
it has passed), one call per thread in `LineageStore`, `RemoteBackend` and
`XmpSidecar`, one check in `Moderation` (`MaxDetections` entries an answer),
`MaxBlocks` attempts of a stage in `Ingest`, `MaxDocs` documents and one request
at a time in `StageServer` (the guard keeps no state between requests).
Calls of `GpuLease` and `ServiceStores` are made again without end.

### Fairness

- `GpuLease`: time passes, and each step of a call's own code is taken. That a
  job ends is not assumed, nor that the lock is granted in order: flock polls
  without a queue, so a caller may lose every race and end in a timeout.
- `LineageStore`: a thread that can go on does. Pool timeouts, swallowed
  exceptions and server restarts have no fairness; `EveryCallEnds` therefore
  shows that calls do not need the pool's timeout to end.
- `RemoteBackend`: a thread goes on, and httpx stops waiting after its timeout
  (`timeout` is 30 s unless the caller asks otherwise). The network promises
  nothing.
- `Ingest`: a stage that can take its next step does, and the server breaks
  circles of waits (PostgreSQL looks for them after `deadlock_timeout`). Nothing
  makes a call succeed, and a failed stage need not start over.
- `StageServer`: none; only safety is asked of it.
- `Moderation`: a check goes on, and `urlopen` has a timeout. Nothing makes Pillow
  fail (`EncodeFails`), so the shrinking must run out by itself.

## Findings

- `close()` racing a first call leaves an open pool behind (`lineage_leak`).
- Two stages, or a stage and a photo tool, lose each other's fields
  (`xmp_lost`).
- A POST is sent again after a read timeout, also when the server has carried it
  out: `backends.py:230-231` says it must not be, but a read timeout is an
  `httpx.TransportError` (236) (`remote_resent`).

Seen while modelling, and not run on their own:

- `close()` racing any call can surface an `AttributeError` (`lineage.py:217`
  reads `self._pool` again), and a pool that cannot start its threads a
  `RuntimeError` (210), where `errors.py:29` promises `StoreError` alone;
  `ResultIsTrue` shows that both come before anything is written, and the first
  from a `close()` only.
- A refused base URL leaves `RemoteBackend._client` as httpx's own error, and a
  missing one as a `BackendError` before any attempt (`backends.py:215-221`).
- An endpoint or an argument that the Qdrant driver refuses raises the driver's
  own error, against the same promise: the client is made (`vector.py:209`) and the
  models are validated (222, 235, 261) under an `except` that knows the errors of
  requests only. `RawErrorsExplained` allows this cause, and a `close()`, and no
  other.
- A lease call that slept past its deadline is granted the slot when the lock is
  free by then, up to `poll_s` late (`NapWithinPoll` bounds it).
- A caption has one membership per dataset, so a second training run on a dataset
  overwrites the link to the first.
- A NudeNet score or box coordinate that is an integer too large for a float makes
  `math.isfinite` raise an `OverflowError` (`nudenet.py:102`), which is no
  `NudeNetCheckFailed`; the model does the same (`Overflows`).
- A NudeNet entry whose score is NaN is dropped, so an image with no other entry
  has the exposed score 0.
- `exists()` cannot tell a missing bucket from a missing object when the server's
  answer to the HEAD has no body, `get()` can.
- `ensure_schema` is idempotent for one stage (`schema.py:3-4`); the loser of two
  that start at once gets a `StoreError` and must call it again.
- A batch that is made again after a lost COMMIT has its captions twice.
- A payload that nobody stamped is taken for one of the reader's own version
  (`wire.py:83`), whatever it is laid out for; `NeverMisread` speaks of stamped
  ones.
- A pool size that is no number falls back to its default, and may then clash
  with the other size, which was right: `CORTEX_PG_POOL_MIN_SIZE=10` with
  `CORTEX_PG_POOL_MAX_SIZE=ten` does not start (8 < 10).
- A coordinator name of blanks is no name (`gpu.py:205` tests before it strips),
  so it fails the start, where a blank number is the default.
- `parse_xmp` names `XmpError` alone, but a rating of `--1` passes its test
  (`xmp.py:354`) and `int()` raises a `ValueError`, as does a rating out of range.
- `store/config.py:8-11` still says that only Postgres has an implementation.

## The proofs

For every set of calls and processes, every timeout, poll period, need and card
size, from the named assumptions on the constants alone (`GpuLeaseProofs`):

- `MutualExclusion`, `LockIsHeld` (with the owner of a held lock always on its
  way to release it), `RoomIsReserved`, `SleepsShareDeadline`,
  `Typing`. `RoomReserved` is not inductive: a finishing job gives memory back,
  so one must know that only bodies have memory and that it is counted in `used`
  (`AllocOfBody`, `AllocInUse`); and a call becomes a body on a reading it took
  earlier, so the reading must still hold (`ReadingHolds`), which rests on the
  lock being held from the probe on (`LockHeld`). The invariant `IInv` is these
  with the types; `LockStep` and `MemStep` show step by step that it is kept.
- `SlotRefinement`: every behaviour of `lease()` is one of the abstract slot's
  (its safety part). Lemmas `Invisible`, `Starts` and `GivesUp` classify steps by
  where they take a call; exclusion is what makes `Starts` a step of the slot.

For every set of calls and unloads and every number of attempts
(`RemoteBackendProofs`): `FinalAnswers`, `AllAttemptsMade`, `Typing`.
`AllAttemptsMade` leaves out, by name, a call that never had a client to try with
and a POST that the server has carried out. The strengthening says that a call between attempts has one left, that requests are
numbered by attempts their call has made, and that each is served at most once,
so that the answer of an attempt cannot change after it was heard.

For every set of threads, contents, names and vector sizes, and all ids in which
a key has one form (`ServiceStoresProofs`): `TrueOutcomes`, `HarmlessRaces`,
`OnePointAKey`, `RawErrorsHaveCauses`, `Typing`. None is inductive alone. A lost race is
harmless because a second look with nothing seen to go wrong finds the container
(`SecondLook`), and because a client is taken away only by a `close()` that the
call has seen (`Clients`), which also bounds the unwrapped errors. A skipped
upload is honest because bytes are only ever stored under their own hash, and a
key has one point because points are only ever stored under their key's id
(`Addressed`). That a call is at a request of its own is `Control`. `TakenStep`,
`EnsuredStep`, `CarriedStep` and `QuietEnd` are the steps that many actions share.

For every set of stages, batches and orders, and every number of tables and
attempts (`IngestProofs`): `SchemaIsThere`, `Joins`, `Typing`, and
`BlocksAreUnits`, the safety part of the refinement of `LineageUnits`. A commit
is the abstract `Apply` only because each draft is what the abstract block would
say of the row *as it is at the commit*: the invariant says that a draft is the
upsert of the committed row, which holds since nobody else can commit a row that
is locked, and that a block at image `i` holds exactly the images before it.
That captions and points join rests on the same invariant: a point is only made
by a stage whose block was committed, with the number of that block.

For every set of servers, builds, environments, methods, origins and hosts
(`StageServerProofs`): `UsableParts`, `Versions`, `ExactGuard`, `Typing`. The
invariant says that a server is exactly what its build and its variables make
(`Parted`), that a stamped document has the layout of its stamp (`Documents`),
and that the request in hand is that of a server which is still up (`InHand`);
`GuardDecides` is the equivalence of the guard's test, written for two empty
strings and a missing header, with what it is meant to decide. `UsableParts` says
of a server that does not start that it was given an unknown coordinator or a
database with sizes that no pool can have, as `_get_int` reads them: a mistyped
size can do that only by the clash of its default with the other one. `ExactGuard`
is about the standard methods over HTTP; a websocket passes, whatever its origin,
and what a server shows to whom is no part of it.

For every set of threads and closers and every pool size (`LineageProofs`, first
half): `OnePool`, `WholeTransactions`, `NoEarlyRows`, `HonestResults`. Three things
make them inductive. Of one call (`Sound`): where it is fits its connections, it
has written nothing before it has a transaction, and an open transaction of a
block that did not fail holds exactly the rows written on the way to its place;
an exception that the block hid leaves the transaction aborted for good, so that
its COMMIT keeps nothing. Of the lock and the pools (`LockInv`, `PoolInv`): until
`close()` has begun an open pool is the attribute's or its builder is about to
store it; whoever is past the second closed check finds no other open; and the
pool that a `close()` drops is closed by then. Of the database (`DbInv`): a call that
has not ended has committed nothing, and one that has is as `NoTornDag` and
`ResultIsTrue` say.
Each has a lemma per kind of step (`...IsSound`, `LockStep`, `PoolStep`, `DbStep`).

For every set of asset calls and datasets and all bounds (`LineageProofs`, second
half): `Untorn`, `Unforked`, `Remembering`, `Selecting`, `DagTyping`. Links and
hashes are inductive with the types; `Unforked` also says that a recording without
a hash is never merged with another. That rows remember is stated of the last
call that said anything of a field (`LastOf`); what is inductive is relational:
the row says what call *n* said and no call after *n* said anything
(`RowsRemember`), which an appended call, a merge and the blanking of a deleted
edit each keep.

For every set of writers, tool documents, data, fields and foreign properties
(`XmpSidecarProofs`): `Wholeness`, `Merging`, `Keeping`, `Permitting` (four action
properties) and `Typing`. The invariant says of each writer that its temporary
file is absent or whole where its step says so, that what it rendered is the merge
of what it read (`DocInv`), and that what it saw is still there unless its `stale` history says otherwise (`Fresh`); then `Rename` puts the
merge of the *current* sidecar in place. What a merge leaves is found in the first
description that has a property, and that there is a first one is lemma `Least`:
every set of numbers has a least one, from the well-foundedness of `<` on `Nat`.

For every set of inputs and detections, every length of an answer and all limits
(`ModerationProofs`): `Fitting`, `NoFreePass`, `DeletingIllegal`, `Exposing`,
`Typing`. The invariant ties each phase to what was posted and to whose answer was
read. `DeletingIllegal` rests on `Lettering`, policy by policy: a heading whose
letter is illegal names illegal topics only, and every illegal topic is under such
a heading, also after `OneLetterUp` has lettered the text anew. `Exposing` rests on
`Rankable` (whatever has scores can be sorted, again by `Least`, on the size of a
set that cannot) and on the first of a class being its highest (`LabelIsHighest`).

Assumptions the proofs use beside the ranges of bounds: thread, writer and stage
names are no markers (`None`, `Null`, `NaN`); the documents that tools write are
lists of descriptions over the known values (`DocAssumption`); a stage's fields are
not foreign ones (`NameAssumption`); scores that are numbers can be compared
(`DetectionAssumption`). Each is an `ASSUME` of the component's module and evaluated
by TLC on its run.

Only model-checked: everything temporal under fairness (the fair parts of
`SlotFairSpec` and `UnitsAreAtomic`, `LockReturned`, `EveryCallEnds`,
`EveryCheckEnds`), which is out of the prover's reach. Every invariant and every
action property of the passing runs is a theorem.

## Not modelled

HTTP, SQL and XML syntax; texts, numbers and regions inside a sidecar (so
neither the parsing of ratings); the length of the backoff; the file system's
buffers (nothing is fsynced, so a power failure may undo a rename); an `unlink` of
the temporary file that fails in its turn (`xmp.py:407`); the null
lineage store and null coordinator, which do nothing; `resolve_device`, which
asks torch; scores and filters of a vector search; URLs, credentials and refused
options of the moderation clients, `rule_matches`, and the wording of the
policies beyond their headings; `render_schema`, `taxonomy.py`, re-exports and workflows, which are text.

## Plan

Done, in this order:

1. `GpuSlot`, `GpuLease`, `GpuLeaseProofs`: the lease and its abstract slot.
2. `LineageStore`: pool, transactions, close.
3. `LineageDag`: the rows, against histories of the calls.
4. `XmpSidecar`: the read-merge-rename cycle.
5. `RemoteBackend`, `RemoteBackendProofs`: retries over a lossy network.
6. `ServiceStores`, `ServiceStoresProofs`: creation races, content addressing
   against deletion, missing objects against missing buckets, point ids.
7. `Moderation`: verdicts, shrinking, policies, texts.
8. `LineageUnits`, `Ingest`, `IngestProofs`: the stages' blocks over row locks,
   and the three stores one after the other.
9. `StageServer`, `StageServerProofs`: the environment, the guard, the versions.
10. `LineageProofs`, `XmpSidecarProofs`, `ModerationProofs`, and the types of
   `ServiceStores`: the rest of the safety properties.

Left:

11. Ratings and regions of a sidecar as pure operators.
