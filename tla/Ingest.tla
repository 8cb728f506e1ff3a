-------------------------------- MODULE Ingest --------------------------------
(***************************************************************************)
(* Stages that ingest the same images through the three stores, the way    *)
(* README.md shows: ensure_schema, put_content_addressed for every image,  *)
(* one transaction() that records every asset with a caption of it, and a  *)
(* point per caption whose payload joins back to it.  Any call may fail,   *)
(* with or without effect, a stage may die, and either starts over.        *)
(*                                                                         *)
(* PostgreSQL is modelled at READ COMMITTED from how the library uses it:  *)
(* an upsert locks the row, or the unique key of a row that is not there   *)
(* yet, until its transaction ends; another upsert of it waits, and then   *)
(* works on what was committed meanwhile; of transactions that wait in a   *)
(* circle the server aborts one.  The order of the stages' calls and the   *)
(* three services are outside the library.                                 *)
(***************************************************************************)
EXTENDS Naturals, Sequences

CONSTANTS
    Stages,     \* the stages that ingest
    Hashes,     \* the images, by their hash
    Order,      \* Order[s]: the images of a stage's batch, in its order
    Call,       \* Call[s][h]: the asset that s records: uri, immich and meta
    Tables,     \* how many statements create the schema
    MaxBlocks,  \* blocks a stage makes before it gives up
    Null,       \* no immich_id, no draft
    Nobody      \* no transaction

ASSUME OrderAssumption ==
    \A s \in Stages :
        /\ Order[s] \in Seq(Hashes) /\ Len(Order[s]) > 0
        /\ \A i, j \in 1..Len(Order[s]) : Order[s][i] = Order[s][j] => i = j
ASSUME BoundAssumption == Tables \in Nat \ {0} /\ MaxBlocks \in Nat \ {0}
ASSUME NobodyAssumption == Nobody \notin Stages

VARIABLES
    tables,     \* how many tables of the schema there are
    blobs,      \* the images whose bytes are stored
    rows,       \* the assets committed, by their hash
    captions,   \* <<stage, block, hash>>: the captions committed
    points,     \* the captions that have a point
    owner,      \* the stage whose transaction has locked the row of a hash
    draft,      \* what that transaction has made of the row
    pc,         \* where each stage is
    at,         \* the table or image it is at
    block,      \* how many blocks it has begun
    captioned   \* the images that its open block has recorded a caption of

store == <<tables, blobs, points>>
lineage == <<rows, captions, owner, draft>>
vars == <<tables, blobs, rows, captions, points, owner, draft, pc, at, block, captioned>>

Locations == {"look", "create", "blob", "asset", "caption", "commit", "point", "broken",
              "failed", "done"}
InBlock == {"asset", "caption", "commit", "broken"}

Images(s) == 1..Len(Order[s])
InBatch(s) == {Order[s][i] : i \in Images(s)}
At(s, loc) == pc[s] = loc
Image(s) == Order[s][at[s]]

Goto(s, loc, place) == pc' = [pc EXCEPT ![s] = loc] /\ at' = [at EXCEPT ![s] = place]

(* On to the next of n things, or to what comes after the last.            *)
Following(s, n, loop, after) ==
    IF at[s] < n THEN Goto(s, loop, at[s] + 1) ELSE Goto(s, after, 1)

(* wrap_errors: a StoreError, which ends the stage's attempt.              *)
Raise(s) == Goto(s, "failed", 1)

-----------------------------------------------------------------------------
(* Slips one could make in this code.  The specification does not use      *)
(* them; the properties at the end must tell each from what the code does. *)

\* A table that exists is taken to mean that they all do.
AfterTableAll(s) == Goto(s, "blob", 1)

\* The asset is read, merged here and written back: nothing waits.
RecordAssetUnlocked(s) ==
    LET h == Image(s)
        call == Call[s][h]
    IN  /\ At(s, "asset")
        /\ owner' = [owner EXCEPT ![h] = s]
        /\ draft' = [draft EXCEPT ![h] =
                       IF h \notin DOMAIN rows THEN call
                       ELSE [call EXCEPT !.meta = [k \in DOMAIN rows[h].meta \cup DOMAIN @ |->
                                                     IF k \in DOMAIN @ THEN @[k] ELSE rows[h].meta[k]]]]
        /\ Goto(s, "caption", at[s])
        /\ UNCHANGED <<store, rows, captions, block, captioned>>

\* The connection goes back to the pool without a ROLLBACK.
RollbackForgotten(s) ==
    /\ At(s, "broken")
    /\ captioned' = [captioned EXCEPT ![s] = {}]
    /\ Raise(s)
    /\ UNCHANGED <<store, lineage, block>>

\* transaction() swallows what its block raised.
RollbackQuiet(s) ==
    /\ At(s, "broken")
    /\ owner' = [h \in Hashes |-> IF owner[h] = s THEN Nobody ELSE owner[h]]
    /\ draft' = [h \in Hashes |-> IF owner[h] = s THEN Null ELSE draft[h]]
    /\ captioned' = [captioned EXCEPT ![s] = {}]
    /\ Goto(s, "point", 1)
    /\ UNCHANGED <<store, rows, captions, block>>

-----------------------------------------------------------------------------

Init ==
    /\ tables = 0
    /\ blobs = {} /\ captions = {} /\ points = {}
    /\ rows = [h \in {} |-> Null]
    /\ draft = [h \in Hashes |-> Null] /\ owner = [h \in Hashes |-> Nobody]
    /\ pc = [s \in Stages |-> "look"] /\ at = [s \in Stages |-> 1]
    /\ block = [s \in Stages |-> 0] /\ captioned = [s \in Stages |-> {}]

-----------------------------------------------------------------------------
(* ensure_schema: each CREATE ... IF NOT EXISTS commits on its own.        *)

AfterTable(s) == Following(s, Tables, "look", "blob")

(* IF NOT EXISTS *)
LookForTable(s) ==
    /\ At(s, "look")
    /\ IF at[s] <= tables THEN AfterTable(s) ELSE Goto(s, "create", at[s])
    /\ UNCHANGED <<store, lineage, block, captioned>>

(* The server looks before it creates: two stages may both find nothing,   *)
(* and the second to create breaks a unique index of the catalog.          *)
CreateTable(s) ==
    /\ At(s, "create")
    /\ \/ at[s] <= tables /\ Raise(s) /\ UNCHANGED tables
       \/ at[s] > tables /\ tables' = at[s] /\ AfterTable(s)
    /\ UNCHANGED <<blobs, points, lineage, block, captioned>>

-----------------------------------------------------------------------------
(* put_content_addressed, image by image; after the last a block begins.   *)

Begun(s) == IF at[s] < Len(Order[s]) THEN block ELSE [block EXCEPT ![s] = @ + 1]

PutBlob(s) ==
    /\ At(s, "blob")
    /\ \/ /\ blobs' = blobs \cup {Image(s)}
          /\ \/ Following(s, Len(Order[s]), "blob", "asset") /\ block' = Begun(s)
             \/ Raise(s) /\ UNCHANGED block
       \/ Raise(s) /\ UNCHANGED <<blobs, block>>
    /\ UNCHANGED <<tables, points, lineage, captioned>>

-----------------------------------------------------------------------------
(* The block of a transaction()                                            *)

(* ON CONFLICT (sha256) DO UPDATE, on the row as it is once it is locked.  *)
Update(row, call) ==
    [uri |-> call.uri,
     immich |-> IF call.immich # Null THEN call.immich ELSE row.immich,
     meta |-> [k \in DOMAIN row.meta \cup DOMAIN call.meta |->
                 IF k \in DOMAIN call.meta THEN call.meta[k] ELSE row.meta[k]]]
Upsert(h, call) == IF h \in DOMAIN rows THEN Update(rows[h], call) ELSE call

(* A lock of another transaction is waited for, and one's own is not.      *)
RecordAsset(s) ==
    LET h == Image(s)
        call == Call[s][h]
    IN  /\ At(s, "asset")
        /\ owner[h] \in {Nobody, s}
        /\ owner' = [owner EXCEPT ![h] = s]
        /\ draft' = [draft EXCEPT ![h] = IF owner[h] = s THEN Update(@, call) ELSE Upsert(h, call)]
        /\ Goto(s, "caption", at[s])
        /\ UNCHANGED <<store, rows, captions, block, captioned>>

(* The new caption's foreign key finds the asset, which is its own.        *)
RecordCaption(s) ==
    /\ At(s, "caption")
    /\ captioned' = [captioned EXCEPT ![s] = @ \cup {Image(s)}]
    /\ Following(s, Len(Order[s]), "asset", "commit")
    /\ UNCHANGED <<store, lineage, block>>

(* The end of a transaction: its locks and drafts are gone.                *)
Release(s) ==
    /\ owner' = [h \in Hashes |-> IF owner[h] = s THEN Nobody ELSE owner[h]]
    /\ draft' = [h \in Hashes |-> IF owner[h] = s THEN Null ELSE draft[h]]
    /\ captioned' = [captioned EXCEPT ![s] = {}]

(* A clean exit: COMMIT, and the answer may be lost.                       *)
Commit(s) ==
    /\ At(s, "commit")
    /\ rows' = [h \in DOMAIN rows \cup {k \in Hashes : owner[k] = s} |->
                 IF owner[h] = s THEN draft[h] ELSE rows[h]]
    /\ captions' = captions \cup {<<s, block[s], h>> : h \in captioned[s]}
    /\ Release(s)
    /\ Goto(s, "point", 1) \/ Raise(s)
    /\ UNCHANGED <<store, block>>

(* A statement or the connection fails, or the stage dies.                 *)
Break(s) ==
    /\ pc[s] \in {"asset", "caption", "commit"}
    /\ Goto(s, "broken", 1)
    /\ UNCHANGED <<store, lineage, block, captioned>>

(* ROLLBACK by the exit of the block, or by the server that misses its     *)
(* client.                                                                 *)
Rollback(s) ==
    /\ At(s, "broken")
    /\ Release(s)
    /\ Raise(s)
    /\ UNCHANGED <<store, rows, captions, block>>

(* DeadlockDetected: the server aborts one of a circle.                    *)
Waits(s) == At(s, "asset") /\ owner[Image(s)] \notin {Nobody, s}
Circle(D) ==
    /\ \A s \in D : Waits(s) /\ owner[Image(s)] \in D
    /\ \A s \in D : \E t \in D : owner[Image(t)] = s

Victim(s) ==
    /\ \E D \in SUBSET Stages : s \in D /\ Circle(D)
    /\ Goto(s, "broken", 1)
    /\ UNCHANGED <<store, lineage, block, captioned>>

-----------------------------------------------------------------------------

(* vec.upsert of a caption's point *)
UpsertPoint(s) ==
    /\ At(s, "point")
    /\ \/ /\ points' = points \cup {<<s, block[s], Image(s)>>}
          /\ Following(s, Len(Order[s]), "point", "done") \/ Raise(s)
       \/ Raise(s) /\ UNCHANGED points
    /\ UNCHANGED <<tables, blobs, lineage, block, captioned>>

(* The stage dies outside a block. *)
Die(s) ==
    /\ pc[s] \in {"look", "create", "blob", "point"}
    /\ Raise(s)
    /\ UNCHANGED <<store, lineage, block, captioned>>

(* It starts over. *)
Again(s) ==
    /\ At(s, "failed")
    /\ block[s] < MaxBlocks
    /\ Goto(s, "look", 1)
    /\ UNCHANGED <<store, lineage, block, captioned>>

-----------------------------------------------------------------------------

Advance(s) ==
    \/ LookForTable(s) \/ CreateTable(s) \/ PutBlob(s)
    \/ RecordAsset(s) \/ RecordCaption(s) \/ Commit(s) \/ Rollback(s)
    \/ UpsertPoint(s)

Next == \E s \in Stages : Advance(s) \/ Victim(s) \/ Break(s) \/ Die(s) \/ Again(s)

Spec == Init /\ [][Next]_vars

(* Stages and the server go on, and the server breaks circles.             *)
Fairness ==
    /\ \A s \in Stages : WF_vars(Advance(s))
    /\ WF_vars(\E s \in Stages : Victim(s))

FairSpec == Spec /\ Fairness

-----------------------------------------------------------------------------

CaptionIds == Stages \X (1..MaxBlocks) \X Hashes

(* Every variable stays within its type. *)
TypeOK ==
    /\ tables \in 0..Tables
    /\ blobs \subseteq Hashes
    /\ DOMAIN rows \subseteq Hashes /\ DOMAIN draft = Hashes
    /\ captions \subseteq CaptionIds /\ points \subseteq CaptionIds
    /\ owner \in [Hashes -> Stages \cup {Nobody}]
    /\ pc \in [Stages -> Locations]
    /\ at \in [Stages -> Nat \ {0}]
    /\ \A s \in Stages : at[s] <= IF pc[s] \in {"look", "create"} THEN Tables ELSE Len(Order[s])
    /\ block \in [Stages -> 0..MaxBlocks]
    /\ captioned \in [Stages -> SUBSET Hashes]

(* "ensure_schema ... idempotent" (schema.py:3-4): a stage that got past it   *)
(* finds every table, however its calls and those of others failed and     *)
(* were made again.                                                        *)
EnsuredMeansThere ==
    \A s \in Stages : pc[s] \in InBlock \cup {"blob", "point", "done"} => tables = Tables

(* The three stores join, whatever failed or died between their calls: the *)
(* bytes of every asset are stored, every point is that of a caption, and  *)
(* every caption's asset is there (README.md:97-131).                      *)
StoresJoin ==
    /\ DOMAIN rows \subseteq blobs
    /\ points \subseteq captions
    /\ \A c \in captions : c[3] \in DOMAIN rows

(* Blocks are atomic and end, and none erases what another said, although  *)
(* their statements interleave, wait, deadlock, fail and are made again.   *)
Unit(s) == [number |-> block[s], is |-> IF pc[s] \in InBlock THEN "open" ELSE "closed"]
Units == INSTANCE LineageUnits WITH unit <- [s \in Stages |-> Unit(s)]
UnitsAreAtomic == Units!FairSpec
=============================================================================
