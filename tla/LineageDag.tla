------------------------------ MODULE LineageDag ------------------------------
(***************************************************************************)
(* The rows of the lineage DAG and the statements that write and read them *)
(* (src/argus_cortex/store/lineage.py over store/schema.py).  Each call is *)
(* one SQL statement, which PostgreSQL runs atomically; the calls come     *)
(* from stages that know nothing of each other, in any order.  Rows are    *)
(* deleted by hand, and the foreign keys say what follows from it.         *)
(*                                                                         *)
(* Texts are told apart only by their identity: the uri and the values of  *)
(* metadata are constants, a caption's and an edit's text is its row.      *)
(***************************************************************************)
EXTENDS Naturals, Sequences

CONSTANTS
    AssetCalls,    \* the assets that stages record: sha, uri, immich and meta,
                   \* a function from keys to values
    Datasets,
    MaxRows,       \* rows of a table, at a time
    MaxCalls,      \* calls of record_asset and add_to_dataset, all in all
    Null

ASSUME NullAssumption == Null \notin Nat
ASSUME BoundAssumption == MaxRows \in Nat /\ MaxCalls \in Nat

Ids == 1..MaxRows

VARIABLES
    asset,      \* id -> row of source_asset
    caption,    \* id -> its asset_id
    edit,       \* id -> its caption_id
    run,        \* ids of training_run
    member,     \* <<dataset, caption_id>> -> row of dataset_membership
    assetLog,   \* history: the record_asset calls that went to each asset
    memberLog,  \* history: the add_to_dataset calls that went to each membership
    calls       \* how many of either there were

dagVars == <<asset, caption, edit, run, member, assetLog, memberLog, calls>>

OneCall == calls < MaxCalls /\ calls' = calls + 1

(* gen_random_uuid() *)
Fresh(rows) == CHOOSE i \in Ids \ rows : TRUE
Room(rows) == Ids \ rows # {}

With(f, key, value) == [k \in DOMAIN f \cup {key} |-> IF k = key THEN value ELSE f[k]]
Only(f, keys) == [k \in DOMAIN f \cap keys |-> f[k]]

-----------------------------------------------------------------------------
(* Slips one could make in these statements.  The specification does not   *)
(* use them; the properties must tell each from what the code does.        *)

\* SET metadata = EXCLUDED.metadata
MergeReplace(old, new) == new

\* NULLs are not distinct: an asset without a hash is taken for another.
SameHashOfNulls(sha) == {i \in DOMAIN asset : asset[i].sha = sha}

\* The join is on the edit alone, not on the edit's own caption.
PairsAnyCaption(d) ==
    {<<m[2], member[m].edit>> : m \in {n \in DOMAIN member : n[1] = d /\ member[n].edit # Null}}

\* human_edit.caption_id without ON DELETE CASCADE.
CascadeCaptionsKeep(captions) ==
    /\ caption' = Only(caption, captions)
    /\ member' = [m \in {n \in DOMAIN member : n[2] \in captions} |-> member[m]]
    /\ memberLog' = [m \in {n \in DOMAIN member : n[2] \in captions} |-> memberLog[m]]
    /\ UNCHANGED edit

\* Metadata of a new asset is dropped.
NewAssetBare(call) == [sha |-> call.sha, uri |-> call.uri, immich |-> call.immich]

-----------------------------------------------------------------------------

(* COALESCE(new, old) *)
Coalesce(new, old) == IF new # Null THEN new ELSE old
(* jsonb's old || new *)
Merge(old, new) ==
    [k \in DOMAIN old \cup DOMAIN new |-> IF k \in DOMAIN new THEN new[k] ELSE old[k]]

DagInit ==
    /\ asset = <<>> /\ caption = <<>> /\ edit = <<>> /\ member = <<>>
    /\ run = {}
    /\ assetLog = <<>> /\ memberLog = <<>> /\ calls = 0

(* record_asset: an upsert on sha256, where NULLs are distinct. *)
SameHash(sha) == {i \in DOMAIN asset : sha # Null /\ asset[i].sha = sha}
NewAsset(call) == [sha |-> call.sha, uri |-> call.uri, immich |-> call.immich, meta |-> call.meta]

RecordAsset(call) ==
    /\ OneCall
    /\ \/ /\ SameHash(call.sha) = {}
          /\ Room(DOMAIN asset)
          /\ LET i == Fresh(DOMAIN asset) IN
               /\ asset' = With(asset, i, NewAsset(call))
               /\ assetLog' = With(assetLog, i, <<call>>)
       \/ \E i \in SameHash(call.sha) :
            /\ asset' = [asset EXCEPT ![i].uri = call.uri,
                                      ![i].immich = Coalesce(call.immich, @),
                                      ![i].meta = Merge(@, call.meta)]
            /\ assetLog' = [assetLog EXCEPT ![i] = Append(@, call)]
    /\ UNCHANGED <<caption, edit, run, member, memberLog>>

RecordCaption(a) ==
    /\ a \in DOMAIN asset /\ Room(DOMAIN caption)
    /\ caption' = With(caption, Fresh(DOMAIN caption), a)
    /\ UNCHANGED <<asset, edit, run, member, assetLog, memberLog, calls>>

RecordEdit(c) ==
    /\ c \in DOMAIN caption /\ Room(DOMAIN edit)
    /\ edit' = With(edit, Fresh(DOMAIN edit), c)
    /\ UNCHANGED <<asset, caption, run, member, assetLog, memberLog, calls>>

RecordTrainingRun ==
    /\ Room(run)
    /\ run' = run \cup {Fresh(run)}
    /\ UNCHANGED <<asset, caption, edit, member, assetLog, memberLog, calls>>

(* add_to_dataset: an upsert on (dataset, caption_id).  The foreign keys   *)
(* ask that what it links exists, not that the edit is of that caption.    *)
AddToDataset(d, c, e, r) ==
    LET m == <<d, c>>
        call == [edit |-> e, run |-> r]
    IN  /\ OneCall
        /\ c \in DOMAIN caption /\ e \in DOMAIN edit \cup {Null} /\ r \in run \cup {Null}
        /\ \/ /\ m \notin DOMAIN member
              /\ member' = With(member, m, call)
              /\ memberLog' = With(memberLog, m, <<call>>)
           \/ /\ m \in DOMAIN member
              /\ member' = [member EXCEPT ![m].edit = Coalesce(e, @),
                                          ![m].run = Coalesce(r, @)]
              /\ memberLog' = [memberLog EXCEPT ![m] = Append(@, call)]
        /\ UNCHANGED <<asset, caption, edit, run, assetLog>>

(* caption_edit_pairs: every edit with its caption; or, scoped to a        *)
(* dataset, the edits its memberships select for their own caption.        *)
AllPairs == {<<edit[e], e>> : e \in DOMAIN edit}
Pairs(d) ==
    {p \in AllPairs : <<d, p[1]>> \in DOMAIN member /\ member[<<d, p[1]>>].edit = p[2]}

-----------------------------------------------------------------------------
(* Deletions, by hand.                                                     *)

(* A link to a deleted row becomes NULL, and what was known before it is   *)
(* gone with it.                                                           *)
Unlink(row, edits, runs) ==
    [edit |-> IF row.edit \in edits THEN row.edit ELSE Null,
     run |-> IF row.run \in runs THEN row.run ELSE Null]
Relog(log, row, edits, runs) ==
    [n \in DOMAIN log |->
       [edit |-> IF row.edit \in edits /\ log[n].edit \in edits THEN log[n].edit ELSE Null,
        run |-> IF row.run \in runs /\ log[n].run \in runs THEN log[n].run ELSE Null]]

(* The captions that stay: edits and memberships of the others go. *)
CascadeCaptions(captions) ==
    LET edits == {e \in DOMAIN edit : edit[e] \in captions}
        kept == {m \in DOMAIN member : m[2] \in captions}
    IN  /\ caption' = Only(caption, captions)
        /\ edit' = Only(edit, edits)
        /\ member' = [m \in kept |-> Unlink(member[m], edits, run)]
        /\ memberLog' = [m \in kept |-> Relog(memberLog[m], member[m], edits, run)]

DeleteAsset(a) ==
    /\ a \in DOMAIN asset
    /\ asset' = Only(asset, Ids \ {a})
    /\ assetLog' = Only(assetLog, Ids \ {a})
    /\ CascadeCaptions({c \in DOMAIN caption : caption[c] # a})
    /\ UNCHANGED <<run, calls>>

DeleteCaption(c) ==
    /\ c \in DOMAIN caption
    /\ CascadeCaptions(DOMAIN caption \ {c})
    /\ UNCHANGED <<asset, assetLog, run, calls>>

DeleteEdit(e) ==
    /\ e \in DOMAIN edit
    /\ LET edits == DOMAIN edit \ {e} IN
         /\ edit' = Only(edit, edits)
         /\ member' = [m \in DOMAIN member |-> Unlink(member[m], edits, run)]
         /\ memberLog' = [m \in DOMAIN member |-> Relog(memberLog[m], member[m], edits, run)]
    /\ UNCHANGED <<asset, assetLog, caption, run, calls>>

DeleteRun(r) ==
    /\ r \in run
    /\ LET runs == run \ {r} IN
         /\ run' = runs
         /\ member' = [m \in DOMAIN member |-> Unlink(member[m], DOMAIN edit, runs)]
         /\ memberLog' = [m \in DOMAIN member |->
                            Relog(memberLog[m], member[m], DOMAIN edit, runs)]
    /\ UNCHANGED <<asset, assetLog, caption, edit, calls>>

-----------------------------------------------------------------------------

DagNext ==
    \/ \E call \in AssetCalls : RecordAsset(call)
    \/ \E a \in Ids : RecordCaption(a) \/ DeleteAsset(a)
    \/ \E c \in Ids : RecordEdit(c) \/ DeleteCaption(c)
    \/ \E e \in Ids : DeleteEdit(e)
    \/ RecordTrainingRun
    \/ \E r \in Ids : DeleteRun(r)
    \/ \E d \in Datasets, c \in Ids, e \in Ids \cup {Null}, r \in Ids \cup {Null} :
         AddToDataset(d, c, e, r)

DagSpec == DagInit /\ [][DagNext]_dagVars

-----------------------------------------------------------------------------

Links == [edit : Ids \cup {Null}, run : Ids \cup {Null}]

(* Every variable stays within its type. *)
DagTypeOK ==
    /\ DOMAIN asset \subseteq Ids
    /\ \A i \in DOMAIN asset : DOMAIN asset[i] = {"sha", "uri", "immich", "meta"}
    /\ DOMAIN caption \subseteq Ids /\ DOMAIN edit \subseteq Ids /\ run \subseteq Ids
    /\ DOMAIN member \subseteq Datasets \X Ids
    /\ \A m \in DOMAIN member : member[m] \in Links
    /\ DOMAIN assetLog = DOMAIN asset /\ DOMAIN memberLog = DOMAIN member
    /\ calls \in 0..MaxCalls

(* Every link of the DAG leads to a row: "a torn DAG" never arises from    *)
(* deletions either (schema.py, the REFERENCES clauses).                   *)
NoDanglingLink ==
    /\ \A c \in DOMAIN caption : caption[c] \in DOMAIN asset
    /\ \A e \in DOMAIN edit : edit[e] \in DOMAIN caption
    /\ \A m \in DOMAIN member :
         /\ m[2] \in DOMAIN caption
         /\ member[m].edit \in DOMAIN edit \cup {Null}
         /\ member[m].run \in run \cup {Null}

(* Re-ingesting the same bytes reuses the row rather than forking the      *)
(* lineage (models.py, SourceAsset): a hash is one asset, and every call   *)
(* that went to an asset gave its hash.  Assets without a hash, which may  *)
(* be any bytes, are never merged: each is what one call recorded.         *)
OneAssetPerHash ==
    /\ \A i, j \in DOMAIN asset : asset[i].sha = asset[j].sha /\ asset[i].sha # Null => i = j
    /\ \A i \in DOMAIN asset :
         /\ \A n \in DOMAIN assetLog[i] : assetLog[i][n].sha = asset[i].sha
         /\ asset[i].sha = Null => Len(assetLog[i]) = 1

(* The last of some calls of a log, 0 if there is none. *)
LastOf(such) == IF such = {} THEN 0 ELSE CHOOSE n \in such : \A k \in such : k <= n

(* However the stages' calls for one asset are ordered, its row is what    *)
(* they say together: the uri of the last, the last immich_id that any     *)
(* gave, and of every key any gave the last value ("stages recording the   *)
(* same bytes add to the row rather than erase each other's fields",       *)
(* lineage.py:76).                                                         *)
AssetsRemember ==
    \A i \in DOMAIN asset :
        LET log == assetLog[i]
            withImmich == LastOf({n \in DOMAIN log : log[n].immich # Null})
            keys == UNION {DOMAIN log[n].meta : n \in DOMAIN log}
        IN  /\ asset[i].uri = log[Len(log)].uri
            /\ asset[i].immich = IF withImmich = 0 THEN Null ELSE log[withImmich].immich
            /\ DOMAIN asset[i].meta = keys
            /\ \A k \in keys :
                 asset[i].meta[k] = log[LastOf({n \in DOMAIN log : k \in DOMAIN log[n].meta})].meta[k]

(* A dataset's training signal is exactly the edits pinned last, each for  *)
(* its own caption: re-adding a caption without an edit unpins nothing,    *)
(* superseded edits and edits of other captions never get in.              *)
PairsAreSelected ==
    \A d \in Datasets : \A c \in DOMAIN caption, e \in DOMAIN edit :
        <<c, e>> \in Pairs(d) <=>
            /\ edit[e] = c
            /\ <<d, c>> \in DOMAIN memberLog
            /\ LET log == memberLog[<<d, c>>]
                   pinned == LastOf({n \in DOMAIN log : log[n].edit # Null})
               IN  pinned # 0 /\ log[pinned].edit = e
=============================================================================
