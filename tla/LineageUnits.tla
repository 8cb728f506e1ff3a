----------------------------- MODULE LineageUnits -----------------------------
(***************************************************************************)
(* What transaction() and record_asset promise the stages that share a     *)
(* lineage store (src/argus_cortex/store/lineage.py): the assets and       *)
(* captions that a stage records in one block are there together or not at *)
(* all, whatever other stages do meanwhile, and no block erases what an    *)
(* earlier one said of an asset.  A stage that is told of a failure cannot *)
(* know whether its block was applied, and may make it again.              *)
(***************************************************************************)
EXTENDS Naturals, Sequences

CONSTANTS
    Stages,     \* the stages
    Hashes,     \* the contents, by their hash
    Order,      \* Order[s]: the contents of a stage's block, in its order
    Call,       \* Call[s][h]: what s says of h: uri, immich and meta
    Null        \* no immich_id

VARIABLES
    rows,       \* the assets there are, by their hash
    captions,   \* <<stage, block, hash>>: the captions there are
    unit        \* the stage's last block: its number, and how it stands

vars == <<rows, captions, unit>>

InBatch(s) == {Order[s][i] : i \in DOMAIN Order[s]}

(* uri is the latest; an immich_id is kept until another comes; metadata   *)
(* is merged key by key.                                                   *)
Said(h, call) ==
    IF h \notin DOMAIN rows THEN call
    ELSE [uri |-> call.uri,
          immich |-> IF call.immich = Null THEN rows[h].immich ELSE call.immich,
          meta |-> [k \in DOMAIN rows[h].meta \cup DOMAIN call.meta |->
                      IF k \in DOMAIN call.meta THEN call.meta[k] ELSE rows[h].meta[k]]]

Init ==
    /\ rows = [h \in {} |-> Null]
    /\ captions = {}
    /\ unit = [s \in Stages |-> [number |-> 0, is |-> "closed"]]

Open(s) ==
    /\ unit[s].is = "closed"
    /\ unit' = [unit EXCEPT ![s] = [number |-> @.number + 1, is |-> "open"]]
    /\ UNCHANGED <<rows, captions>>

Apply(s) ==
    /\ unit[s].is = "open"
    /\ unit' = [unit EXCEPT ![s].is = "closed"]
    /\ rows' = [h \in DOMAIN rows \cup InBatch(s) |->
                 IF h \in InBatch(s) THEN Said(h, Call[s][h]) ELSE rows[h]]
    /\ captions' = captions \cup {<<s, unit[s].number, h>> : h \in InBatch(s)}

Fail(s) ==
    /\ unit[s].is = "open"
    /\ unit' = [unit EXCEPT ![s].is = "closed"]
    /\ UNCHANGED <<rows, captions>>

Next == \E s \in Stages : Open(s) \/ Apply(s) \/ Fail(s)

Spec == Init /\ [][Next]_vars

(* No block stays open for good. *)
Fairness == \A s \in Stages : WF_vars(Apply(s) \/ Fail(s))

FairSpec == Spec /\ Fairness
=============================================================================
