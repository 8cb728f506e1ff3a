----------------------------- MODULE IngestProofs -----------------------------
(***************************************************************************)
(* Theorems about Ingest, for every set of stages and images, every batch  *)
(* and everything the stages say of them.  Units is what the blocks        *)
(* implement; that they end is under fairness, and stays with TLC.         *)
(***************************************************************************)
EXTENDS Ingest, TLAPS

(* A stage counts its blocks as it goes, and is at an image of its batch.  *)
Counts ==
    \A s \in Stages :
        /\ pc[s] \in {"look", "create", "blob"} => block[s] < MaxBlocks
        /\ pc[s] \in InBlock \cup {"point"} => block[s] > 0

(* The tables that a stage has gone past are there. *)
TablesSoFar ==
    \A s \in Stages : pc[s] \in {"look", "create"} => at[s] <= tables + 1

Upto(s, n) == {Order[s][i] : i \in 1..n}

(* The images whose bytes a stage has stored, and those it has recorded an *)
(* asset or a caption of in its open block, by where it is.                *)
Stored(s) ==
    IF pc[s] = "blob" THEN Upto(s, at[s] - 1)
    ELSE IF pc[s] \in {"asset", "caption", "commit"} THEN InBatch(s) ELSE {}
Recorded(s) ==
    IF pc[s] = "asset" THEN Upto(s, at[s] - 1)
    ELSE IF pc[s] = "caption" THEN Upto(s, at[s])
    ELSE IF pc[s] = "commit" THEN InBatch(s) ELSE {}
Captioned(s) ==
    IF pc[s] \in {"asset", "caption"} THEN Upto(s, at[s] - 1)
    ELSE IF pc[s] = "commit" THEN InBatch(s) ELSE {}

BlobsSoFar == \A s \in Stages : Stored(s) \subseteq blobs

(* A transaction has locked what it recorded, and an open block holds what *)
(* its calls made.                                                         *)
Holds ==
    \A s \in Stages : pc[s] # "broken" =>
        /\ {h \in Hashes : owner[h] = s} = Recorded(s)
        /\ captioned[s] = Captioned(s)

(* A draft is what its call makes of the row as it is committed: nobody    *)
(* can have changed the row since.                                         *)
Drafts ==
    \A h \in Hashes : owner[h] # Nobody => draft[h] = Upsert(h, Call[owner[h]][h])

(* A stage makes points of the captions it has committed. *)
Committed ==
    \A s \in Stages : pc[s] = "point" => \A h \in InBatch(s) : <<s, block[s], h>> \in captions

IInv ==
    /\ TypeOK /\ Counts
    /\ TablesSoFar /\ EnsuredMeansThere
    /\ BlobsSoFar /\ Holds /\ Drafts /\ Committed /\ StoresJoin

-----------------------------------------------------------------------------

Act(s) == Advance(s) \/ Victim(s) \/ Break(s) \/ Die(s) \/ Again(s)

USE OrderAssumption, BoundAssumption, NobodyAssumption

(* A batch is a sequence of images, each once. *)
LEMMA Batch ==
  ASSUME NEW s \in Stages
  PROVE  /\ Len(Order[s]) \in Nat \ {0}
         /\ \A i \in 1..Len(Order[s]) : Order[s][i] \in Hashes
         /\ InBatch(s) = Upto(s, Len(Order[s]))
         /\ InBatch(s) \subseteq Hashes
         /\ Upto(s, 0) = {}
  BY DEF InBatch, Images, Upto

LEMMA UptoNext ==
  ASSUME NEW s \in Stages, NEW n \in Nat \ {0}
  PROVE  Upto(s, n) = Upto(s, n - 1) \cup {Order[s][n]}
  BY DEF Upto

(* An action of a stage leaves the others where they are. *)
LEMMA OthersStay ==
  ASSUME TypeOK, NEW s \in Stages, Act(s), NEW t \in Stages \ {s}
  PROVE  /\ pc'[t] = pc[t] /\ at'[t] = at[t] /\ block'[t] = block[t]
         /\ captioned'[t] = captioned[t]
         /\ \A h \in Hashes : (owner'[h] = t) <=> (owner[h] = t)
         /\ \A h \in Hashes : owner[h] = t => draft'[h] = draft[h]
  <1> USE DEF TypeOK, Goto, Raise, Following
  <1>1. CASE LookForTable(s) BY <1>1 DEF LookForTable, AfterTable, lineage
  <1>2. CASE CreateTable(s) BY <1>2 DEF CreateTable, AfterTable, lineage
  <1>3. CASE PutBlob(s) BY <1>3 DEF PutBlob, Begun, lineage
  <1>4. CASE RecordAsset(s) BY <1>4 DEF RecordAsset
  <1>5. CASE RecordCaption(s) BY <1>5 DEF RecordCaption, lineage
  <1>6. CASE Commit(s) BY <1>6 DEF Commit, Release
  <1>7. CASE Rollback(s) BY <1>7 DEF Rollback, Release
  <1>8. CASE UpsertPoint(s) BY <1>8 DEF UpsertPoint, lineage
  <1>9. CASE Victim(s) BY <1>9 DEF Victim, lineage
  <1>10. CASE Break(s) BY <1>10 DEF Break, lineage
  <1>11. CASE Die(s) BY <1>11 DEF Die, lineage
  <1>12. CASE Again(s) BY <1>12 DEF Again, lineage
  <1> QED BY <1>1, <1>2, <1>3, <1>4, <1>5, <1>6, <1>7, <1>8, <1>9, <1>10, <1>11, <1>12
          DEF Act, Advance

-----------------------------------------------------------------------------
(* Types and counts *)

LEMMA AtImage ==
  ASSUME TypeOK, NEW s \in Stages, pc[s] \notin {"look", "create"}
  PROVE  /\ at[s] \in 1..Len(Order[s])
         /\ Image(s) \in InBatch(s) /\ Image(s) \in Hashes
  <1>1. at[s] \in 1..Len(Order[s])
    BY Batch DEF TypeOK
  <1> QED BY <1>1, Batch DEF Image, InBatch, Images

(* Where an action of a stage takes it. *)
Arrives(s, loc, n) ==
    /\ Goto(s, loc, n)
    /\ loc \in Locations /\ n \in Nat \ {0}
    /\ n <= IF loc \in {"look", "create"} THEN Tables ELSE Len(Order[s])

LEMMA WhereTo ==
  ASSUME TypeOK, NEW s \in Stages, Act(s)
  PROVE  \E loc, n : Arrives(s, loc, n)
  <1>1. \A loc \in Locations : Goto(s, loc, 1) => Arrives(s, loc, 1)
    BY Batch DEF Arrives
  <1>2. pc[s] \in Locations /\ at[s] \in Nat \ {0}
    BY DEF TypeOK
  <1>3. ASSUME At(s, "look") \/ At(s, "create"), AfterTable(s)
        PROVE  \E loc, n : Arrives(s, loc, n)
    <2>1. at[s] < Tables => Arrives(s, "look", at[s] + 1)
      BY <1>2, <1>3 DEF AfterTable, Following, Arrives, Locations
    <2> QED BY <1>1, <1>3, <2>1 DEF AfterTable, Following, Locations
  <1>4. ASSUME ~(At(s, "look") \/ At(s, "create")), NEW loop \in Locations \ {"look", "create"},
               NEW after \in Locations, Following(s, Len(Order[s]), loop, after)
        PROVE  \E loc, n : Arrives(s, loc, n)
    <2>1. at[s] < Len(Order[s]) => Arrives(s, loop, at[s] + 1)
      BY <1>2, <1>4, Batch DEF Following, Arrives
    <2> QED BY <1>1, <1>4, <2>1 DEF Following
  <1>5. Raise(s) => \E loc, n : Arrives(s, loc, n)
    BY <1>1 DEF Raise, Locations
  <1>6. CASE LookForTable(s)
    <2>1. at[s] <= Tables /\ at[s] \in Nat \ {0} BY <1>6 DEF LookForTable, At, TypeOK
    <2>2. Goto(s, "create", at[s]) => Arrives(s, "create", at[s])
      BY <2>1 DEF Arrives, Locations
    <2> QED BY <1>3, <1>6, <2>2 DEF LookForTable
  <1>7. CASE CreateTable(s) BY <1>3, <1>5, <1>7 DEF CreateTable
  <1>8. CASE PutBlob(s)
    <2>1. ~(At(s, "look") \/ At(s, "create")) BY <1>8 DEF PutBlob, At
    <2> QED BY <1>4, <1>5, <1>8, <2>1 DEF PutBlob, Locations
  <1>9. CASE RecordAsset(s)
    <2>1. at[s] <= Len(Order[s]) BY <1>9, AtImage DEF RecordAsset, At
    <2>2. Arrives(s, "caption", at[s]) BY <1>2, <1>9, <2>1 DEF RecordAsset, Arrives, Locations
    <2> QED BY <2>2
  <1>10. CASE RecordCaption(s)
    <2>1. ~(At(s, "look") \/ At(s, "create")) BY <1>10 DEF RecordCaption, At
    <2> QED BY <1>4, <1>10, <2>1 DEF RecordCaption, Locations
  <1>11. CASE UpsertPoint(s)
    <2>1. ~(At(s, "look") \/ At(s, "create")) BY <1>11 DEF UpsertPoint, At
    <2> QED BY <1>4, <1>5, <1>11, <2>1 DEF UpsertPoint, Locations
  <1>12. CASE Commit(s) \/ Rollback(s) \/ Die(s)
    BY <1>1, <1>5, <1>12 DEF Commit, Rollback, Die, Locations
  <1>13. CASE Victim(s) \/ Break(s) \/ Again(s)
    BY <1>1, <1>13 DEF Victim, Break, Again, Locations
  <1> QED BY <1>6, <1>7, <1>8, <1>9, <1>10, <1>11, <1>12, <1>13 DEF Act, Advance

LEMMA ControlStep ==
  ASSUME TypeOK, NEW s \in Stages, Act(s)
  PROVE  /\ pc' \in [Stages -> Locations]
         /\ at' \in [Stages -> Nat \ {0}]
         /\ \A t \in Stages :
              at'[t] <= IF pc'[t] \in {"look", "create"} THEN Tables ELSE Len(Order[t])
  <1>1. PICK loc, n : Arrives(s, loc, n)
    BY WhereTo
  <1>2. pc \in [Stages -> Locations] /\ at \in [Stages -> Nat \ {0}]
    BY DEF TypeOK
  <1>3. pc' = [pc EXCEPT ![s] = loc] /\ at' = [at EXCEPT ![s] = n]
    BY <1>1 DEF Arrives, Goto
  <1>4. ASSUME NEW t \in Stages \ {s}
        PROVE  at'[t] <= IF pc'[t] \in {"look", "create"} THEN Tables ELSE Len(Order[t])
    BY <1>2, <1>3 DEF TypeOK
  <1>5. at'[s] <= IF pc'[s] \in {"look", "create"} THEN Tables ELSE Len(Order[s])
    BY <1>1, <1>2, <1>3 DEF Arrives
  <1>6. pc' \in [Stages -> Locations] /\ at' \in [Stages -> Nat \ {0}]
    BY <1>1, <1>2, <1>3 DEF Arrives
  <1> QED BY <1>4, <1>5, <1>6

LEMMA CountsStep ==
  ASSUME TypeOK, Counts, NEW s \in Stages, Act(s)
  PROVE  /\ block' \in [Stages -> 0..MaxBlocks]
         /\ Counts'
  <1> DEFINE Count(t) == /\ pc[t] \in {"look", "create", "blob"} => block[t] < MaxBlocks
                         /\ pc[t] \in InBlock \cup {"point"} => block[t] > 0
  <1>1. \A t \in Stages \ {s} : Count(t)'
    BY OthersStay DEF Counts
  <1>2. Count(s)' /\ block' \in [Stages -> 0..MaxBlocks]
    <2>0. /\ pc \in [Stages -> Locations] /\ at \in [Stages -> Nat \ {0}]
          /\ block \in [Stages -> 0..MaxBlocks]
          /\ Count(s)
      BY DEF TypeOK, Counts
    <2> USE <2>0 DEF InBlock, Goto, Raise, Following, At, store
    <2>1. CASE LookForTable(s) BY <2>1 DEF LookForTable, AfterTable
    <2>2. CASE CreateTable(s) BY <2>2 DEF CreateTable, AfterTable
    <2>3. CASE PutBlob(s)
      <3>1. block[s] < MaxBlocks /\ block[s] \in 0..MaxBlocks BY <2>3 DEF PutBlob
      <3>2. CASE Raise(s) /\ UNCHANGED block BY <3>2
      <3>3. CASE pc' = [pc EXCEPT ![s] = "blob"] /\ UNCHANGED block BY <3>1, <3>3
      <3>4. CASE pc' = [pc EXCEPT ![s] = "asset"] /\ block' = [block EXCEPT ![s] = @ + 1]
        <4>1. block[s] + 1 \in 1..MaxBlocks BY <3>1
        <4>2. block' \in [Stages -> 0..MaxBlocks] /\ block'[s] > 0 BY <3>4, <4>1
        <4> QED BY <3>4, <4>2
      <3> QED BY <2>3, <3>2, <3>3, <3>4 DEF PutBlob, Begun
    <2>4. CASE RecordAsset(s) \/ RecordCaption(s) \/ Commit(s)
      BY <2>4 DEF RecordAsset, RecordCaption, Commit
    <2>5. CASE Rollback(s) \/ UpsertPoint(s) BY <2>5 DEF Rollback, UpsertPoint
    <2>6. CASE Victim(s) \/ Break(s) BY <2>6 DEF Victim, Break, Circle, Waits
    <2>7. CASE Die(s) \/ Again(s) BY <2>7 DEF Die, Again
    <2> QED BY <2>1, <2>2, <2>3, <2>4, <2>5, <2>6, <2>7 DEF Act, Advance
  <1> QED BY <1>1, <1>2 DEF Counts

LEMMA DataStep ==
  ASSUME TypeOK, Counts, NEW s \in Stages, Act(s)
  PROVE  /\ tables' \in 0..Tables /\ blobs' \subseteq Hashes
         /\ DOMAIN rows' \subseteq Hashes /\ DOMAIN draft' = Hashes
         /\ captions' \subseteq CaptionIds /\ points' \subseteq CaptionIds
         /\ owner' \in [Hashes -> Stages \cup {Nobody}]
         /\ captioned' \in [Stages -> SUBSET Hashes]
  <1> USE DEF TypeOK, store, lineage
  <1>1. CASE LookForTable(s) BY <1>1 DEF LookForTable
  <1>2. CASE CreateTable(s) BY <1>2 DEF CreateTable, At
  <1>3. CASE PutBlob(s) BY <1>3, AtImage DEF PutBlob, At
  <1>4. CASE RecordAsset(s) BY <1>4, AtImage DEF RecordAsset, At
  <1>5. CASE RecordCaption(s)
    <2>1. Image(s) \in Hashes
      BY <1>5, AtImage DEF RecordCaption, At
    <2>2. captioned' = [captioned EXCEPT ![s] = @ \cup {Image(s)}] /\ UNCHANGED <<store, lineage>>
      BY <1>5 DEF RecordCaption
    <2>3. captioned' \in [Stages -> SUBSET Hashes]
      BY ONLY <2>1, <2>2, captioned \in [Stages -> SUBSET Hashes], s \in Stages
    <2> QED BY ONLY <2>2, <2>3, TypeOK DEF TypeOK, store, lineage
  <1>6. CASE Commit(s)
    <2>1. block[s] \in 1..MaxBlocks BY <1>6 DEF Commit, At, Counts, InBlock
    <2>2. {<<s, block[s], h>> : h \in captioned[s]} \subseteq CaptionIds
      BY <2>1 DEF CaptionIds
    <2>3. captions' \subseteq CaptionIds BY <1>6, <2>2 DEF Commit
    <2>4. DOMAIN rows' \subseteq Hashes BY <1>6 DEF Commit
    <2> QED BY <1>6, <2>3, <2>4 DEF Commit, Release
  <1>7. CASE Rollback(s) BY <1>7 DEF Rollback, Release
  <1>8. CASE UpsertPoint(s)
    <2>1. block[s] \in 1..MaxBlocks BY <1>8 DEF UpsertPoint, At, Counts
    <2>2. <<s, block[s], Image(s)>> \in CaptionIds
      BY <1>8, <2>1, AtImage DEF UpsertPoint, At, CaptionIds
    <2> QED BY <1>8, <2>2 DEF UpsertPoint
  <1>9. CASE Victim(s) \/ Break(s) BY <1>9 DEF Victim, Break
  <1>10. CASE Die(s) \/ Again(s) BY <1>10 DEF Die, Again
  <1> QED BY <1>1, <1>2, <1>3, <1>4, <1>5, <1>6, <1>7, <1>8, <1>9, <1>10 DEF Act, Advance

LEMMA TypesStep ==
  ASSUME TypeOK, Counts, NEW s \in Stages, Act(s)
  PROVE  TypeOK' /\ Counts'
  BY ControlStep, CountsStep, DataStep DEF TypeOK

-----------------------------------------------------------------------------
(* The schema *)

LEMMA TablesGrow ==
  ASSUME TypeOK, NEW s \in Stages, Act(s)
  PROVE  tables <= tables'
  BY DEF TypeOK, Act, Advance, LookForTable, CreateTable, PutBlob, RecordAsset, RecordCaption,
         Commit, Rollback, UpsertPoint, Victim, Break, Die, Again, store

LEMMA SchemaStep ==
  ASSUME TypeOK, TypeOK', TablesSoFar, EnsuredMeansThere, NEW s \in Stages, Act(s)
  PROVE  TablesSoFar' /\ EnsuredMeansThere'
  <1> DEFINE Here(t) == /\ pc[t] \in {"look", "create"} => at[t] <= tables + 1
                        /\ pc[t] \in InBlock \cup {"blob", "point", "done"} => tables = Tables
  <1>1. ASSUME NEW t \in Stages \ {s} PROVE Here(t)'
    <2>1. pc'[t] = pc[t] /\ at'[t] = at[t]
      BY <1>1, OthersStay
    <2>2. /\ tables \in Nat /\ tables' \in Nat /\ tables <= tables' /\ tables' <= Tables
          /\ at[t] \in Nat
      BY TablesGrow DEF TypeOK
    <2>3. Here(t)
      BY DEF TablesSoFar, EnsuredMeansThere
    <2> QED BY <2>1, <2>2, <2>3
  <1>2. Here(s)'
    <2> USE DEF TypeOK, TablesSoFar, EnsuredMeansThere, InBlock, Goto, Raise, Following, At, store
    <2>1. CASE LookForTable(s) BY <2>1 DEF LookForTable, AfterTable
    <2>2. CASE CreateTable(s) BY <2>2 DEF CreateTable, AfterTable
    <2>3. CASE PutBlob(s) BY <2>3 DEF PutBlob
    <2>4. CASE RecordAsset(s) \/ RecordCaption(s) \/ Commit(s)
      BY <2>4 DEF RecordAsset, RecordCaption, Commit
    <2>5. CASE Rollback(s) \/ UpsertPoint(s) BY <2>5 DEF Rollback, UpsertPoint
    <2>6. CASE Victim(s) \/ Break(s) BY <2>6 DEF Victim, Break, Circle, Waits
    <2>7. CASE Die(s) \/ Again(s) BY <2>7 DEF Die, Again
    <2> QED BY <2>1, <2>2, <2>3, <2>4, <2>5, <2>6, <2>7 DEF Act, Advance
  <1> QED BY <1>1, <1>2 DEF TablesSoFar, EnsuredMeansThere

-----------------------------------------------------------------------------
(* The bytes *)

LEMMA BlobsGrow ==
  ASSUME NEW s \in Stages, Act(s)
  PROVE  blobs \subseteq blobs'
  BY DEF Act, Advance, LookForTable, CreateTable, PutBlob, RecordAsset, RecordCaption,
         Commit, Rollback, UpsertPoint, Victim, Break, Die, Again, store

LEMMA BlobsStep ==
  ASSUME TypeOK, TypeOK', BlobsSoFar, NEW s \in Stages, Act(s)
  PROVE  BlobsSoFar'
  <1>1. ASSUME NEW t \in Stages \ {s} PROVE (Stored(t) \subseteq blobs)'
    BY OthersStay, BlobsGrow, <1>1 DEF BlobsSoFar, Stored, Upto
  <1>2. (Stored(s) \subseteq blobs)'
    <2> USE Batch DEF TypeOK, BlobsSoFar, Stored, Goto, Raise, Following, At, store
    <2>1. CASE LookForTable(s) BY <2>1 DEF LookForTable, AfterTable
    <2>2. CASE CreateTable(s) BY <2>2 DEF CreateTable, AfterTable
    <2>3. CASE PutBlob(s)
      <3>1. Upto(s, at[s]) = Upto(s, at[s] - 1) \cup {Image(s)} BY UptoNext DEF Image
      <3>2. CASE Raise(s) BY <2>3, <3>2
      <3>3. CASE Following(s, Len(Order[s]), "blob", "asset") /\ blobs' = blobs \cup {Image(s)}
        <4>0. at[s] \in 1..Len(Order[s]) BY <2>3, AtImage DEF PutBlob
        <4>1. Upto(s, at[s]) \subseteq blobs' BY <2>3, <3>1, <3>3 DEF PutBlob
        <4>3. CASE at[s] < Len(Order[s])
          <5>0. pc \in [Stages -> Locations] /\ at \in [Stages -> Nat \ {0}] OBVIOUS
          <5> HIDE DEF TypeOK, BlobsSoFar
          <5>1. pc'[s] = "blob" /\ at'[s] = at[s] + 1 BY <3>3, <4>3, <5>0
          <5>2. Stored(s)' = {Order[s][i] : i \in 1..(at'[s] - 1)} BY <5>1 DEF Upto
          <5>3. at'[s] - 1 = at[s] BY <4>0, <5>1
          <5> HIDE DEF Stored
          <5> QED BY <4>1, <5>2, <5>3 DEF Upto
        <4>4. CASE at[s] = Len(Order[s])
          <5>1. pc'[s] = "asset" BY <3>3, <4>4
          <5> QED BY <4>1, <4>4, <5>1 DEF InBatch
        <4> QED BY <4>0, <4>3, <4>4
      <3> QED BY <2>3, <3>2, <3>3 DEF PutBlob
    <2>4. CASE RecordAsset(s) \/ RecordCaption(s) \/ Commit(s)
      BY <2>4 DEF RecordAsset, RecordCaption, Commit
    <2>5. CASE Rollback(s) \/ UpsertPoint(s) BY <2>5 DEF Rollback, UpsertPoint
    <2>6. CASE Victim(s) \/ Break(s) BY <2>6 DEF Victim, Break, Circle, Waits
    <2>7. CASE Die(s) \/ Again(s) BY <2>7 DEF Die, Again
    <2> QED BY <2>1, <2>2, <2>3, <2>4, <2>5, <2>6, <2>7 DEF Act, Advance
  <1> QED BY <1>1, <1>2 DEF BlobsSoFar

-----------------------------------------------------------------------------
(* The locks and the drafts *)

LEMMA HoldsStep ==
  ASSUME TypeOK, Holds, NEW s \in Stages, Act(s)
  PROVE  Holds'
  <1> DEFINE Locked(t) == {h \in Hashes : owner[h] = t}
             Has(t) == pc[t] # "broken" => Locked(t) = Recorded(t) /\ captioned[t] = Captioned(t)
  <1>1. ASSUME NEW t \in Stages \ {s} PROVE Has(t)'
    <2>1. Locked(t)' = Locked(t) BY OthersStay, <1>1
    <2>2. Recorded(t)' = Recorded(t) /\ Captioned(t)' = Captioned(t)
      BY OthersStay, <1>1 DEF Recorded, Captioned, Upto
    <2> QED BY OthersStay, <1>1, <2>1, <2>2 DEF Holds
  <1>2. Has(s)'
    <2>0. /\ pc \in [Stages -> Locations] /\ at \in [Stages -> Nat \ {0}]
          /\ owner \in [Hashes -> Stages \cup {Nobody}]
          /\ captioned \in [Stages -> SUBSET Hashes]
          /\ pc[s] # "broken" => Locked(s) = Recorded(s) /\ captioned[s] = Captioned(s)
      BY DEF TypeOK, Holds
    <2>1. ASSUME pc[s] \in {"look", "create", "blob", "point", "failed"}, UNCHANGED <<owner, captioned>>,
                 \/ pc'[s] \in {"look", "create", "blob", "point", "failed", "done"}
                 \/ pc'[s] = "asset" /\ at'[s] = 1
          PROVE  Has(s)'
      <3>1. Locked(s) = {} /\ captioned[s] = {} BY <2>0, <2>1 DEF Recorded, Captioned
      <3>2. Recorded(s)' = {} /\ Captioned(s)' = {} BY <2>1, Batch DEF Recorded, Captioned, Upto
      <3> QED BY <2>1, <3>1, <3>2
    <2>2. CASE LookForTable(s) \/ CreateTable(s)
      BY <2>0, <2>1, <2>2 DEF LookForTable, CreateTable, AfterTable, Following, Raise, Goto, At, lineage
    <2>3. CASE PutBlob(s) \/ UpsertPoint(s)
      BY <2>0, <2>1, <2>3 DEF PutBlob, UpsertPoint, Following, Raise, Goto, At, lineage
    <2>4. CASE Die(s) \/ Again(s)
      BY <2>0, <2>1, <2>4 DEF Die, Again, Raise, Goto, At, lineage
    <2>5. CASE RecordAsset(s)
      <3>1. pc[s] = "asset" /\ pc'[s] = "caption" /\ at'[s] = at[s] /\ captioned' = captioned
        BY <2>0, <2>5 DEF RecordAsset, At, Goto
      <3>2. Image(s) \in Hashes /\ at[s] \in Nat \ {0} BY <2>0, <3>1, AtImage
      <3>3. Locked(s)' = Locked(s) \cup {Image(s)} BY <2>0, <2>5, <3>2 DEF RecordAsset
      <3>4. Locked(s) = Upto(s, at[s] - 1) /\ captioned[s] = Upto(s, at[s] - 1)
        BY <2>0, <3>1 DEF Recorded, Captioned
      <3>5. Locked(s)' = Upto(s, at[s]) BY <3>2, <3>3, <3>4, UptoNext DEF Image
      <3>6. Recorded(s)' = Upto(s, at[s]) /\ Captioned(s)' = Upto(s, at[s] - 1)
        BY <3>1 DEF Recorded, Captioned, Upto
      <3> QED BY <3>1, <3>4, <3>5, <3>6
    <2>6. CASE RecordCaption(s)
      <3>1. pc[s] = "caption" /\ owner' = owner BY <2>6 DEF RecordCaption, At, lineage
      <3>2. at[s] \in 1..Len(Order[s]) /\ at[s] \in Nat \ {0} BY <2>0, <3>1, AtImage
      <3>3. Locked(s) = Upto(s, at[s]) /\ captioned[s] = Upto(s, at[s] - 1)
        BY <2>0, <3>1 DEF Recorded, Captioned
      <3>4. captioned'[s] = Upto(s, at[s])
        BY <2>0, <2>6, <3>2, <3>3, UptoNext DEF RecordCaption, Image
      <3>5. CASE at[s] < Len(Order[s])
        <4>1. pc'[s] = "asset" /\ at'[s] = at[s] + 1
          BY <2>0, <2>6, <3>5 DEF RecordCaption, Following, Goto
        <4>2. at'[s] - 1 = at[s] BY <3>2, <4>1
        <4>3. Recorded(s)' = {Order[s][i] : i \in 1..(at'[s] - 1)} BY <4>1 DEF Recorded, Upto
        <4>4. Captioned(s)' = {Order[s][i] : i \in 1..(at'[s] - 1)} BY <4>1 DEF Captioned, Upto
        <4> QED BY <3>1, <3>3, <3>4, <4>2, <4>3, <4>4 DEF Upto
      <3>6. CASE at[s] = Len(Order[s])
        <4>1. pc'[s] = "commit" BY <2>0, <2>6, <3>6 DEF RecordCaption, Following, Goto
        <4>2. Recorded(s)' = Upto(s, at[s]) /\ Captioned(s)' = Upto(s, at[s])
          BY <3>6, <4>1, Batch DEF Recorded, Captioned, InBatch, Images, Upto
        <4> QED BY <3>1, <3>3, <3>4, <4>2
      <3> QED BY <3>2, <3>5, <3>6
    <2>7. CASE Commit(s) \/ Rollback(s)
      <3>1. Release(s) /\ pc'[s] \in {"point", "failed"}
        BY <2>0, <2>7 DEF Commit, Rollback, Raise, Goto
      <3>2. Locked(s)' = {} /\ captioned'[s] = {} BY <2>0, <3>1 DEF Release
      <3>3. Recorded(s)' = {} /\ Captioned(s)' = {} BY <3>1 DEF Recorded, Captioned
      <3> QED BY <3>2, <3>3
    <2>8. CASE Victim(s) \/ Break(s) BY <2>0, <2>8 DEF Victim, Break, Goto
    <2> QED BY <2>2, <2>3, <2>4, <2>5, <2>6, <2>7, <2>8 DEF Act, Advance
  <1> QED BY <1>1, <1>2 DEF Holds

LEMMA DraftsStep ==
  ASSUME TypeOK, TypeOK', Holds, Drafts, NEW s \in Stages, Act(s)
  PROVE  Drafts'
  <1> SUFFICES ASSUME NEW h \in Hashes, owner'[h] # Nobody
               PROVE  (draft[h] = Upsert(h, Call[owner[h]][h]))'
    BY DEF Drafts
  <1>0. owner \in [Hashes -> Stages \cup {Nobody}] /\ DOMAIN draft = Hashes
    BY DEF TypeOK
  <1>1. CASE RecordAsset(s)
    <2>1. CASE h = Image(s)
      <3>1. owner[h] # s
        <4>1. pc[s] = "asset" /\ at[s] \in 1..Len(Order[s])
          BY <1>1, AtImage DEF RecordAsset, At
        <4>2. {k \in Hashes : owner[k] = s} = Upto(s, at[s] - 1)
          BY <4>1 DEF Holds, Recorded
        <4>3. Order[s][at[s]] \notin Upto(s, at[s] - 1)
          BY <4>1, Batch DEF Upto
        <4> QED BY <2>1, <4>2, <4>3 DEF Image
      <3>2. owner'[h] = s /\ draft'[h] = Upsert(h, Call[s][h]) /\ rows' = rows
        BY <1>0, <1>1, <2>1, <3>1 DEF RecordAsset, TypeOK
      <3> QED BY <3>2 DEF Upsert
    <2>2. CASE h # Image(s)
      <3>1. owner'[h] = owner[h] /\ draft'[h] = draft[h] /\ rows' = rows
        BY <1>0, <1>1, <2>2 DEF RecordAsset
      <3> QED BY <3>1 DEF Drafts, Upsert
    <2> QED BY <2>1, <2>2
  <1>2. CASE Commit(s) \/ Rollback(s)
    <2>1. owner[h] # s /\ owner'[h] = owner[h] /\ draft'[h] = draft[h]
      BY <1>0, <1>2 DEF Commit, Rollback, Release
    <2>2. (h \in DOMAIN rows' <=> h \in DOMAIN rows) /\ (h \in DOMAIN rows => rows'[h] = rows[h])
      BY <1>2, <2>1 DEF Commit, Rollback
    <2> QED BY <2>1, <2>2 DEF Drafts, Upsert
  <1>3. CASE UNCHANGED lineage
    BY <1>3 DEF Drafts, Upsert, lineage
  <1> QED BY <1>1, <1>2, <1>3 DEF Act, Advance, LookForTable, CreateTable, PutBlob, RecordCaption,
                                  UpsertPoint, Victim, Break, Die, Again

-----------------------------------------------------------------------------
(* The three stores together *)

LEMMA CaptionsGrow ==
  ASSUME NEW s \in Stages, Act(s)
  PROVE  captions \subseteq captions' /\ DOMAIN rows \subseteq DOMAIN rows'
  BY DEF Act, Advance, LookForTable, CreateTable, PutBlob, RecordAsset, RecordCaption,
         Commit, Rollback, UpsertPoint, Victim, Break, Die, Again, lineage

CaptionsOf(s) == {<<s, block[s], h>> : h \in InBatch(s)}

LEMMA CommitWrites ==
  ASSUME TypeOK, Holds, NEW s \in Stages, Commit(s)
  PROVE  /\ \A h \in Hashes : (owner[h] = s) <=> (h \in InBatch(s))
         /\ DOMAIN rows' = DOMAIN rows \cup InBatch(s)
         /\ captions' = captions \cup CaptionsOf(s)
  <1>1. {h \in Hashes : owner[h] = s} = InBatch(s) /\ captioned[s] = InBatch(s)
    BY DEF Commit, At, Holds, Recorded, Captioned
  <1> QED BY <1>1 DEF Commit, CaptionsOf

LEMMA JoinStep ==
  ASSUME TypeOK, Holds, BlobsSoFar, Committed, StoresJoin, NEW s \in Stages, Act(s)
  PROVE  Committed' /\ StoresJoin'
  <1>0. pc \in [Stages -> Locations] /\ at \in [Stages -> Nat \ {0}] /\ captions \subseteq CaptionIds
    BY DEF TypeOK
  <1>1. ASSUME NEW t \in Stages \ {s}, pc'[t] = "point", NEW h \in InBatch(t)
        PROVE  <<t, block'[t], h>> \in captions'
    BY OthersStay, CaptionsGrow, <1>1 DEF Committed
  <1>2. CASE Commit(s)
    <2>1. \A h \in InBatch(s) : <<s, block'[s], h>> \in captions'
      BY <1>2, CommitWrites DEF Commit, CaptionsOf
    <2>2. DOMAIN rows' \subseteq blobs'
      <3>1. InBatch(s) \subseteq blobs BY <1>2 DEF Commit, At, BlobsSoFar, Stored
      <3> QED BY <1>2, <3>1, CommitWrites DEF Commit, StoresJoin, store
    <2>3. points' \subseteq captions'
      BY <1>2, CaptionsGrow DEF Commit, StoresJoin, store
    <2>4. \A c \in captions' : c[3] \in DOMAIN rows'
      <3>0. captions' = captions \cup CaptionsOf(s) BY <1>2, CommitWrites
      <3>1. \A c \in captions : c[3] \in DOMAIN rows' BY CaptionsGrow DEF StoresJoin
      <3>2. DOMAIN rows' = DOMAIN rows \cup InBatch(s) BY <1>2, CommitWrites
      <3>3. ASSUME NEW c \in captions', c \notin captions PROVE c[3] \in DOMAIN rows'
        <4>1. PICK h \in InBatch(s) : c = <<s, block[s], h>> BY <3>0, <3>3 DEF CaptionsOf
        <4>2. c[3] = h BY <4>1
        <4> QED BY <3>2, <4>2
      <3> QED BY <3>1, <3>3
    <2> QED BY <1>1, <2>1, <2>2, <2>3, <2>4 DEF Committed, StoresJoin, InBatch, Images
  <1>3. CASE UpsertPoint(s)
    <2>1. <<s, block[s], Image(s)>> \in captions
      BY <1>3, AtImage DEF UpsertPoint, At, Committed
    <2>2. points' \subseteq captions'
      BY <1>3, <2>1 DEF UpsertPoint, StoresJoin, lineage
    <2>3. StoresJoin'
      BY <1>3, <2>2 DEF UpsertPoint, StoresJoin, lineage
    <2>4. \A h \in InBatch(s) : <<s, block'[s], h>> \in captions'
      BY <1>3 DEF UpsertPoint, At, Committed, lineage
    <2> QED BY <1>1, <2>3, <2>4 DEF Committed, InBatch, Images
  <1>4. CASE UNCHANGED <<rows, captions, points>> /\ pc'[s] # "point"
    <2>1. StoresJoin' BY <1>4, BlobsGrow DEF StoresJoin
    <2> QED BY <1>1, <1>4, <2>1 DEF Committed, InBatch, Images
  <1>5. CASE LookForTable(s) \/ CreateTable(s) \/ PutBlob(s)
    BY <1>0, <1>4, <1>5 DEF LookForTable, CreateTable, PutBlob, AfterTable, Following, Raise, Goto,
                            store, lineage
  <1>6. CASE RecordAsset(s) \/ RecordCaption(s) \/ Rollback(s)
    BY <1>0, <1>4, <1>6 DEF RecordAsset, RecordCaption, Rollback, Following, Raise, Goto, store, lineage
  <1>7. CASE Victim(s) \/ Break(s) \/ Die(s) \/ Again(s)
    BY <1>0, <1>4, <1>7 DEF Victim, Break, Die, Again, Raise, Goto, store, lineage
  <1> QED BY <1>2, <1>3, <1>5, <1>6, <1>7 DEF Act, Advance

-----------------------------------------------------------------------------

THEOREM InitHolds == Init => IInv
  <1> SUFFICES ASSUME Init PROVE IInv
    OBVIOUS
  <1>1. TypeOK BY Batch DEF Init, TypeOK, Locations, CaptionIds
  <1>2. Counts /\ TablesSoFar /\ EnsuredMeansThere /\ Committed
    BY DEF Init, Counts, TablesSoFar, EnsuredMeansThere, Committed, InBlock
  <1>3. BlobsSoFar /\ Holds
    BY DEF Init, BlobsSoFar, Holds, Stored, Recorded, Captioned
  <1>4. Drafts /\ StoresJoin
    BY DEF Init, Drafts, StoresJoin
  <1> QED BY <1>1, <1>2, <1>3, <1>4 DEF IInv

THEOREM StepKeeps == IInv /\ [Next]_vars => IInv'
  <1> SUFFICES ASSUME IInv, [Next]_vars PROVE IInv'
    OBVIOUS
  <1>1. ASSUME NEW s \in Stages, Act(s) PROVE IInv'
    <2>1. TypeOK' /\ Counts' BY <1>1, TypesStep DEF IInv
    <2>2. TablesSoFar' /\ EnsuredMeansThere' BY <1>1, <2>1, SchemaStep DEF IInv
    <2>3. BlobsSoFar' /\ Holds' /\ Drafts' BY <1>1, <2>1, BlobsStep, HoldsStep, DraftsStep DEF IInv
    <2>4. Committed' /\ StoresJoin' BY <1>1, JoinStep DEF IInv
    <2> QED BY <2>1, <2>2, <2>3, <2>4 DEF IInv
  <1>2. CASE UNCHANGED vars
    <2>1. TypeOK' /\ Counts' BY <1>2 DEF vars, IInv, TypeOK, Counts
    <2>2. TablesSoFar' /\ EnsuredMeansThere'
      BY <1>2 DEF vars, IInv, TablesSoFar, EnsuredMeansThere
    <2>3. BlobsSoFar' BY <1>2 DEF vars, IInv, BlobsSoFar, Stored, Upto
    <2>4. Holds'
      <3>1. \A s : Recorded(s)' = Recorded(s) /\ Captioned(s)' = Captioned(s)
        BY <1>2 DEF vars, Recorded, Captioned, Upto
      <3> QED BY <1>2, <3>1 DEF vars, IInv, Holds
    <2>5. Drafts' BY <1>2 DEF vars, IInv, Drafts, Upsert
    <2>6. Committed' /\ StoresJoin' BY <1>2 DEF vars, IInv, Committed, StoresJoin
    <2> QED BY <2>1, <2>2, <2>3, <2>4, <2>5, <2>6 DEF IInv
  <1> QED BY <1>1, <1>2 DEF Next, Act

THEOREM Invariance == Spec => []IInv
  BY InitHolds, StepKeeps, PTL DEF Spec

(* Every variable stays within its type (the model's bounds are those of   *)
(* the schema and of the stages' retries).                                 *)
THEOREM Typing == Spec => []TypeOK
  <1>1. IInv => TypeOK
    BY DEF IInv
  <1> QED BY <1>1, Invariance, PTL

(* ensure_schema (lineage.py:300-306): a stage that got past it finds every *)
(* table of the schema, however many stages made it at once.               *)
THEOREM SchemaIsThere == Spec => []EnsuredMeansThere
  <1>1. IInv => EnsuredMeansThere
    BY DEF IInv
  <1> QED BY <1>1, Invariance, PTL

(* README.md:97-131: the bytes of every asset are stored, every point is   *)
(* that of a committed caption, and every caption has its asset.           *)
THEOREM Joins == Spec => []StoresJoin
  <1>1. IInv => StoresJoin
    BY DEF IInv
  <1> QED BY <1>1, Invariance, PTL

-----------------------------------------------------------------------------
(* Every step of a stage is a step of its blocks as LineageUnits has them, *)
(* or none.                                                                *)

Blocks == [s \in Stages |-> Unit(s)]

LEMMA SameUnit ==
  ASSUME TypeOK, NEW s \in Stages, Act(s), NEW t \in Stages \ {s}
  PROVE  Unit(t)' = Unit(t)
  BY OthersStay DEF Unit

LEMMA SaidIsUpsert ==
  ASSUME NEW h, NEW call
  PROVE  Upsert(h, call) = Units!Said(h, call)
  <1>1. CASE call.immich = Null BY <1>1 DEF Upsert, Update, Units!Said
  <1>2. CASE call.immich # Null BY <1>2 DEF Upsert, Update, Units!Said
  <1> QED BY <1>1, <1>2

LEMMA UnitStep ==
  ASSUME IInv, NEW s \in Stages, Act(s)
  PROVE  [Units!Next]_(Units!vars)
  <1>0. /\ pc \in [Stages -> Locations] /\ block \in [Stages -> 0..MaxBlocks]
        /\ TypeOK /\ Holds
    BY DEF IInv, TypeOK
  <1>1. CASE Commit(s)
    <2>1. Unit(s).is = "open" /\ Unit(s)' = [Unit(s) EXCEPT !.is = "closed"]
      BY <1>0, <1>1 DEF Commit, Unit, At, InBlock, Goto, Raise
    <2>2. Blocks' = [Blocks EXCEPT ![s].is = "closed"]
      BY <1>0, <1>1, <2>1, SameUnit DEF Blocks, Act, Advance
    <2>3. \A h \in InBatch(s) : owner[h] = s /\ draft[h] = Units!Said(h, Call[s][h])
      <3>1. \A h \in InBatch(s) : h \in Hashes /\ owner[h] = s
        BY <1>0, <1>1, CommitWrites, Batch
      <3>2. \A h \in InBatch(s) : draft[h] = Upsert(h, Call[s][h])
        BY <3>1 DEF IInv, Drafts
      <3> QED BY <3>1, <3>2, SaidIsUpsert
    <2>4. rows' = [h \in DOMAIN rows \cup InBatch(s) |->
                     IF h \in InBatch(s) THEN Units!Said(h, Call[s][h]) ELSE rows[h]]
      <3>1. DOMAIN rows' = DOMAIN rows \cup InBatch(s) BY <1>0, <1>1, CommitWrites
      <3>2. \A h \in Hashes : (owner[h] = s) <=> (h \in InBatch(s)) BY <1>0, <1>1, CommitWrites
      <3> QED BY <1>0, <1>1, <2>3, <3>1, <3>2, Batch DEF Commit, TypeOK
    <2>5. captions' = captions \cup {<<s, Blocks[s].number, h>> : h \in InBatch(s)}
      <3>1. Blocks[s].number = block[s] BY DEF Blocks, Unit
      <3>2. captions' = captions \cup CaptionsOf(s) BY <1>0, <1>1, CommitWrites
      <3> QED BY <3>1, <3>2 DEF CaptionsOf
    <2>6. InBatch(s) = Units!InBatch(s)
      BY DEF InBatch, Images, Units!InBatch
    <2>7. Units!Apply(s)
      BY <2>1, <2>2, <2>4, <2>5, <2>6 DEF Units!Apply, Blocks
    <2> QED BY <2>7 DEF Units!Next
  <1>2. CASE Rollback(s)
    <2>1. Unit(s).is = "open" /\ Unit(s)' = [Unit(s) EXCEPT !.is = "closed"]
      BY <1>0, <1>2 DEF Rollback, Unit, At, InBlock, Goto, Raise
    <2>2. Blocks' = [Blocks EXCEPT ![s].is = "closed"]
      BY <1>0, <1>2, <2>1, SameUnit DEF Blocks, Act, Advance
    <2>3. Units!Fail(s)
      BY <1>2, <2>1, <2>2 DEF Units!Fail, Blocks, Rollback
    <2> QED BY <2>3 DEF Units!Next
  <1>3. CASE UNCHANGED <<rows, captions>> /\ Unit(s)' = Unit(s)
    <2>1. Blocks' = Blocks BY <1>0, <1>3, SameUnit DEF Blocks
    <2> QED BY <1>3, <2>1 DEF Units!vars, Blocks
  <1>4. CASE PutBlob(s)
    <2>1. CASE pc'[s] # "asset"
      <3>1. Unit(s)' = Unit(s)
        BY <1>0, <1>4, <2>1 DEF PutBlob, Begun, Following, Raise, Goto, At, Unit, InBlock
      <3> QED BY <1>3, <1>4, <3>1 DEF PutBlob, lineage
    <2>2. CASE pc'[s] = "asset"
      <3>1. Unit(s).is = "closed" /\ Unit(s)' = [number |-> block[s] + 1, is |-> "open"]
        BY <1>0, <1>4, <2>2 DEF PutBlob, Begun, Following, Raise, Goto, At, Unit, InBlock
      <3>2. Blocks' = [Blocks EXCEPT ![s] = [number |-> @.number + 1, is |-> "open"]]
        BY <1>0, <1>4, <3>1, SameUnit DEF Blocks, Act, Advance, Unit
      <3>3. Units!Open(s)
        BY <1>4, <3>1, <3>2 DEF Units!Open, Blocks, PutBlob, lineage
      <3> QED BY <3>3 DEF Units!Next
    <2> QED BY <2>1, <2>2
  <1>5. CASE LookForTable(s) \/ CreateTable(s)
    BY <1>0, <1>3, <1>5 DEF LookForTable, CreateTable, AfterTable, Following, Raise, Goto, At, Unit,
                            InBlock, lineage
  <1>6. CASE RecordAsset(s) \/ RecordCaption(s)
    BY <1>0, <1>3, <1>6 DEF RecordAsset, RecordCaption, Following, Goto, At, Unit, InBlock, lineage
  <1>7. CASE UpsertPoint(s) \/ Die(s) \/ Again(s)
    BY <1>0, <1>3, <1>7 DEF UpsertPoint, Die, Again, Following, Raise, Goto, At, Unit, InBlock, lineage
  <1>8. CASE Victim(s) \/ Break(s)
    BY <1>0, <1>3, <1>8 DEF Victim, Circle, Waits, Break, Goto, At, Unit, InBlock, lineage
  <1> QED BY <1>1, <1>2, <1>4, <1>5, <1>6, <1>7, <1>8 DEF Act, Advance

(* transaction() (lineage.py:232-261) with record_asset's upsert           *)
(* (lineage.py:310-330): blocks are applied whole or not at all, and none  *)
(* erases what another said, whatever interleaves with their statements.   *)
THEOREM BlocksAreUnits == Spec => Units!Spec
  <1>1. Init => Units!Init
    BY DEF Init, Units!Init, Unit, InBlock
  <1>2. IInv /\ [Next]_vars => [Units!Next]_(Units!vars)
    <2>1. CASE UNCHANGED vars
      BY <2>1 DEF vars, Units!vars, Unit
    <2> QED BY <2>1, UnitStep DEF Next, Act
  <1> QED BY <1>1, <1>2, Invariance, PTL DEF Spec, Units!Spec
=============================================================================
