-------------------------- MODULE ServiceStoresProofs --------------------------
(***************************************************************************)
(* Theorems about ServiceStores, for every set of threads, contents, names *)
(* and vector sizes, and all ids in which a key has one form.              *)
(***************************************************************************)
EXTENDS ServiceStores, TLAPS

(* The requests a call makes with a client in hand. *)
Requests(what) ==
    IF what \in Ensures THEN {"exists"}
    ELSE IF what = "put_content_addressed" THEN {"stat", "put"}
    ELSE IF what = "exists" THEN {"stat"}
    ELSE IF what = "close" THEN {}
    ELSE {what}

Waiting == {"look", "make", "take"}
Closing == {"ifclient", "closing", "drop"}

Types ==
    /\ service \in {"s3", "qdrant"}
    /\ client \in {"none", "live"}
    /\ pc \in [Threads -> Steps \cup Waiting \cup Closing \cup {"idle"}]
    /\ DOMAIN call = Threads
    /\ DOMAIN next = Threads
    /\ DOMAIN mine = Threads
    /\ DOMAIN res = Threads
    /\ seen \in [Threads -> SUBSET {"fault", "refused", "close", "removal"}]
    /\ kept \in [Threads -> BOOLEAN]

(* Where a thread is fits what it was called for. *)
Control ==
    \A t \in Threads :
        /\ pc[t] # "idle" => call[t] \in Calls
        /\ pc[t] \in Waiting => next[t] \in Requests(call[t].what)
        /\ pc[t] \in Steps =>
             \/ pc[t] \in Requests(call[t].what)
             \/ pc[t] \in {"create", "recheck"} /\ call[t].what \in Ensures
        /\ pc[t] \in Closing => call[t].what = "close"
        /\ pc[t] = "idle" => res[t] # "none"

(* A client in hand is in use; it was closed, or the attribute was reset   *)
(* between test and read, only by a close() during the call.               *)
Clients ==
    \A t \in Threads :
        /\ pc[t] \notin Steps => mine[t] = "none"
        /\ mine[t] = "closed" => "close" \in seen[t]
        /\ (pc[t] = "take" /\ client = "none") => "close" \in seen[t]

(* A call that is looking again, with nothing seen to go wrong, finds what *)
(* it was to create.                                                       *)
SecondLook ==
    \A t \in Threads : (pc[t] = "recheck" /\ seen[t] = {}) => container # Absent

(* Bytes are stored under their own hash, points under their key's id.     *)
Addressed ==
    /\ service = "s3" =>
         \A slot \in Slots :
            \/ \E d \in Contents : slot = ContentKey(d) /\ items[slot] = d
            \/ \E n \in Names : slot = <<"name", n>>
    /\ service = "qdrant" =>
         \A slot \in Slots :
            \E i \in Ids : slot = NormalisePointId(i) /\ items[slot].key = i.key

IInv ==
    /\ Types /\ Control /\ Clients /\ SecondLook /\ Addressed
    /\ OutcomeIsTrue /\ RaceIsNotFailure /\ RawErrorsExplained

-----------------------------------------------------------------------------
(* What calls there are, and what they put where. *)
Whats == Ensures \cup Writes \cup {"url", "close", "get", "exists", "search"}

LEMMA CallShape ==
  ASSUME NEW c \in Calls
  PROVE  /\ c.what \in Whats
         /\ FirstStep(c.what) \in Requests(c.what) \/ c.what = "close"
         /\ service = "s3" /\ c.what \in Writes =>
              \/ \E d \in Contents : c.at = ContentKey(d) /\ c.put = d
              \/ c.what = "put" /\ \E n \in Names : c.at = <<"name", n>>
         /\ c.what = "upsert" =>
              \E i \in Ids : c.at = NormalisePointId(i) /\ c.put.key = i.key
         /\ service # "s3" =>
              c.what \notin {"put", "put_content_addressed", "get", "exists", "url", "ensure_bucket"}
         /\ service = "s3" => c.what \notin {"upsert", "search", "ensure_collection"}
         /\ c.what = "ensure_collection" => c.put \in Dims
  <1> USE DEF Whats, Ensures, Writes, Requests, FirstStep, Op
  <1>1. CASE service = "s3"
    <2>1. c \in BlobCalls
      BY <1>1 DEF Calls
    <2>2. CASE c \in {Op(o, NoSlot, "none") : o \in {"ensure_bucket", "url", "close"}}
      BY <1>1, <2>2
    <2>3. CASE c \in {Op("put", <<"name", n>>, d) : n \in Names, d \in Contents}
      BY <1>1, <2>3
    <2>4. CASE c \in {Op("put_content_addressed", ContentKey(d), d) : d \in Contents}
      BY <1>1, <2>4
    <2>5. CASE c \in {Op(o, k, "none") : o \in {"get", "exists"},
                             k \in {<<"name", n>> : n \in Names}
                                   \cup {ContentKey(d) : d \in Contents}}
      BY <1>1, <2>5
    <2> QED BY <2>1, <2>2, <2>3, <2>4, <2>5 DEF BlobCalls
  <1>2. CASE service # "s3"
    <2>1. c \in VectorCalls
      BY <1>2 DEF Calls
    <2>2. CASE c \in {Op(o, NoSlot, "none") : o \in {"search", "close"}}
      BY <1>2, <2>2
    <2>3. CASE c \in {Op("ensure_collection", NoSlot, d) : d \in Dims}
      BY <1>2, <2>3
    <2>4. CASE c \in {Op("upsert", NormalisePointId(i), [key |-> i.key, dim |-> d]) : i \in Ids, d \in Dims}
      BY <1>2, <2>4
    <2> QED BY <2>1, <2>2, <2>3, <2>4 DEF VectorCalls
  <1> QED BY <1>1, <1>2

(* A write changes its slot and no other. *)
LEMMA PutItemShape ==
  ASSUME NEW t \in Threads, PutItem(t)
  PROVE  /\ DOMAIN items' = {call[t].at} \cup DOMAIN items
         /\ items'[call[t].at] = call[t].put
         /\ \A s \in DOMAIN items \ {call[t].at} : items'[s] = items[s]
  BY DEF PutItem, With, Slots

(* A thread that has its client goes on with a request of its call. *)
LEMMA TakenStep ==
  ASSUME Types, Control, NEW t \in Threads, pc[t] = "take"
  PROVE  /\ next[t] \in Steps \ {"create", "recheck"}
         /\ next[t] \in Requests(call[t].what)
  <1>1. call[t] \in Calls /\ next[t] \in Requests(call[t].what)
    BY DEF Control, Waiting
  <1>2. call[t].what \in Whats
    BY <1>1, CallShape
  <1> QED BY <1>1, <1>2 DEF Requests, Whats, Writes, Ensures, Steps

(* A null store never fails. *)
LEMMA NullAnswers ==
  ASSUME NEW what
  PROVE  /\ NullAnswer(what) \in {"ok", "absent"}
         /\ what \in Ensures => NullAnswer(what) = "ok"
  BY DEF NullAnswer, Ensures

(* A key has one form, so its points have one id. *)
LEMMA OnePoint == IInv => OnePointPerKey
  <1> SUFFICES ASSUME IInv, service = "qdrant", NEW a \in Slots, NEW b \in Slots,
                      items[a].key = items[b].key
               PROVE  a = b
    BY DEF OnePointPerKey
  <1>1. PICK i \in Ids : a = NormalisePointId(i) /\ items[a].key = i.key
    BY DEF IInv, Addressed
  <1>2. PICK j \in Ids : b = NormalisePointId(j) /\ items[b].key = j.key
    BY DEF IInv, Addressed
  <1>3. i.key = j.key /\ i.form = j.form
    BY <1>1, <1>2, FormAssumption
  <1> QED BY <1>1, <1>2, <1>3 DEF NormalisePointId

(* What a thread about to write, or to look for an object, was called for. *)
LEMMA Writing ==
  ASSUME Control, NEW t \in Threads
  PROVE  /\ pc[t] = "put" =>
              /\ service = "s3" /\ call[t].what \in {"put", "put_content_addressed"}
              /\ \/ \E d \in Contents : call[t].at = ContentKey(d) /\ call[t].put = d
                 \/ \E n \in Names : call[t].at = <<"name", n>>
         /\ pc[t] = "upsert" =>
              /\ service # "s3" /\ call[t].what = "upsert"
              /\ \E i \in Ids : call[t].at = NormalisePointId(i) /\ call[t].put.key = i.key
  <1>1. CASE pc[t] = "put"
    <2>1. call[t] \in Calls /\ call[t].what \in {"put", "put_content_addressed"}
      BY <1>1 DEF Control, Steps, Requests, Ensures
    <2> QED BY <1>1, <2>1, CallShape DEF Writes
  <1>2. CASE pc[t] = "upsert"
    <2>1. call[t] \in Calls /\ call[t].what = "upsert"
      BY <1>2 DEF Control, Steps, Requests, Ensures
    <2> QED BY <1>2, <2>1, CallShape
  <1> QED BY <1>1, <1>2

(* Ensuring a container makes no outcome untrue: a container that is there *)
(* is not made again.                                                      *)
LEMMA EnsuredStep ==
  ASSUME IInv, NEW t \in Threads, NEW shape, shape # Absent,
         call[t].what \in Ensures, Exists(t) \/ Create(t, shape) \/ Recheck(t)
  PROVE  OutcomeIsTrue'
  <1> SUFFICES ASSUME NEW u \in Threads, pc'[u] = "idle", enabled', kept'[u]
               PROVE  Holds(call[u], res[u])'
    BY DEF OutcomeIsTrue
  <1> USE DEF IInv, Types, conf, there, local, past, Goto
  <1>1. /\ call' = call /\ items' = items /\ kept' = kept /\ enabled' = enabled
        /\ container' # Absent \/ container' = container
    BY DEF Exists, Create, Recheck, Finish
  <1>2. CASE u = t
    <2>1. res'[t] = "ok" => container' # Absent
      BY <1>2 DEF Exists, Create, Recheck, Finish, Thrown
    <2>2. res'[t] \notin {"found", "absent"}
      BY <1>2 DEF Exists, Create, Recheck, Finish, Thrown
    <2> QED BY <1>1, <1>2, <2>1, <2>2 DEF Holds, Ensures, Writes
  <1>3. CASE u # t
    <2>1. pc[u] = "idle" /\ res'[u] = res[u]
      BY <1>3 DEF Exists, Create, Recheck, Finish, Saw
    <2>2. Holds(call[u], res[u])
      BY <1>1, <2>1 DEF OutcomeIsTrue
    <2> QED BY <1>1, <2>1, <2>2 DEF Holds, Slots
  <1> QED BY <1>2, <1>3

(* Nor does a write: who speaks of its slot otherwise is Overtaken.        *)
LEMMA CarriedStep ==
  ASSUME IInv, NEW t \in Threads, Carried(t), call[t].what \in Writes
  PROVE  OutcomeIsTrue'
  <1> SUFFICES ASSUME NEW u \in Threads, pc'[u] = "idle", enabled', kept'[u]
               PROVE  Holds(call[u], res[u])'
    BY DEF OutcomeIsTrue
  <1> USE DEF IInv, Types, conf
  <1>1. /\ call' = call /\ container' = container /\ enabled' = enabled
        /\ pc' = [pc EXCEPT ![t] = "idle"]
        /\ \E r \in {"ok", "StoreError", "raw"} : res' = [res EXCEPT ![t] = r]
    BY DEF Carried, Finish, Goto, Thrown
  <1>2. PutItem(t)
    BY DEF Carried
  <1>3. CASE u = t
    <2>1. res'[t] \in {"ok", "StoreError", "raw"}
      BY <1>1
    <2> QED BY <1>1, <1>2, <1>3, <2>1, PutItemShape DEF Holds, Slots, Ensures,
               Writes
  <1>4. CASE u # t
    <2>1. pc[u] = "idle" /\ res'[u] = res[u]
      BY <1>1, <1>4
    <2>2. kept[u] /\ u \notin Overtaken(call[t].at, call[t].put)
      BY <1>4 DEF Carried
    <2>3. Holds(call[u], res[u])
      BY <1>1, <2>1, <2>2 DEF OutcomeIsTrue
    <2>4. call[u].at = call[t].at => call[u].what \in Writes /\ call[u].put = call[t].put
      BY <2>2 DEF Overtaken
    <2>5. CASE call[u].at = call[t].at
      <3>1. call[u].at \in Slots' /\ items'[call[u].at] = call[u].put
        BY <1>2, <2>4, <2>5, PutItemShape DEF Slots
      <3>2. call[u].what \notin {"get", "exists"}
        BY <2>4, <2>5 DEF Writes
      <3> QED BY <1>1, <2>1, <2>3, <3>1, <3>2 DEF Holds
    <2>6. CASE call[u].at # call[t].at
      <3>1. /\ call[u].at \in Slots' <=> call[u].at \in Slots
            /\ call[u].at \in Slots => items'[call[u].at] = items[call[u].at]
        BY <1>2, <2>6, PutItemShape DEF Slots
      <3> QED BY <1>1, <2>1, <2>3, <3>1 DEF Holds
    <2> QED BY <2>5, <2>6
  <1> QED BY <1>3, <1>4

(* The end of a call that says nothing. *)
LEMMA QuietEnd ==
  ASSUME IInv, NEW t \in Threads, NEW r \in {"StoreError", "raw"}, Finish(t, r),
         UNCHANGED <<enabled, there, kept>>
  PROVE  OutcomeIsTrue'
  BY DEF IInv, Types, OutcomeIsTrue, Holds, Slots, Finish, Goto, there

-----------------------------------------------------------------------------
(* Every step keeps each part of the invariant. *)

(* Types. *)
LEMMA TypesStep == Types /\ Control /\ [Next]_vars => Types'
  <1> SUFFICES ASSUME Types, Control, [Next]_vars PROVE Types'
    OBVIOUS
  <1> USE DEF Types, Steps, Waiting, Closing, conf, there, local, past
  <1>1. ASSUME NEW t \in Threads, Call(t) PROVE Types'
    BY <1>1 DEF Call, Goto
  <1>2. ASSUME NEW t \in Threads, CallNull(t) PROVE Types'
    BY <1>2 DEF CallNull
  <1>3. ASSUME NEW t \in Threads, Look(t) PROVE Types'
    BY <1>3 DEF Look, Goto
  <1>4. ASSUME NEW t \in Threads, MakeClient(t) PROVE Types'
    BY <1>4 DEF MakeClient, Goto
  <1>5. ASSUME NEW t \in Threads, MakeFails(t) PROVE Types'
    BY <1>5 DEF MakeFails, DriverFails, Thrown, Finish, Goto, Saw
  <1>5a. ASSUME NEW t \in Threads, ModelFails(t) PROVE Types'
    BY <1>5a DEF ModelFails, DriverFails, Thrown, Finish, Goto, Saw
  <1>6. ASSUME NEW t \in Threads, Take(t) PROVE Types'
    BY <1>6, TakenStep DEF Take, Finish, Goto
  <1>7. ASSUME NEW t \in Threads, Fault(t) PROVE Types'
    BY <1>7 DEF Fault, Finish, Goto, Saw
  <1>8. ASSUME NEW t \in Threads, ClosedClient(t) PROVE Types'
    BY <1>8 DEF ClosedClient, Finish, Goto
  <1>9. ASSUME NEW t \in Threads, EnsureBucket(t) PROVE Types'
    BY <1>9 DEF EnsureBucket, Exists, Create, Recheck, Finish, Goto, Saw
  <1>10. ASSUME NEW t \in Threads, EnsureCollection(t) PROVE Types'
    BY <1>10 DEF EnsureCollection, Exists, Create, Recheck, Finish, Goto, Saw
  <1>11. ASSUME NEW t \in Threads, Put(t) PROVE Types'
    <2>1. kept' \in [Threads -> BOOLEAN]
      BY <1>11 DEF Put, Carried, Refused
    <2> QED BY <1>11, <2>1 DEF Put, Carried, Refused, Finish, Goto, Saw
  <1>12. ASSUME NEW t \in Threads, Upsert(t) PROVE Types'
    <2>1. kept' \in [Threads -> BOOLEAN]
      BY <1>12 DEF Upsert, Carried, Refused
    <2> QED BY <1>12, <2>1 DEF Upsert, Carried, Refused, Finish, Goto, Saw
  <1>13. ASSUME NEW t \in Threads, Get(t) PROVE Types'
    BY <1>13 DEF Get, Missing, Finish, Goto
  <1>14. ASSUME NEW t \in Threads, Stat(t) PROVE Types'
    BY <1>14 DEF Stat, Missing, Finish, Goto
  <1>15. ASSUME NEW t \in Threads, PutContentAddressed(t) PROVE Types'
    BY <1>15 DEF PutContentAddressed, Missing, Finish, Goto
  <1>16. ASSUME NEW t \in Threads, Search(t) PROVE Types'
    BY <1>16 DEF Search, Finish, Goto
  <1>17. ASSUME NEW t \in Threads, Url(t) PROVE Types'
    BY <1>17 DEF Url, Finish, Goto
  <1>18. ASSUME NEW t \in Threads, IfClient(t) PROVE Types'
    BY <1>18 DEF IfClient, Finish, Goto
  <1>19. ASSUME NEW t \in Threads, CloseClient(t) PROVE Types'
    BY <1>19 DEF CloseClient, Goto
  <1>20. ASSUME NEW t \in Threads, DropClient(t) PROVE Types'
    BY <1>20 DEF DropClient, Goto
  <1>21. CASE RemoveItem
    BY <1>21 DEF RemoveItem
  <1>22. CASE RemoveContainer
    BY <1>22 DEF RemoveContainer
  <1>23. CASE UNCHANGED vars
    BY <1>23 DEF vars
  <1> QED
    BY <1>1, <1>2, <1>3, <1>4, <1>5, <1>5a, <1>6, <1>7, <1>8, <1>9, <1>10, <1>11,
       <1>12, <1>13, <1>14, <1>15, <1>16, <1>17, <1>18, <1>19, <1>20, <1>21,
       <1>22, <1>23 DEF Next, Step

(* A call goes through the places that belong to it, and a call that is   *)
(* over has ended somehow.                                                 *)
LEMMA ControlStep == Types /\ Control /\ [Next]_vars => Control'
  <1> SUFFICES ASSUME Types, Control, [Next]_vars PROVE Control'
    OBVIOUS
  <1> USE DEF Types, Control, Steps, Waiting, Closing, Calls, Thrown, conf,
          there, local, past
  <1>1. ASSUME NEW t \in Threads, Call(t) PROVE Control'
    <2>1. PICK c \in Calls :
            /\ call' = [call EXCEPT ![t] = c]
            /\ next' = [next EXCEPT ![t] = FirstStep(c.what)]
            /\ Goto(t, IF c.what = "close" THEN "ifclient" ELSE "look")
      BY <1>1 DEF Call
    <2>2. FirstStep(c.what) \in Requests(c.what) \/ c.what = "close"
      BY CallShape
    <2> QED BY <1>1, <2>1, <2>2 DEF Call, Goto
  <1>2. ASSUME NEW t \in Threads, CallNull(t) PROVE Control'
    BY <1>2, NullAnswers DEF CallNull
  <1>3. ASSUME NEW t \in Threads, Look(t) PROVE Control'
    BY <1>3 DEF Look, Goto
  <1>4. ASSUME NEW t \in Threads, MakeClient(t) PROVE Control'
    BY <1>4 DEF MakeClient, Goto
  <1>5. ASSUME NEW t \in Threads, MakeFails(t) PROVE Control'
    BY <1>5 DEF MakeFails, DriverFails, Thrown, Finish, Goto, Saw
  <1>5a. ASSUME NEW t \in Threads, ModelFails(t) PROVE Control'
    BY <1>5a DEF ModelFails, DriverFails, Thrown, Finish, Goto, Saw
  <1>6. ASSUME NEW t \in Threads, Take(t) PROVE Control'
    BY <1>6, TakenStep DEF Take, Finish, Goto
  <1>7. ASSUME NEW t \in Threads, Fault(t) PROVE Control'
    BY <1>7 DEF Fault, Finish, Goto, Saw
  <1>8. ASSUME NEW t \in Threads, ClosedClient(t) PROVE Control'
    BY <1>8 DEF ClosedClient, Finish, Goto
  <1>9. ASSUME NEW t \in Threads, EnsureBucket(t) PROVE Control'
    BY <1>9 DEF Requests, Ensures, EnsureBucket, Exists, Create, Recheck,
       Finish, Goto, Saw
  <1>10. ASSUME NEW t \in Threads, EnsureCollection(t) PROVE Control'
    BY <1>10 DEF Requests, Ensures, EnsureCollection, Exists, Create, Recheck,
       Finish, Goto, Saw
  <1>11. ASSUME NEW t \in Threads, Put(t) PROVE Control'
    BY <1>11 DEF Put, Carried, Refused, Finish, Goto, Saw
  <1>12. ASSUME NEW t \in Threads, Upsert(t) PROVE Control'
    BY <1>12 DEF Upsert, Carried, Refused, Finish, Goto, Saw
  <1>13. ASSUME NEW t \in Threads, Get(t) PROVE Control'
    BY <1>13 DEF Get, Missing, Finish, Goto
  <1>14. ASSUME NEW t \in Threads, Stat(t) PROVE Control'
    BY <1>14 DEF Stat, Missing, Finish, Goto
  <1>15. ASSUME NEW t \in Threads, PutContentAddressed(t) PROVE Control'
    BY <1>15 DEF Requests, Ensures, PutContentAddressed, Missing, Finish, Goto
  <1>16. ASSUME NEW t \in Threads, Search(t) PROVE Control'
    BY <1>16 DEF Search, Finish, Goto
  <1>17. ASSUME NEW t \in Threads, Url(t) PROVE Control'
    BY <1>17 DEF Url, Finish, Goto
  <1>18. ASSUME NEW t \in Threads, IfClient(t) PROVE Control'
    BY <1>18 DEF IfClient, Finish, Goto
  <1>19. ASSUME NEW t \in Threads, CloseClient(t) PROVE Control'
    BY <1>19 DEF CloseClient, Goto
  <1>20. ASSUME NEW t \in Threads, DropClient(t) PROVE Control'
    BY <1>20 DEF DropClient, Goto
  <1>21. CASE RemoveItem
    BY <1>21 DEF RemoveItem
  <1>22. CASE RemoveContainer
    BY <1>22 DEF RemoveContainer
  <1>23. CASE UNCHANGED vars
    BY <1>23 DEF vars
  <1> QED
    BY <1>1, <1>2, <1>3, <1>4, <1>5, <1>5a, <1>6, <1>7, <1>8, <1>9, <1>10, <1>11,
       <1>12, <1>13, <1>14, <1>15, <1>16, <1>17, <1>18, <1>19, <1>20, <1>21,
       <1>22, <1>23 DEF Next, Step

(* The client is taken away only by close(), which every call under way    *)
(* has seen.                                                               *)
LEMMA ClientsStep == Types /\ Control /\ Clients /\ [Next]_vars => Clients'
  <1> SUFFICES ASSUME Types, Control, Clients, [Next]_vars PROVE Clients'
    OBVIOUS
  <1> USE DEF Types, Control, Clients, Steps, Waiting, Closing, Requests,
          Ensures, conf, there, local, past
  <1>1. ASSUME NEW t \in Threads, Call(t) PROVE Clients'
    BY <1>1 DEF Call, Goto
  <1>2. ASSUME NEW t \in Threads, CallNull(t) PROVE Clients'
    BY <1>2 DEF CallNull
  <1>3. ASSUME NEW t \in Threads, Look(t) PROVE Clients'
    BY <1>3 DEF Look, Goto
  <1>4. ASSUME NEW t \in Threads, MakeClient(t) PROVE Clients'
    BY <1>4 DEF MakeClient, Goto
  <1>5. ASSUME NEW t \in Threads, MakeFails(t) PROVE Clients'
    BY <1>5 DEF MakeFails, DriverFails, Thrown, Finish, Goto, Saw
  <1>5a. ASSUME NEW t \in Threads, ModelFails(t) PROVE Clients'
    BY <1>5a DEF ModelFails, DriverFails, Thrown, Finish, Goto, Saw
  <1>6. ASSUME NEW t \in Threads, Take(t) PROVE Clients'
    BY <1>6, TakenStep DEF Take, Finish, Goto
  <1>7. ASSUME NEW t \in Threads, Fault(t) PROVE Clients'
    BY <1>7 DEF Fault, Finish, Goto, Saw
  <1>8. ASSUME NEW t \in Threads, ClosedClient(t) PROVE Clients'
    BY <1>8 DEF ClosedClient, Finish, Goto
  <1>9. ASSUME NEW t \in Threads, EnsureBucket(t) PROVE Clients'
    BY <1>9 DEF EnsureBucket, Exists, Create, Recheck, Finish, Goto, Saw
  <1>10. ASSUME NEW t \in Threads, EnsureCollection(t) PROVE Clients'
    BY <1>10 DEF EnsureCollection, Exists, Create, Recheck, Finish, Goto, Saw
  <1>11. ASSUME NEW t \in Threads, Put(t) PROVE Clients'
    BY <1>11 DEF Put, Carried, Refused, Finish, Goto, Saw
  <1>12. ASSUME NEW t \in Threads, Upsert(t) PROVE Clients'
    BY <1>12 DEF Upsert, Carried, Refused, Finish, Goto, Saw
  <1>13. ASSUME NEW t \in Threads, Get(t) PROVE Clients'
    BY <1>13 DEF Get, Missing, Finish, Goto
  <1>14. ASSUME NEW t \in Threads, Stat(t) PROVE Clients'
    BY <1>14 DEF Stat, Missing, Finish, Goto
  <1>15. ASSUME NEW t \in Threads, PutContentAddressed(t) PROVE Clients'
    BY <1>15 DEF PutContentAddressed, Missing, Finish, Goto
  <1>16. ASSUME NEW t \in Threads, Search(t) PROVE Clients'
    BY <1>16 DEF Search, Finish, Goto
  <1>17. ASSUME NEW t \in Threads, Url(t) PROVE Clients'
    BY <1>17 DEF Url, Finish, Goto
  <1>18. ASSUME NEW t \in Threads, IfClient(t) PROVE Clients'
    BY <1>18 DEF IfClient, Finish, Goto
  <1>19. ASSUME NEW t \in Threads, CloseClient(t) PROVE Clients'
    BY <1>19 DEF CloseClient, Goto
  <1>20. ASSUME NEW t \in Threads, DropClient(t) PROVE Clients'
    BY <1>20 DEF DropClient, Goto
  <1>21. CASE RemoveItem
    BY <1>21 DEF RemoveItem
  <1>22. CASE RemoveContainer
    BY <1>22 DEF RemoveContainer
  <1>23. CASE UNCHANGED vars
    BY <1>23 DEF vars
  <1> QED
    BY <1>1, <1>2, <1>3, <1>4, <1>5, <1>5a, <1>6, <1>7, <1>8, <1>9, <1>10, <1>11,
       <1>12, <1>13, <1>14, <1>15, <1>16, <1>17, <1>18, <1>19, <1>20, <1>21,
       <1>22, <1>23 DEF Next, Step

(* A creation that failed for no fault of the service was too late: the    *)
(* container is there, and only a removal takes it away.                   *)
LEMMA SecondLookStep == Types /\ Control /\ SecondLook /\ [Next]_vars => SecondLook'
  <1> SUFFICES ASSUME Types, Control, SecondLook, [Next]_vars PROVE SecondLook'
    OBVIOUS
  <1> USE DEF Types, SecondLook, Control, Steps, Waiting, Requests, Ensures,
          Absent, conf, there, local, past
  <1>1. ASSUME NEW t \in Threads, Call(t) PROVE SecondLook'
    BY <1>1 DEF Call, Goto
  <1>2. ASSUME NEW t \in Threads, CallNull(t) PROVE SecondLook'
    BY <1>2 DEF CallNull
  <1>3. ASSUME NEW t \in Threads, Look(t) PROVE SecondLook'
    BY <1>3 DEF Look, Goto
  <1>4. ASSUME NEW t \in Threads, MakeClient(t) PROVE SecondLook'
    BY <1>4 DEF MakeClient, Goto
  <1>5. ASSUME NEW t \in Threads, MakeFails(t) PROVE SecondLook'
    BY <1>5 DEF MakeFails, DriverFails, Thrown, Finish, Goto, Saw
  <1>5a. ASSUME NEW t \in Threads, ModelFails(t) PROVE SecondLook'
    BY <1>5a DEF ModelFails, DriverFails, Thrown, Finish, Goto, Saw
  <1>6. ASSUME NEW t \in Threads, Take(t) PROVE SecondLook'
    BY <1>6, TakenStep DEF Take, Finish, Goto
  <1>7. ASSUME NEW t \in Threads, Fault(t) PROVE SecondLook'
    BY <1>7 DEF Fault, Finish, Goto, Saw
  <1>8. ASSUME NEW t \in Threads, ClosedClient(t) PROVE SecondLook'
    BY <1>8 DEF ClosedClient, Finish, Goto
  <1>9. ASSUME NEW t \in Threads, EnsureBucket(t) PROVE SecondLook'
    BY <1>9, SMTT(30) DEF EnsureBucket, Exists, Create, Recheck, Finish, Goto, Saw
  <1>10. ASSUME NEW t \in Threads, EnsureCollection(t) PROVE SecondLook'
    BY <1>10 DEF EnsureCollection, Exists, Create, Recheck, Finish, Goto, Saw
  <1>11. ASSUME NEW t \in Threads, Put(t) PROVE SecondLook'
    BY <1>11 DEF Put, Carried, Refused, Finish, Goto, Saw
  <1>12. ASSUME NEW t \in Threads, Upsert(t) PROVE SecondLook'
    BY <1>12 DEF Upsert, Carried, Refused, Finish, Goto, Saw
  <1>13. ASSUME NEW t \in Threads, Get(t) PROVE SecondLook'
    BY <1>13 DEF Get, Missing, Finish, Goto
  <1>14. ASSUME NEW t \in Threads, Stat(t) PROVE SecondLook'
    BY <1>14 DEF Stat, Missing, Finish, Goto
  <1>15. ASSUME NEW t \in Threads, PutContentAddressed(t) PROVE SecondLook'
    BY <1>15 DEF PutContentAddressed, Missing, Finish, Goto
  <1>16. ASSUME NEW t \in Threads, Search(t) PROVE SecondLook'
    BY <1>16 DEF Search, Finish, Goto
  <1>17. ASSUME NEW t \in Threads, Url(t) PROVE SecondLook'
    BY <1>17 DEF Url, Finish, Goto
  <1>18. ASSUME NEW t \in Threads, IfClient(t) PROVE SecondLook'
    BY <1>18 DEF IfClient, Finish, Goto
  <1>19. ASSUME NEW t \in Threads, CloseClient(t) PROVE SecondLook'
    BY <1>19 DEF CloseClient, Goto
  <1>20. ASSUME NEW t \in Threads, DropClient(t) PROVE SecondLook'
    BY <1>20 DEF DropClient, Goto
  <1>21. CASE RemoveItem
    BY <1>21 DEF RemoveItem
  <1>22. CASE RemoveContainer
    BY <1>22 DEF RemoveContainer
  <1>23. CASE UNCHANGED vars
    BY <1>23 DEF vars
  <1> QED
    BY <1>1, <1>2, <1>3, <1>4, <1>5, <1>5a, <1>6, <1>7, <1>8, <1>9, <1>10, <1>11,
       <1>12, <1>13, <1>14, <1>15, <1>16, <1>17, <1>18, <1>19, <1>20, <1>21,
       <1>22, <1>23 DEF Next, Step

(* Only a write adds an item, at the slot of what it stores.               *)
LEMMA AddressedStep == Control /\ Addressed /\ [Next]_vars => Addressed'
  <1> SUFFICES ASSUME Control, Addressed, [Next]_vars PROVE Addressed'
    OBVIOUS
  <1> USE DEF Addressed, Slots, conf, there, local, past
  <1>1. ASSUME NEW t \in Threads, Call(t) PROVE Addressed'
    BY <1>1 DEF Call, Goto
  <1>2. ASSUME NEW t \in Threads, CallNull(t) PROVE Addressed'
    BY <1>2 DEF CallNull
  <1>3. ASSUME NEW t \in Threads, Look(t) PROVE Addressed'
    BY <1>3 DEF Look, Goto
  <1>4. ASSUME NEW t \in Threads, MakeClient(t) PROVE Addressed'
    BY <1>4 DEF MakeClient, Goto
  <1>5. ASSUME NEW t \in Threads, MakeFails(t) PROVE Addressed'
    BY <1>5 DEF MakeFails, DriverFails, Thrown, Finish, Goto, Saw
  <1>5a. ASSUME NEW t \in Threads, ModelFails(t) PROVE Addressed'
    BY <1>5a DEF ModelFails, DriverFails, Thrown, Finish, Goto, Saw
  <1>6. ASSUME NEW t \in Threads, Take(t) PROVE Addressed'
    BY <1>6 DEF Take, Finish, Goto
  <1>7. ASSUME NEW t \in Threads, Fault(t) PROVE Addressed'
    BY <1>7 DEF Fault, Finish, Goto, Saw
  <1>8. ASSUME NEW t \in Threads, ClosedClient(t) PROVE Addressed'
    BY <1>8 DEF ClosedClient, Finish, Goto
  <1>9. ASSUME NEW t \in Threads, EnsureBucket(t) PROVE Addressed'
    BY <1>9 DEF EnsureBucket, Exists, Create, Recheck, Finish, Goto, Saw
  <1>10. ASSUME NEW t \in Threads, EnsureCollection(t) PROVE Addressed'
    BY <1>10 DEF EnsureCollection, Exists, Create, Recheck, Finish, Goto, Saw
  <1>11. ASSUME NEW t \in Threads, Put(t) PROVE Addressed'
    <2>1. CASE UNCHANGED items
      BY <1>11, <2>1 DEF Put, Carried, Refused
    <2>2. CASE PutItem(t)
      BY <1>11, <2>2, PutItemShape, Writing, ZenonT(90) DEF Put, Carried, Refused
    <2> QED BY <1>11, <2>1, <2>2 DEF Put, Carried, Refused
  <1>12. ASSUME NEW t \in Threads, Upsert(t) PROVE Addressed'
    <2>1. CASE UNCHANGED items
      BY <1>12, <2>1 DEF Upsert, Carried, Refused
    <2>2. CASE PutItem(t)
      <3>1. service # "s3" /\ service' = service
        BY <1>12, Writing DEF Upsert, Carried, Refused
      <3>2. PICK i \in Ids : call[t].at = NormalisePointId(i) /\ call[t].put.key = i.key
        BY <1>12, Writing DEF Upsert
      <3> QED BY <2>2, <3>1, <3>2, PutItemShape
    <2> QED BY <1>12, <2>1, <2>2 DEF Upsert, Carried, Refused
  <1>13. ASSUME NEW t \in Threads, Get(t) PROVE Addressed'
    BY <1>13 DEF Get, Missing, Finish, Goto
  <1>14. ASSUME NEW t \in Threads, Stat(t) PROVE Addressed'
    BY <1>14 DEF Stat, Missing, Finish, Goto
  <1>15. ASSUME NEW t \in Threads, PutContentAddressed(t) PROVE Addressed'
    BY <1>15 DEF PutContentAddressed, Missing, Finish, Goto
  <1>16. ASSUME NEW t \in Threads, Search(t) PROVE Addressed'
    BY <1>16 DEF Search, Finish, Goto
  <1>17. ASSUME NEW t \in Threads, Url(t) PROVE Addressed'
    BY <1>17 DEF Url, Finish, Goto
  <1>18. ASSUME NEW t \in Threads, IfClient(t) PROVE Addressed'
    BY <1>18 DEF IfClient, Finish, Goto
  <1>19. ASSUME NEW t \in Threads, CloseClient(t) PROVE Addressed'
    BY <1>19 DEF CloseClient, Goto
  <1>20. ASSUME NEW t \in Threads, DropClient(t) PROVE Addressed'
    BY <1>20 DEF DropClient, Goto
  <1>21. CASE RemoveItem
    BY <1>21 DEF RemoveItem
  <1>22. CASE RemoveContainer
    BY <1>22 DEF RemoveContainer
  <1>23. CASE UNCHANGED vars
    BY <1>23 DEF vars
  <1> QED
    BY <1>1, <1>2, <1>3, <1>4, <1>5, <1>5a, <1>6, <1>7, <1>8, <1>9, <1>10, <1>11,
       <1>12, <1>13, <1>14, <1>15, <1>16, <1>17, <1>18, <1>19, <1>20, <1>21,
       <1>22, <1>23 DEF Next, Step

(* What was said stays true: by an action of its own call, since it was    *)
(* just observed; by another's, since kept is given up with it.            *)
LEMMA OutcomeStep == IInv /\ [Next]_vars => OutcomeIsTrue'
  <1> SUFFICES ASSUME IInv, [Next]_vars PROVE OutcomeIsTrue'
    OBVIOUS
  <1> USE DEF IInv, Types, OutcomeIsTrue, Absent, conf, there, local, past
  <1>1. ASSUME NEW t \in Threads, Call(t) PROVE OutcomeIsTrue'
    BY <1>1 DEF Holds, Slots, Call, Goto
  <1>2. ASSUME NEW t \in Threads, CallNull(t) PROVE OutcomeIsTrue'
    BY <1>2 DEF Holds, Slots, CallNull
  <1>3. ASSUME NEW t \in Threads, Look(t) PROVE OutcomeIsTrue'
    BY <1>3 DEF Holds, Slots, Look, Goto
  <1>4. ASSUME NEW t \in Threads, MakeClient(t) PROVE OutcomeIsTrue'
    BY <1>4 DEF Holds, Slots, MakeClient, Goto
  <1>5. ASSUME NEW t \in Threads, MakeFails(t) PROVE OutcomeIsTrue'
    BY <1>5, QuietEnd DEF Thrown, MakeFails, DriverFails
  <1>5a. ASSUME NEW t \in Threads, ModelFails(t) PROVE OutcomeIsTrue'
    BY <1>5a, QuietEnd DEF Thrown, ModelFails, DriverFails
  <1>6. ASSUME NEW t \in Threads, Take(t) PROVE OutcomeIsTrue'
    BY <1>6, TakenStep DEF Holds, Slots, Thrown, Steps, Take, Finish, Goto
  <1>7. ASSUME NEW t \in Threads, Fault(t) PROVE OutcomeIsTrue'
    BY <1>7, QuietEnd DEF Thrown, Fault
  <1>8. ASSUME NEW t \in Threads, ClosedClient(t) PROVE OutcomeIsTrue'
    BY <1>8, QuietEnd DEF Thrown, ClosedClient
  <1>9. ASSUME NEW t \in Threads, EnsureBucket(t) PROVE OutcomeIsTrue'
    <2>1. "bucket" # Absent
      BY DEF Absent
    <2> QED BY <1>9, <2>1, EnsuredStep DEF EnsureBucket, Ensures
  <1>10. ASSUME NEW t \in Threads, EnsureCollection(t) PROVE OutcomeIsTrue'
    <2>1. CASE pc[t] = "create"
      <3>1. call[t].put \in Dims
        BY <1>10, <2>1, CallShape DEF EnsureCollection, Control
      <3>2. call[t].put # Absent
        BY <3>1, DimAssumption DEF Absent
      <3> QED BY <1>10, <3>2, EnsuredStep DEF EnsureCollection, Ensures
    <2>2. CASE pc[t] # "create"
      <3>1. Exists(t) \/ Recheck(t)
        BY <1>10, <2>2 DEF EnsureCollection, Create
      <3>2. call[t].what \in Ensures /\ "bucket" # Absent
        BY <1>10 DEF EnsureCollection, Ensures, Absent
      <3> QED BY <3>1, <3>2, EnsuredStep
    <2> QED BY <2>1, <2>2
  <1>11. ASSUME NEW t \in Threads, Put(t) PROVE OutcomeIsTrue'
    <2>1. call[t].what \in Writes
      BY <1>11, Writing DEF Put, Writes
    <2>2. CASE Refused(t)
      BY <2>2, QuietEnd DEF Refused, Thrown
    <2> QED BY <1>11, <2>1, <2>2, CarriedStep DEF Put
  <1>12. ASSUME NEW t \in Threads, Upsert(t) PROVE OutcomeIsTrue'
    <2>1. call[t].what \in Writes
      BY <1>12, Writing DEF Upsert, Writes
    <2>2. CASE Refused(t)
      BY <2>2, QuietEnd DEF Refused, Thrown
    <2> QED BY <1>12, <2>1, <2>2, CarriedStep DEF Upsert
  <1>13. ASSUME NEW t \in Threads, Get(t) PROVE OutcomeIsTrue'
    BY <1>13 DEF Codes, NotFoundCodes, Thrown, Holds, Slots, Control, Steps,
       Requests, Ensures, Writes, Get, Missing, Finish, Goto
  <1>14. ASSUME NEW t \in Threads, Stat(t) PROVE OutcomeIsTrue'
    BY <1>14 DEF Codes, NotFoundCodes, Thrown, Holds, Slots, Ensures, Writes,
       Stat, Missing, Finish, Goto
  <1>15. ASSUME NEW t \in Threads, PutContentAddressed(t) PROVE OutcomeIsTrue'
    <2>1. call[t].at \in Slots => items[call[t].at] = call[t].put
      <3> SUFFICES ASSUME call[t].at \in Slots PROVE items[call[t].at] = call[t].put
        OBVIOUS
      <3>1. call[t] \in Calls /\ call[t].what = "put_content_addressed"
        BY <1>15 DEF PutContentAddressed, Control, Steps
      <3>2. service = "s3" /\ \E d \in Contents : call[t].at = ContentKey(d) /\ call[t].put = d
        BY <3>1, CallShape DEF Writes
      <3> QED BY <3>2 DEF Addressed, ContentKey
    <2> QED
      BY <1>15, <2>1 DEF Thrown, Holds, Ensures, Writes, Slots,
         PutContentAddressed, Missing, Finish, Goto
  <1>16. ASSUME NEW t \in Threads, Search(t) PROVE OutcomeIsTrue'
    BY <1>16 DEF Thrown, Holds, Slots, Control, Steps, Requests, Ensures,
       Writes, Search, Finish, Goto
  <1>17. ASSUME NEW t \in Threads, Url(t) PROVE OutcomeIsTrue'
    BY <1>17 DEF Thrown, Holds, Slots, Control, Steps, Requests, Ensures,
       Writes, Url, Finish, Goto
  <1>18. ASSUME NEW t \in Threads, IfClient(t) PROVE OutcomeIsTrue'
    BY <1>18 DEF Holds, Slots, Control, Closing, Ensures, Writes, IfClient,
       Finish, Goto
  <1>19. ASSUME NEW t \in Threads, CloseClient(t) PROVE OutcomeIsTrue'
    BY <1>19 DEF Holds, Slots, CloseClient, Goto
  <1>20. ASSUME NEW t \in Threads, DropClient(t) PROVE OutcomeIsTrue'
    BY <1>20 DEF Holds, Slots, Control, Closing, Ensures, Writes, DropClient,
       Goto
  <1>21. CASE RemoveItem
    <2> SUFFICES ASSUME NEW u \in Threads, pc'[u] = "idle", enabled', kept'[u]
                 PROVE  Holds(call[u], res[u])'
      BY DEF OutcomeIsTrue
    <2>1. PICK slot \in Slots :
            /\ items' = [s \in Slots \ {slot} |-> items[s]]
            /\ kept' = [v \in Threads |-> kept[v] /\ call[v].at # slot]
      BY <1>21 DEF RemoveItem
    <2>2. Holds(call[u], res[u]) /\ call[u].at # slot
      BY <1>21, <2>1 DEF RemoveItem
    <2> QED BY <1>21, <2>1, <2>2 DEF RemoveItem, Holds, Slots
  <1>22. CASE RemoveContainer
    BY <1>22 DEF RemoveContainer
  <1>23. CASE UNCHANGED vars
    BY <1>23 DEF vars, Holds, Slots
  <1> QED
    BY <1>1, <1>2, <1>3, <1>4, <1>5, <1>5a, <1>6, <1>7, <1>8, <1>9, <1>10, <1>11,
       <1>12, <1>13, <1>14, <1>15, <1>16, <1>17, <1>18, <1>19, <1>20, <1>21,
       <1>22, <1>23 DEF Next, Step

(* An ensuring call fails only by a fault, a close or a removal.           *)
LEMMA RaceStep == IInv /\ [Next]_vars => RaceIsNotFailure'
  <1> SUFFICES ASSUME IInv, [Next]_vars PROVE RaceIsNotFailure'
    OBVIOUS
  <1> USE DEF IInv, Types, Control, Clients, SecondLook, RaceIsNotFailure,
          Steps, Waiting, Closing, Requests, Ensures, Absent, conf, there,
          local, past
  <1>1. ASSUME NEW t \in Threads, Call(t) PROVE RaceIsNotFailure'
    BY <1>1 DEF Call, Goto
  <1>2. ASSUME NEW t \in Threads, CallNull(t) PROVE RaceIsNotFailure'
    BY <1>2, NullAnswers DEF CallNull
  <1>3. ASSUME NEW t \in Threads, Look(t) PROVE RaceIsNotFailure'
    BY <1>3 DEF Look, Goto
  <1>4. ASSUME NEW t \in Threads, MakeClient(t) PROVE RaceIsNotFailure'
    BY <1>4 DEF MakeClient, Goto
  <1>5. ASSUME NEW t \in Threads, MakeFails(t) PROVE RaceIsNotFailure'
    <2>1. /\ pc' = [pc EXCEPT ![t] = "idle"] /\ UNCHANGED call
          /\ \E x \in {"fault", "refused"} : seen' = [seen EXCEPT ![t] = @ \cup {x}]
          /\ \A u \in Threads \ {t} : res'[u] = res[u]
      BY <1>5 DEF MakeFails, DriverFails, Finish, Goto, Saw
    <2> QED BY <2>1, ZenonT(60)
  <1>5a. ASSUME NEW t \in Threads, ModelFails(t) PROVE RaceIsNotFailure'
    <2>1. /\ pc' = [pc EXCEPT ![t] = "idle"] /\ UNCHANGED call
          /\ \E x \in {"fault", "refused"} : seen' = [seen EXCEPT ![t] = @ \cup {x}]
          /\ \A u \in Threads \ {t} : res'[u] = res[u]
      BY <1>5a DEF ModelFails, DriverFails, Finish, Goto, Saw
    <2> QED BY <2>1, ZenonT(60)
  <1>6. ASSUME NEW t \in Threads, Take(t) PROVE RaceIsNotFailure'
    BY <1>6 DEF Take, Finish, Goto
  <1>7. ASSUME NEW t \in Threads, Fault(t) PROVE RaceIsNotFailure'
    BY <1>7, ZenonT(60) DEF Fault, Finish, Goto, Saw
  <1>8. ASSUME NEW t \in Threads, ClosedClient(t) PROVE RaceIsNotFailure'
    BY <1>8 DEF ClosedClient, Finish, Goto
  <1>9. ASSUME NEW t \in Threads, EnsureBucket(t) PROVE RaceIsNotFailure'
    BY <1>9 DEF EnsureBucket, Exists, Create, Recheck, Finish, Goto, Saw
  <1>10. ASSUME NEW t \in Threads, EnsureCollection(t) PROVE RaceIsNotFailure'
    BY <1>10 DEF EnsureCollection, Exists, Create, Recheck, Finish, Goto, Saw
  <1>11. ASSUME NEW t \in Threads, Put(t) PROVE RaceIsNotFailure'
    BY <1>11 DEF Put, Carried, Refused, Finish, Goto, Saw
  <1>12. ASSUME NEW t \in Threads, Upsert(t) PROVE RaceIsNotFailure'
    BY <1>12 DEF Upsert, Carried, Refused, Finish, Goto, Saw
  <1>13. ASSUME NEW t \in Threads, Get(t) PROVE RaceIsNotFailure'
    BY <1>13 DEF Get, Missing, Finish, Goto
  <1>14. ASSUME NEW t \in Threads, Stat(t) PROVE RaceIsNotFailure'
    BY <1>14 DEF Stat, Missing, Finish, Goto
  <1>15. ASSUME NEW t \in Threads, PutContentAddressed(t) PROVE RaceIsNotFailure'
    BY <1>15 DEF PutContentAddressed, Missing, Finish, Goto
  <1>16. ASSUME NEW t \in Threads, Search(t) PROVE RaceIsNotFailure'
    BY <1>16 DEF Search, Finish, Goto
  <1>17. ASSUME NEW t \in Threads, Url(t) PROVE RaceIsNotFailure'
    BY <1>17 DEF Url, Finish, Goto
  <1>18. ASSUME NEW t \in Threads, IfClient(t) PROVE RaceIsNotFailure'
    BY <1>18 DEF IfClient, Finish, Goto
  <1>19. ASSUME NEW t \in Threads, CloseClient(t) PROVE RaceIsNotFailure'
    BY <1>19 DEF CloseClient, Goto
  <1>20. ASSUME NEW t \in Threads, DropClient(t) PROVE RaceIsNotFailure'
    BY <1>20 DEF DropClient, Goto
  <1>21. CASE RemoveItem
    BY <1>21 DEF RemoveItem
  <1>22. CASE RemoveContainer
    BY <1>22 DEF RemoveContainer
  <1>23. CASE UNCHANGED vars
    BY <1>23 DEF vars
  <1> QED
    BY <1>1, <1>2, <1>3, <1>4, <1>5, <1>5a, <1>6, <1>7, <1>8, <1>9, <1>10, <1>11,
       <1>12, <1>13, <1>14, <1>15, <1>16, <1>17, <1>18, <1>19, <1>20, <1>21,
       <1>22, <1>23 DEF Next, Step

(* What is not folded into StoreError comes of a client that was closed,   *)
(* or of Qdrant's driver.                                                  *)
LEMMA RawStep == IInv /\ [Next]_vars => RawErrorsExplained'
  <1> SUFFICES ASSUME IInv, [Next]_vars PROVE RawErrorsExplained'
    OBVIOUS
  <1> USE DEF IInv, Types, Control, Clients, RawErrorsExplained, Steps, Waiting,
          Closing, Requests, Ensures, Thrown, Wrapped, conf, there, local, past
  <1>1. ASSUME NEW t \in Threads, Call(t) PROVE RawErrorsExplained'
    BY <1>1 DEF Call, Goto
  <1>2. ASSUME NEW t \in Threads, CallNull(t) PROVE RawErrorsExplained'
    BY <1>2, NullAnswers DEF CallNull
  <1>3. ASSUME NEW t \in Threads, Look(t) PROVE RawErrorsExplained'
    BY <1>3 DEF Look, Goto
  <1>4. ASSUME NEW t \in Threads, MakeClient(t) PROVE RawErrorsExplained'
    BY <1>4 DEF MakeClient, Goto
  <1>5. ASSUME NEW t \in Threads, MakeFails(t) PROVE RawErrorsExplained'
    BY <1>5 DEF MakeFails, DriverFails, Thrown, Finish, Goto, Saw
  <1>5a. ASSUME NEW t \in Threads, ModelFails(t) PROVE RawErrorsExplained'
    BY <1>5a DEF ModelFails, DriverFails, Thrown, Finish, Goto, Saw
  <1>6. ASSUME NEW t \in Threads, Take(t) PROVE RawErrorsExplained'
    BY <1>6, TakenStep DEF Take, Finish, Goto
  <1>7. ASSUME NEW t \in Threads, Fault(t) PROVE RawErrorsExplained'
    BY <1>7 DEF Fault, Finish, Goto, Saw
  <1>8. ASSUME NEW t \in Threads, ClosedClient(t) PROVE RawErrorsExplained'
    BY <1>8 DEF ClosedClient, Finish, Goto
  <1>9. ASSUME NEW t \in Threads, EnsureBucket(t) PROVE RawErrorsExplained'
    BY <1>9 DEF EnsureBucket, Exists, Create, Recheck, Finish, Goto, Saw
  <1>10. ASSUME NEW t \in Threads, EnsureCollection(t) PROVE RawErrorsExplained'
    BY <1>10 DEF EnsureCollection, Exists, Create, Recheck, Finish, Goto, Saw
  <1>11. ASSUME NEW t \in Threads, Put(t) PROVE RawErrorsExplained'
    BY <1>11 DEF Put, Carried, Refused, Finish, Goto, Saw
  <1>12. ASSUME NEW t \in Threads, Upsert(t) PROVE RawErrorsExplained'
    BY <1>12 DEF Upsert, Carried, Refused, Finish, Goto, Saw
  <1>13. ASSUME NEW t \in Threads, Get(t) PROVE RawErrorsExplained'
    BY <1>13 DEF Get, Missing, Finish, Goto
  <1>14. ASSUME NEW t \in Threads, Stat(t) PROVE RawErrorsExplained'
    BY <1>14 DEF Stat, Missing, Finish, Goto
  <1>15. ASSUME NEW t \in Threads, PutContentAddressed(t) PROVE RawErrorsExplained'
    BY <1>15 DEF PutContentAddressed, Missing, Finish, Goto
  <1>16. ASSUME NEW t \in Threads, Search(t) PROVE RawErrorsExplained'
    BY <1>16 DEF Search, Finish, Goto
  <1>17. ASSUME NEW t \in Threads, Url(t) PROVE RawErrorsExplained'
    <2>1. call[t] \in Calls /\ call[t].what = "url"
      BY <1>17 DEF Url
    <2>2. service = "s3"
      BY <2>1, CallShape
    <2> QED BY <1>17, <2>2 DEF Url, Finish, Goto
  <1>18. ASSUME NEW t \in Threads, IfClient(t) PROVE RawErrorsExplained'
    BY <1>18 DEF IfClient, Finish, Goto
  <1>19. ASSUME NEW t \in Threads, CloseClient(t) PROVE RawErrorsExplained'
    BY <1>19 DEF CloseClient, Goto
  <1>20. ASSUME NEW t \in Threads, DropClient(t) PROVE RawErrorsExplained'
    BY <1>20 DEF DropClient, Goto
  <1>21. CASE RemoveItem
    BY <1>21 DEF RemoveItem
  <1>22. CASE RemoveContainer
    BY <1>22 DEF RemoveContainer
  <1>23. CASE UNCHANGED vars
    BY <1>23 DEF vars
  <1> QED
    BY <1>1, <1>2, <1>3, <1>4, <1>5, <1>5a, <1>6, <1>7, <1>8, <1>9, <1>10, <1>11,
       <1>12, <1>13, <1>14, <1>15, <1>16, <1>17, <1>18, <1>19, <1>20, <1>21,
       <1>22, <1>23 DEF Next, Step

-----------------------------------------------------------------------------
(* What TypeOK says beyond Types. *)
LocalTypes ==
    /\ enabled \in BOOLEAN
    /\ next \in [Threads -> Steps \cup {"ifclient"}]
    /\ mine \in [Threads -> {"none", "shared", "replaced", "closed"}]
    /\ res \in [Threads -> {"none", "ok", "found", "absent", "StoreError", "raw"}]
InHand == \A t \in Threads : mine[t] = "none" <=> pc[t] \notin Steps
Serving ==
    /\ container \in {Absent} \cup (IF service = "s3" THEN {"bucket"} ELSE Dims)
    /\ container = Absent => items = <<>>
    /\ \A t \in Threads : call[t] \in Calls \cup {Op("close", NoSlot, "none")}

LEMMA FirstSteps ==
  ASSUME NEW c \in Calls
  PROVE  FirstStep(c.what) \in Steps \cup {"ifclient"}
  BY CallShape DEF FirstStep, Whats, Ensures, Writes, Steps

(* The parts of a call's own state keep their types.                       *)
LEMMA LocalStep == Types /\ LocalTypes /\ [Next]_vars => LocalTypes'
  <1> SUFFICES ASSUME Types, LocalTypes, [Next]_vars PROVE LocalTypes'
    OBVIOUS
  <1> USE DEF Types, LocalTypes, Thrown, conf, there, local, past
  <1>1. ASSUME NEW t \in Threads, Call(t) PROVE LocalTypes'
    BY <1>1, FirstSteps DEF Call, Goto
  <1>2. ASSUME NEW t \in Threads, CallNull(t) PROVE LocalTypes'
    BY <1>2, FirstSteps, NullAnswers DEF CallNull
  <1>3. ASSUME NEW t \in Threads, Look(t) PROVE LocalTypes'
    BY <1>3 DEF Look, Goto
  <1>4. ASSUME NEW t \in Threads, MakeClient(t) PROVE LocalTypes'
    BY <1>4 DEF MakeClient, Goto
  <1>5. ASSUME NEW t \in Threads, MakeFails(t) PROVE LocalTypes'
    BY <1>5 DEF MakeFails, DriverFails, Thrown, Finish, Goto, Saw
  <1>5a. ASSUME NEW t \in Threads, ModelFails(t) PROVE LocalTypes'
    BY <1>5a DEF ModelFails, DriverFails, Thrown, Finish, Goto, Saw
  <1>6. ASSUME NEW t \in Threads, Take(t) PROVE LocalTypes'
    BY <1>6 DEF Take, Finish, Goto
  <1>7. ASSUME NEW t \in Threads, Fault(t) PROVE LocalTypes'
    BY <1>7 DEF Fault, Finish, Goto, Saw
  <1>8. ASSUME NEW t \in Threads, ClosedClient(t) PROVE LocalTypes'
    BY <1>8 DEF ClosedClient, Finish, Goto
  <1>9. ASSUME NEW t \in Threads, EnsureBucket(t) PROVE LocalTypes'
    BY <1>9 DEF EnsureBucket, Exists, Create, Recheck, Finish, Goto, Saw
  <1>10. ASSUME NEW t \in Threads, EnsureCollection(t) PROVE LocalTypes'
    BY <1>10 DEF EnsureCollection, Exists, Create, Recheck, Finish, Goto, Saw
  <1>11. ASSUME NEW t \in Threads, Put(t) PROVE LocalTypes'
    BY <1>11 DEF Put, Carried, Refused, Finish, Goto, Saw
  <1>12. ASSUME NEW t \in Threads, Upsert(t) PROVE LocalTypes'
    BY <1>12 DEF Upsert, Carried, Refused, Finish, Goto, Saw
  <1>13. ASSUME NEW t \in Threads, Get(t) PROVE LocalTypes'
    BY <1>13 DEF Get, Missing, Finish, Goto
  <1>14. ASSUME NEW t \in Threads, Stat(t) PROVE LocalTypes'
    BY <1>14 DEF Stat, Missing, Finish, Goto
  <1>15. ASSUME NEW t \in Threads, PutContentAddressed(t) PROVE LocalTypes'
    <2>1. next' \in [Threads -> Steps \cup {"ifclient"}]
      BY <1>15 DEF PutContentAddressed, Missing, Finish, Goto, Steps
    <2>2. mine' \in [Threads -> {"none", "shared", "replaced", "closed"}]
      BY <1>15 DEF PutContentAddressed, Missing, Finish, Goto
    <2>3. res' \in [Threads -> {"none", "ok", "found", "absent", "StoreError", "raw"}]
      BY <1>15 DEF PutContentAddressed, Missing, Finish, Goto
    <2> QED BY <1>15, <2>1, <2>2, <2>3 DEF PutContentAddressed
  <1>16. ASSUME NEW t \in Threads, Search(t) PROVE LocalTypes'
    BY <1>16 DEF Search, Finish, Goto
  <1>17. ASSUME NEW t \in Threads, Url(t) PROVE LocalTypes'
    BY <1>17 DEF Url, Finish, Goto
  <1>18. ASSUME NEW t \in Threads, IfClient(t) PROVE LocalTypes'
    BY <1>18 DEF IfClient, Finish, Goto
  <1>19. ASSUME NEW t \in Threads, CloseClient(t) PROVE LocalTypes'
    BY <1>19 DEF CloseClient, Goto
  <1>20. ASSUME NEW t \in Threads, DropClient(t) PROVE LocalTypes'
    BY <1>20 DEF DropClient, Goto
  <1>21. CASE RemoveItem
    BY <1>21 DEF RemoveItem
  <1>22. CASE RemoveContainer
    BY <1>22 DEF RemoveContainer
  <1>23. CASE UNCHANGED vars
    BY <1>23 DEF vars
  <1> QED
    BY <1>1, <1>2, <1>3, <1>4, <1>5, <1>5a, <1>6, <1>7, <1>8, <1>9, <1>10, <1>11,
       <1>12, <1>13, <1>14, <1>15, <1>16, <1>17, <1>18, <1>19, <1>20, <1>21,
       <1>22, <1>23 DEF Next, Step

(* A client is in hand while a request is made, and only then.             *)
LEMMA InHandStep == Types /\ Control /\ LocalTypes /\ InHand /\ [Next]_vars => InHand'
  <1> SUFFICES ASSUME Types, Control, LocalTypes, InHand, [Next]_vars PROVE InHand'
    OBVIOUS
  <1> USE DEF Types, LocalTypes, InHand, Steps, conf, there, local, past
  <1>1. ASSUME NEW t \in Threads, Call(t) PROVE InHand'
    BY <1>1 DEF Call, Goto
  <1>2. ASSUME NEW t \in Threads, CallNull(t) PROVE InHand'
    BY <1>2 DEF CallNull
  <1>3. ASSUME NEW t \in Threads, Look(t) PROVE InHand'
    BY <1>3 DEF Look, Goto
  <1>4. ASSUME NEW t \in Threads, MakeClient(t) PROVE InHand'
    BY <1>4 DEF MakeClient, Goto
  <1>5. ASSUME NEW t \in Threads, MakeFails(t) PROVE InHand'
    BY <1>5 DEF MakeFails, DriverFails, Thrown, Finish, Goto, Saw
  <1>5a. ASSUME NEW t \in Threads, ModelFails(t) PROVE InHand'
    BY <1>5a DEF ModelFails, DriverFails, Thrown, Finish, Goto, Saw
  <1>6. ASSUME NEW t \in Threads, Take(t) PROVE InHand'
    BY <1>6, TakenStep DEF Take, Finish, Goto
  <1>7. ASSUME NEW t \in Threads, Fault(t) PROVE InHand'
    BY <1>7 DEF Fault, Finish, Goto, Saw
  <1>8. ASSUME NEW t \in Threads, ClosedClient(t) PROVE InHand'
    BY <1>8 DEF ClosedClient, Finish, Goto
  <1>9. ASSUME NEW t \in Threads, EnsureBucket(t) PROVE InHand'
    BY <1>9 DEF EnsureBucket, Exists, Create, Recheck, Finish, Goto, Saw
  <1>10. ASSUME NEW t \in Threads, EnsureCollection(t) PROVE InHand'
    BY <1>10 DEF EnsureCollection, Exists, Create, Recheck, Finish, Goto, Saw
  <1>11. ASSUME NEW t \in Threads, Put(t) PROVE InHand'
    BY <1>11 DEF Put, Carried, Refused, Finish, Goto, Saw
  <1>12. ASSUME NEW t \in Threads, Upsert(t) PROVE InHand'
    BY <1>12 DEF Upsert, Carried, Refused, Finish, Goto, Saw
  <1>13. ASSUME NEW t \in Threads, Get(t) PROVE InHand'
    BY <1>13 DEF Get, Missing, Finish, Goto
  <1>14. ASSUME NEW t \in Threads, Stat(t) PROVE InHand'
    BY <1>14 DEF Stat, Missing, Finish, Goto
  <1>15. ASSUME NEW t \in Threads, PutContentAddressed(t) PROVE InHand'
    BY <1>15 DEF PutContentAddressed, Missing, Finish, Goto
  <1>16. ASSUME NEW t \in Threads, Search(t) PROVE InHand'
    BY <1>16 DEF Search, Finish, Goto
  <1>17. ASSUME NEW t \in Threads, Url(t) PROVE InHand'
    BY <1>17 DEF Url, Finish, Goto
  <1>18. ASSUME NEW t \in Threads, IfClient(t) PROVE InHand'
    BY <1>18 DEF IfClient, Finish, Goto
  <1>19. ASSUME NEW t \in Threads, CloseClient(t) PROVE InHand'
    BY <1>19 DEF CloseClient, Goto
  <1>20. ASSUME NEW t \in Threads, DropClient(t) PROVE InHand'
    BY <1>20 DEF DropClient, Goto
  <1>21. CASE RemoveItem
    BY <1>21 DEF RemoveItem
  <1>22. CASE RemoveContainer
    BY <1>22 DEF RemoveContainer
  <1>23. CASE UNCHANGED vars
    BY <1>23 DEF vars
  <1> QED
    BY <1>1, <1>2, <1>3, <1>4, <1>5, <1>5a, <1>6, <1>7, <1>8, <1>9, <1>10, <1>11,
       <1>12, <1>13, <1>14, <1>15, <1>16, <1>17, <1>18, <1>19, <1>20, <1>21,
       <1>22, <1>23 DEF Next, Step

(* A vector has a size. *)
LEMMA UpsertShape ==
  ASSUME NEW c \in Calls, c.what = "upsert"
  PROVE  c.put.dim \in Dims
  <1>1. c \in {Op("upsert", NormalisePointId(i), [key |-> i.key, dim |-> d]) : i \in Ids, d \in Dims}
    BY DEF Calls, BlobCalls, VectorCalls, Op
  <1> QED BY <1>1 DEF Op

(* What is stored stays fit for its service, and what is asked for too.    *)
LEMMA ServingStep == Types /\ Control /\ Serving /\ [Next]_vars => Serving'
  <1> SUFFICES ASSUME Types, Control, Serving, [Next]_vars PROVE Serving'
    OBVIOUS
  <1> USE DEF Types, Serving, Calls, Slots, conf, there, local, past
  <1>1. ASSUME NEW t \in Threads, Call(t) PROVE Serving'
    BY <1>1 DEF Call, Goto
  <1>2. ASSUME NEW t \in Threads, CallNull(t) PROVE Serving'
    BY <1>2 DEF CallNull
  <1>3. ASSUME NEW t \in Threads, Look(t) PROVE Serving'
    BY <1>3 DEF Look, Goto
  <1>4. ASSUME NEW t \in Threads, MakeClient(t) PROVE Serving'
    BY <1>4 DEF MakeClient, Goto
  <1>5. ASSUME NEW t \in Threads, MakeFails(t) PROVE Serving'
    BY <1>5 DEF MakeFails, DriverFails, Thrown, Finish, Goto, Saw
  <1>5a. ASSUME NEW t \in Threads, ModelFails(t) PROVE Serving'
    BY <1>5a DEF ModelFails, DriverFails, Thrown, Finish, Goto, Saw
  <1>6. ASSUME NEW t \in Threads, Take(t) PROVE Serving'
    BY <1>6 DEF Take, Finish, Goto
  <1>7. ASSUME NEW t \in Threads, Fault(t) PROVE Serving'
    BY <1>7 DEF Fault, Finish, Goto, Saw
  <1>8. ASSUME NEW t \in Threads, ClosedClient(t) PROVE Serving'
    BY <1>8 DEF ClosedClient, Finish, Goto
  <1>9. ASSUME NEW t \in Threads, EnsureBucket(t) PROVE Serving'
    <2>1. call[t] \in Calls \cup {Op("close", NoSlot, "none")} /\ call[t].what = "ensure_bucket"
      BY <1>9 DEF EnsureBucket
    <2>2. service = "s3"
      BY <2>1, CallShape DEF Op
    <2> QED BY <1>9, <2>2 DEF EnsureBucket, Exists, Create, Recheck, Finish, Goto, Saw
  <1>10. ASSUME NEW t \in Threads, EnsureCollection(t) PROVE Serving'
    <2>1. /\ call[t] \in Calls \cup {Op("close", NoSlot, "none")}
          /\ call[t].what = "ensure_collection"
      BY <1>10 DEF EnsureCollection
    <2>2. service # "s3" /\ call[t].put \in Dims
      BY <2>1, CallShape DEF Op
    <2> QED BY <1>10, <2>2, DimAssumption
            DEF EnsureCollection, Exists, Create, Recheck, Finish, Goto, Saw
  <1>11. ASSUME NEW t \in Threads, Put(t) PROVE Serving'
    BY <1>11 DEF Put, Carried, Refused, Finish, Goto, Saw
  <1>12. ASSUME NEW t \in Threads, Upsert(t) PROVE Serving'
    <2>1. CASE container # Absent
      BY <1>12, <2>1 DEF Upsert, Carried, Refused, Finish, Goto, Saw
    <2>2. CASE container = Absent
      <3>1. pc[t] = "upsert" /\ call[t] \in Calls /\ call[t].what = "upsert"
        BY <1>12 DEF Upsert, Control, Steps, Requests, Ensures
      <3>2. call[t].put.dim \in Dims
        BY <3>1, UpsertShape
      <3>3. container # call[t].put.dim
        BY <2>2, <3>2, DimAssumption DEF Absent
      <3> QED BY <1>12, <3>3 DEF Upsert, Refused, Finish, Goto
    <2> QED BY <2>1, <2>2
  <1>13. ASSUME NEW t \in Threads, Get(t) PROVE Serving'
    BY <1>13 DEF Get, Missing, Finish, Goto
  <1>14. ASSUME NEW t \in Threads, Stat(t) PROVE Serving'
    BY <1>14 DEF Stat, Missing, Finish, Goto
  <1>15. ASSUME NEW t \in Threads, PutContentAddressed(t) PROVE Serving'
    BY <1>15 DEF PutContentAddressed, Missing, Finish, Goto
  <1>16. ASSUME NEW t \in Threads, Search(t) PROVE Serving'
    BY <1>16 DEF Search, Finish, Goto
  <1>17. ASSUME NEW t \in Threads, Url(t) PROVE Serving'
    BY <1>17 DEF Url, Finish, Goto
  <1>18. ASSUME NEW t \in Threads, IfClient(t) PROVE Serving'
    BY <1>18 DEF IfClient, Finish, Goto
  <1>19. ASSUME NEW t \in Threads, CloseClient(t) PROVE Serving'
    BY <1>19 DEF CloseClient, Goto
  <1>20. ASSUME NEW t \in Threads, DropClient(t) PROVE Serving'
    BY <1>20 DEF DropClient, Goto
  <1>21. CASE RemoveItem
    BY <1>21 DEF RemoveItem
  <1>22. CASE RemoveContainer
    BY <1>22 DEF RemoveContainer
  <1>23. CASE UNCHANGED vars
    BY <1>23 DEF vars
  <1> QED
    BY <1>1, <1>2, <1>3, <1>4, <1>5, <1>5a, <1>6, <1>7, <1>8, <1>9, <1>10, <1>11,
       <1>12, <1>13, <1>14, <1>15, <1>16, <1>17, <1>18, <1>19, <1>20, <1>21,
       <1>22, <1>23 DEF Next, Step

-----------------------------------------------------------------------------
(* The invariant: at first, kept, and so always. *)
LEMMA InitIInv == Init => IInv
  <1> SUFFICES ASSUME Init PROVE IInv
    OBVIOUS
  <1> USE DEF Init
  <1>1. Types
    BY DEF Types
  <1>2. Control /\ Clients /\ SecondLook
    BY DEF Control, Clients, SecondLook, Steps, Waiting, Closing
  <1>3. DOMAIN items = {}
    OBVIOUS
  <1>4. Addressed
    BY <1>3 DEF Addressed, Slots
  <1>5. OutcomeIsTrue /\ RaceIsNotFailure /\ RawErrorsExplained
    BY DEF OutcomeIsTrue, Holds, RaceIsNotFailure, RawErrorsExplained, Op,
       Ensures, Writes
  <1> QED BY <1>1, <1>2, <1>4, <1>5 DEF IInv

LEMMA StepIInv == IInv /\ [Next]_vars => IInv'
  BY TypesStep, ControlStep, ClientsStep, SecondLookStep, AddressedStep,
     OutcomeStep, RaceStep, RawStep DEF IInv

LEMMA Invariance == Spec => []IInv
  BY InitIInv, StepIInv, PTL DEF Spec

(* Every variable stays within its type, a client is in hand exactly while *)
(* a request is made with it, and the container fits its service.          *)
THEOREM Typing == Spec => []TypeOK
  <1> DEFINE All == IInv /\ LocalTypes /\ InHand /\ Serving
  <1>1. Init => All
    <2> SUFFICES ASSUME Init PROVE LocalTypes /\ InHand /\ Serving
      BY InitIInv
    <2> QED BY DEF Init, LocalTypes, InHand, Serving, Steps
  <1>2. All /\ [Next]_vars => All'
    BY StepIInv, LocalStep, InHandStep, ServingStep DEF IInv
  <1>3. All => TypeOK
    BY DEF IInv, Types, LocalTypes, InHand, Serving, TypeOK, Waiting, Closing
  <1> QED BY <1>1, <1>2, <1>3, PTL DEF Spec

(* What a call reported is so until somebody undoes or overtakes it, over  *)
(* failing requests, removals and close() by others (blob.py, vector.py).  *)
THEOREM TrueOutcomes == Spec => []OutcomeIsTrue
  <1>1. IInv => OutcomeIsTrue
    BY DEF IInv
  <1> QED BY <1>1, Invariance, PTL

(* Losing the race to create a bucket or a collection is no failure, with  *)
(* any number of threads creating it (ensure_bucket, ensure_collection).   *)
THEOREM HarmlessRaces == Spec => []RaceIsNotFailure
  <1>1. IInv => RaceIsNotFailure
    BY DEF IInv
  <1> QED BY <1>1, Invariance, PTL

(* A key has at most one point, in whatever spellings it is upserted       *)
(* (vector.py normalise_point_id).                                         *)
THEOREM OnePointAKey == Spec => []OnePointPerKey
  BY OnePoint, Invariance, PTL

(* Nothing but StoreError leaves the stores, except in a call during which *)
(* another thread closed them, or in which Qdrant's driver refused its     *)
(* endpoint or an argument (errors.py wrap_errors, _qdrant_error_types).   *)
THEOREM RawErrorsHaveCauses == Spec => []RawErrorsExplained
  <1>1. IInv => RawErrorsExplained
    BY DEF IInv
  <1> QED BY <1>1, Invariance, PTL
===============================================================================
