---------------------------- MODULE ServiceStores ----------------------------
(***************************************************************************)
(* The two stores that talk to a service through a lazily created client:  *)
(* S3BlobStore (src/argus_cortex/store/blob.py) on a bucket of objects and *)
(* QdrantVectorStore (store/vector.py) on a collection of points, or the   *)
(* null store in place of either.  Several threads share one store object; *)
(* somebody else may remove what is stored; any request may fail, before   *)
(* or after the service carried it out.                                    *)
(*                                                                         *)
(* The two have one protocol (client, call, error folding, close) and      *)
(* share nothing at run time: a behaviour is about one of them, chosen at  *)
(* the start with the configuration.  Bucket and collection are both the   *)
(* "container"; what is in it, items, maps slots to values: keys to bytes, *)
(* or point ids to payloads.                                               *)
(***************************************************************************)
EXTENDS Naturals, Sequences

CONSTANTS
    Threads,
    Contents,    \* image bytes
    Names,       \* blob keys that callers make up
    Ids,         \* vector keys, as callers write them
    Dims         \* vector sizes

ASSUME IdAssumption ==
    Ids \subseteq [form : {"int", "uuid", "text"}, key : STRING, spelling : STRING]
(* The integer 5 and the string "5" are two keys. *)
ASSUME FormAssumption == \A i, j \in Ids : i.key = j.key => i.form = j.form
ASSUME DimAssumption == Dims \cap {"absent", "bucket"} = {}

VARIABLES
    service,     \* "s3" or "qdrant"
    enabled,     \* FALSE: open_*_store found nothing configured
    client,      \* self._client_obj: "none" or "live"
    container,   \* "absent", "bucket", or the collection's vector size
    items,       \* what it holds
    pc,          \* where each thread is
    call,        \* its call: what, at which slot, to put what
    next,        \* the request it makes once it has the client
    mine,        \* the client it works with: the store's, one that another
                 \* replaced, or one that was closed
    res,         \* how its last call ended
    seen,        \* history: what happened since the call began, of "fault",
                 \* "refused" (by the driver), "close" and "removal"
    kept         \* history: and nobody has undone or overtaken its effect

conf == <<service, enabled>>
there == <<container, items>>
local == <<call, next, mine, res>>
past == <<seen, kept>>
vars == <<conf, client, there, pc, local, past>>

Absent == "absent"
NoSlot == <<"none">>
Writes == {"put", "put_content_addressed", "upsert"}
Ensures == {"ensure_bucket", "ensure_collection"}
Slots == DOMAIN items

(* content_key: sha256, taken to be free of collisions. *)
ContentKey(data) == <<"sha256", data>>

(* Integers stay; every spelling of a UUID becomes its canonical one; any  *)
(* other string is hashed into a UUID of its own.                          *)
NormalisePointId(id) ==
    CASE id.form = "int"  -> <<"int", id.key>>
      [] id.form = "uuid" -> <<"uuid", id.key>>
      [] id.form = "text" -> <<"uuid5", id.key>>

Op(what, at, val) == [what |-> what, at |-> at, put |-> val]
BlobCalls ==
    {Op(o, NoSlot, "none") : o \in {"ensure_bucket", "url", "close"}}
    \cup {Op("put", <<"name", n>>, d) : n \in Names, d \in Contents}
    \cup {Op("put_content_addressed", ContentKey(d), d) : d \in Contents}
    \cup {Op(o, k, "none") : o \in {"get", "exists"},
                             k \in {<<"name", n>> : n \in Names}
                                   \cup {ContentKey(d) : d \in Contents}}
VectorCalls ==
    {Op(o, NoSlot, "none") : o \in {"search", "close"}}
    \cup {Op("ensure_collection", NoSlot, d) : d \in Dims}
    \cup {Op("upsert", NormalisePointId(i), [key |-> i.key, dim |-> d]) : i \in Ids, d \in Dims}
Calls == IF service = "s3" THEN BlobCalls ELSE VectorCalls

FirstStep(what) ==
    CASE what \in Ensures -> "exists"
      [] what \in {"exists", "put_content_addressed"} -> "stat"
      [] what \in {"get", "put", "upsert", "search", "url"} -> what
      [] what = "close" -> "ifclient"
Steps == {"exists", "create", "recheck", "stat", "get", "put", "upsert", "search", "url"}

(* A slip: no ValueError among minio's errors. *)
WrappedServiceOnly == {"service"}

(* resolve_error_types and wrap_errors: which exceptions become StoreError *)
Wrapped == IF service = "s3" THEN {"service", "ValueError"} ELSE {"service"}
Thrown(kind) == IF kind \in Wrapped THEN "StoreError" ELSE "raw"

(* S3 error codes that mean that the object is not there. *)
NotFoundCodes == {"NoSuchKey"}
(* The service's answer about an object it cannot give.  The answer to a   *)
(* HEAD has no body: minio then guesses the code.                          *)
Codes(request) ==
    IF container # Absent THEN {"NoSuchKey"}
    ELSE IF request = "stat" THEN {"NoSuchKey", "NoSuchBucket"} ELSE {"NoSuchBucket"}

Goto(t, step) == pc' = [pc EXCEPT ![t] = step]

(* A call is over: it returns, or raises. *)
Finish(t, r) ==
    /\ Goto(t, "idle")
    /\ res' = [res EXCEPT ![t] = r]
    /\ mine' = [mine EXCEPT ![t] = "none"]
    /\ UNCHANGED <<call, next>>

(* What the container holds once val is at slot. *)
With(slot, val) == [s \in Slots \cup {slot} |-> IF s = slot THEN val ELSE items[s]]
Saw(t, event) == seen' = [seen EXCEPT ![t] = @ \cup {event}]

-----------------------------------------------------------------------------
(* Slips one could make in this code; the specification does not use them. *)

\* A flaky re-check counts as success.
RecheckTrusting(t) ==
    /\ pc[t] = "recheck"
    /\ Finish(t, "ok")
    /\ UNCHANGED <<conf, client, there, past>>

\* No except around the creation.
CreateUnguarded(t, shape) ==
    /\ pc[t] = "create"
    /\ \/ /\ container = Absent
          /\ container' = shape
          /\ Finish(t, "ok")
          /\ UNCHANGED seen
       \/ /\ Finish(t, "StoreError")
          /\ IF container = Absent THEN Saw(t, "fault") ELSE UNCHANGED seen
          /\ UNCHANGED container
    /\ UNCHANGED <<conf, client, items, kept>>

\* A fresh id for a key that is no UUID (uuid4 in place of uuid5).
PutItemFresh(t) ==
    \E slot \in {call[t].at, <<"uuid4", t>>} : items' = With(slot, call[t].put)

-----------------------------------------------------------------------------
Init ==
    /\ service \in {"s3", "qdrant"}
    /\ enabled \in BOOLEAN
    /\ client = "none"
    /\ container = Absent
    /\ items = <<>>
    /\ pc = [t \in Threads |-> "idle"]
    /\ call = [t \in Threads |-> Op("close", NoSlot, "none")]
    /\ next = [t \in Threads |-> "ifclient"]
    /\ mine = [t \in Threads |-> "none"]
    /\ res = [t \in Threads |-> "ok"]
    /\ seen = [t \in Threads |-> {}]
    /\ kept = [t \in Threads |-> TRUE]

(* A thread calls the store. *)
Call(t) ==
    /\ pc[t] = "idle" /\ enabled
    /\ \E c \in Calls :
         /\ call' = [call EXCEPT ![t] = c]
         /\ next' = [next EXCEPT ![t] = FirstStep(c.what)]
         /\ Goto(t, IF c.what = "close" THEN "ifclient" ELSE "look")
    /\ res' = [res EXCEPT ![t] = "none"]
    /\ seen' = [seen EXCEPT ![t] = {}]
    /\ kept' = [kept EXCEPT ![t] = TRUE]
    /\ UNCHANGED <<conf, client, there, mine>>

(* NullBlobStore, NullVectorStore: nothing happens, and the answer is that *)
(* of an empty store; put_content_addressed still hands out the key.       *)
NullAnswer(what) ==
    CASE what \in {"get", "exists"} -> "absent"
      [] what = "url" -> "absent"
      [] OTHER -> "ok"
CallNull(t) ==
    /\ pc[t] = "idle" /\ ~enabled
    /\ \E c \in Calls :
         /\ call' = [call EXCEPT ![t] = c]
         /\ next' = [next EXCEPT ![t] = FirstStep(c.what)]
         /\ res' = [res EXCEPT ![t] = NullAnswer(c.what)]
    /\ UNCHANGED <<conf, client, there, pc, mine, past>>

-----------------------------------------------------------------------------
(* _client(): a test, a creation, and a second read of the attribute.      *)
Look(t) ==
    /\ pc[t] = "look"
    /\ Goto(t, IF client = "none" THEN "make" ELSE "take")
    /\ UNCHANGED <<conf, client, there, local, past>>

(* A thread that made one before keeps the client it has. *)
MakeClient(t) ==
    /\ pc[t] = "make"
    /\ client' = "live"
    /\ mine' = [u \in Threads |-> IF mine[u] = "shared" THEN "replaced" ELSE mine[u]]
    /\ Goto(t, "take")
    /\ UNCHANGED <<conf, there, call, next, res, past>>

(* The driver is missing, or the endpoint embeds credentials: a            *)
(* StoreError.  Or the driver refuses what it is given, with a ValueError  *)
(* (pydantic's ValidationError is one): folded only where that is Wrapped. *)
DriverFails(t) ==
    \/ Finish(t, "StoreError") /\ Saw(t, "fault")
    \/ Finish(t, Thrown("ValueError")) /\ Saw(t, "refused")

MakeFails(t) ==
    /\ pc[t] = "make"
    /\ DriverFails(t)
    /\ UNCHANGED <<conf, client, there, kept>>

Take(t) ==
    /\ pc[t] = "take"
    /\ IF client = "live"
         THEN /\ mine' = [mine EXCEPT ![t] = "shared"]
              /\ Goto(t, next[t])
              /\ UNCHANGED <<call, next, res>>
         ELSE Finish(t, Thrown("AttributeError"))
    /\ UNCHANGED <<conf, client, there, past>>

-----------------------------------------------------------------------------
(* Any request may fail unheard; a creation is then looked at again.       *)
Fault(t) ==
    /\ pc[t] \in Steps \ {"create", "url"}
    /\ Finish(t, Thrown("service"))
    /\ Saw(t, "fault")
    /\ UNCHANGED <<conf, client, there, kept>>

(* A Qdrant client that another thread closed; perhaps the error it raises *)
(* is none of those that are folded.                                       *)
ClosedClient(t) ==
    /\ pc[t] \in Steps /\ mine[t] = "closed"
    /\ Finish(t, Thrown("RuntimeError"))
    /\ UNCHANGED <<conf, client, there, past>>

(* Qdrant's models module is imported at each use, and its VectorParams,   *)
(* PointStruct and Filter check their arguments before a request is made.  *)
ModelFails(t) ==
    /\ service = "qdrant" /\ pc[t] \in {"create", "upsert", "search"}
    /\ DriverFails(t)
    /\ UNCHANGED <<conf, client, there, kept>>

Exists(t) ==
    /\ pc[t] = "exists"
    /\ IF container # Absent
         THEN Finish(t, "ok")
         ELSE Goto(t, "create") /\ UNCHANGED local
    /\ UNCHANGED <<conf, client, there, past>>

(* Done; or done with the answer lost, not done, or too late: look again.  *)
Create(t, shape) ==
    /\ pc[t] = "create"
    /\ \/ /\ container = Absent
          /\ container' = shape
          /\ \/ Finish(t, "ok") /\ UNCHANGED seen
             \/ Goto(t, "recheck") /\ Saw(t, "fault") /\ UNCHANGED local
       \/ /\ Goto(t, "recheck")
          /\ IF container = Absent THEN Saw(t, "fault") ELSE UNCHANGED seen
          /\ UNCHANGED <<container, local>>
    /\ UNCHANGED <<conf, client, items, kept>>

Recheck(t) ==
    /\ pc[t] = "recheck"
    /\ Finish(t, IF container # Absent THEN "ok" ELSE Thrown("service"))
    /\ UNCHANGED <<conf, client, there, past>>

EnsureBucket(t) ==
    /\ call[t].what = "ensure_bucket"
    /\ Exists(t) \/ Create(t, "bucket") \/ Recheck(t)

(* An existing collection is taken as it is, whatever its vector size.     *)
EnsureCollection(t) ==
    /\ call[t].what = "ensure_collection"
    /\ Exists(t) \/ Create(t, call[t].put) \/ Recheck(t)

-----------------------------------------------------------------------------
(* Whose last word on this slot is no longer so. *)
Overtaken(slot, val) ==
    {u \in Threads : call[u].at = slot /\ ~(call[u].what \in Writes /\ call[u].put = val)}
PutItem(t) == items' = With(call[t].at, call[t].put)

Carried(t) ==
    /\ PutItem(t)
    /\ kept' = [u \in Threads |-> kept[u] /\ (u = t \/ u \notin Overtaken(call[t].at, call[t].put))]
    /\ \/ Finish(t, "ok") /\ UNCHANGED seen
       \/ Finish(t, Thrown("service")) /\ Saw(t, "fault")
    /\ UNCHANGED <<conf, client, container>>

Refused(t) ==
    /\ Finish(t, Thrown("service"))
    /\ UNCHANGED <<conf, client, there, past>>

Put(t) ==
    /\ pc[t] = "put"
    /\ IF container # Absent THEN Carried(t) ELSE Refused(t)

(* The service refuses a vector of another size than the collection's. *)
Upsert(t) ==
    /\ pc[t] = "upsert"
    /\ IF container = call[t].put.dim THEN Carried(t) ELSE Refused(t)

Missing(t, request, then) ==
    \E code \in Codes(request) :
        IF code \in NotFoundCodes THEN then ELSE Finish(t, Thrown("service"))

Get(t) ==
    /\ pc[t] = "get"
    /\ IF call[t].at \in Slots
         THEN Finish(t, "found")
         ELSE Missing(t, "get", Finish(t, "absent"))
    /\ UNCHANGED <<conf, client, there, past>>

Stat(t) ==
    /\ pc[t] = "stat" /\ call[t].what = "exists"
    /\ IF call[t].at \in Slots
         THEN Finish(t, "found")
         ELSE Missing(t, "stat", Finish(t, "absent"))
    /\ UNCHANGED <<conf, client, there, past>>

(* The upload is skipped when the object is there; put() starts over with  *)
(* _client().                                                              *)
PutContentAddressed(t) ==
    /\ pc[t] = "stat" /\ call[t].what = "put_content_addressed"
    /\ IF call[t].at \in Slots
         THEN Finish(t, "ok")
         ELSE Missing(t, "stat", /\ Goto(t, "look")
                                 /\ next' = [next EXCEPT ![t] = "put"]
                                 /\ mine' = [mine EXCEPT ![t] = "none"]
                                 /\ UNCHANGED <<call, res>>)
    /\ UNCHANGED <<conf, client, there, past>>

Search(t) ==
    /\ pc[t] = "search"
    /\ Finish(t, IF container # Absent THEN "ok" ELSE Thrown("service"))
    /\ UNCHANGED <<conf, client, there, past>>

(* Signed without a request; an expiry out of range is a ValueError. *)
Url(t) ==
    /\ pc[t] = "url"
    /\ Finish(t, "ok") \/ Finish(t, Thrown("ValueError"))
    /\ UNCHANGED <<conf, client, there, past>>

-----------------------------------------------------------------------------
(* close(): a test, a call, an assignment.  minio's client has no close(). *)
IfClient(t) ==
    /\ pc[t] = "ifclient"
    /\ IF client = "none"
         THEN Finish(t, "ok")
         ELSE Goto(t, "closing") /\ UNCHANGED local
    /\ UNCHANGED <<conf, client, there, past>>

CloseClient(t) ==
    /\ pc[t] = "closing"
    /\ mine' = [u \in Threads |-> IF service = "qdrant" /\ client = "live" /\ mine[u] = "shared"
                                    THEN "closed" ELSE mine[u]]
    /\ seen' = [u \in Threads |-> IF u = t THEN seen[u] ELSE seen[u] \cup {"close"}]
    /\ Goto(t, "drop")
    /\ UNCHANGED <<conf, client, there, call, next, res, kept>>

DropClient(t) ==
    /\ pc[t] = "drop"
    /\ client' = "none"
    /\ Goto(t, "idle")
    /\ res' = [res EXCEPT ![t] = "ok"]
    /\ mine' = [u \in Threads |-> IF mine[u] = "shared" THEN "replaced" ELSE mine[u]]
    /\ seen' = [u \in Threads |-> IF u = t THEN seen[u] ELSE seen[u] \cup {"close"}]
    /\ UNCHANGED <<conf, there, call, next, kept>>

-----------------------------------------------------------------------------
(* Somebody else removes an object, a point, or the whole container.       *)
RemoveItem ==
    /\ \E slot \in Slots :
         /\ items' = [s \in Slots \ {slot} |-> items[s]]
         /\ kept' = [t \in Threads |-> kept[t] /\ call[t].at # slot]
    /\ seen' = [t \in Threads |-> seen[t] \cup {"removal"}]
    /\ UNCHANGED <<conf, client, container, pc, local>>

(* S3 only lets go of an empty bucket. *)
RemoveContainer ==
    /\ container # Absent
    /\ service = "s3" => items = <<>>
    /\ container' = Absent
    /\ items' = <<>>
    /\ seen' = [t \in Threads |-> seen[t] \cup {"removal"}]
    /\ kept' = [t \in Threads |-> FALSE]
    /\ UNCHANGED <<conf, client, pc, local>>

Step(t) ==
    \/ Call(t) \/ CallNull(t)
    \/ Look(t) \/ MakeClient(t) \/ MakeFails(t) \/ Take(t)
    \/ Fault(t) \/ ClosedClient(t) \/ ModelFails(t)
    \/ EnsureBucket(t) \/ EnsureCollection(t)
    \/ Put(t) \/ Upsert(t) \/ Get(t) \/ Stat(t) \/ PutContentAddressed(t)
    \/ Search(t) \/ Url(t)
    \/ IfClient(t) \/ CloseClient(t) \/ DropClient(t)

Next == (\E t \in Threads : Step(t)) \/ RemoveItem \/ RemoveContainer
Spec == Init /\ [][Next]_vars

-----------------------------------------------------------------------------
(* The variables have their types; a client is in hand only during a call, *)
(* and a container fits its service (S3BlobStore, QdrantVectorStore).      *)
TypeOK ==
    /\ service \in {"s3", "qdrant"} /\ enabled \in BOOLEAN
    /\ client \in {"none", "live"}
    /\ container \in {Absent} \cup (IF service = "s3" THEN {"bucket"} ELSE Dims)
    /\ container = Absent => items = <<>>
    /\ pc \in [Threads -> Steps \cup {"idle", "look", "make", "take", "ifclient", "closing", "drop"}]
    /\ \A t \in Threads : call[t] \in Calls \cup {Op("close", NoSlot, "none")}
    /\ next \in [Threads -> Steps \cup {"ifclient"}]
    /\ mine \in [Threads -> {"none", "shared", "replaced", "closed"}]
    /\ \A t \in Threads : mine[t] = "none" <=> pc[t] \notin Steps
    /\ res \in [Threads -> {"none", "ok", "found", "absent", "StoreError", "raw"}]
    /\ seen \in [Threads -> SUBSET {"fault", "refused", "close", "removal"}]
    /\ kept \in [Threads -> BOOLEAN]

(* What a call that was c and ended with r says, of the service. *)
Holds(c, r) ==
    /\ (r = "ok" /\ c.what \in Ensures) => container # Absent
    /\ (r = "ok" /\ c.what \in Writes) => c.at \in Slots /\ items[c.at] = c.put
    /\ r = "found" => c.at \in Slots
    /\ (r = "absent" /\ c.what \in {"get", "exists"}) => c.at \notin Slots
    /\ (r = "absent" /\ c.what = "get") => container # Absent

(* What a call said is so, until somebody undoes it: an ensured container  *)
(* is there, written bytes and vectors are under their slot, a hit is a    *)
(* hit, and an object reported absent is missing from a bucket that is     *)
(* there -- get() never takes a missing bucket for a missing object        *)
(* (blob.py ensure_bucket, put_content_addressed, _NOT_FOUND_CODES;        *)
(* vector.py ensure_collection, upsert).                                   *)
OutcomeIsTrue ==
    \A t \in Threads :
        (pc[t] = "idle" /\ enabled /\ kept[t]) => Holds(call[t], res[t])

(* Losing the race to create a bucket or a collection is no failure: with  *)
(* a driver and a service that did nothing wrong, a client nobody closed   *)
(* and nothing removed, ensure_bucket and ensure_collection succeed (the re-checks of  *)
(* blob.py ensure_bucket and vector.py ensure_collection).                 *)
RaceIsNotFailure ==
    \A t \in Threads :
        (pc[t] = "idle" /\ call[t].what \in Ensures /\ seen[t] = {}) => res[t] = "ok"

(* However often an upsert is repeated, by whom and in whatever spelling   *)
(* of the key, a key has one point (vector.py normalise_point_id).         *)
OnePointPerKey ==
    service = "qdrant" =>
        \A a, b \in Slots : items[a].key = items[b].key => a = b

(* An exception that is no StoreError leaves the stores only when another  *)
(* thread's close() took the client away, or when Qdrant's driver refused  *)
(* the endpoint or an argument: S3 folds such a refusal, and both fold     *)
(* whatever goes wrong with a request (errors.py wrap_errors,              *)
(* _s3_error_types, _qdrant_error_types).                                  *)
RawErrorsExplained ==
    \A t \in Threads : (pc[t] = "idle" /\ res[t] = "raw") =>
        "close" \in seen[t] \/ (service = "qdrant" /\ "refused" \in seen[t])

=============================================================================
