--------------------------- MODULE StageServerProofs ---------------------------
(***************************************************************************)
(* Theorems about StageServer, for every set of servers, builds, variables *)
(* and requests.                                                           *)
(***************************************************************************)
EXTENDS StageServer, TLAPS

Parted ==
    /\ DOMAIN server = Servers
    /\ \A s \in Servers :
          \/ server[s] = Down
          \/ \E build \in Builds, env \in Envs[s] : server[s] = Started(Parts(build, env))

(* A payload that has its author's stamp is laid out for that stamp.       *)
TrueStamp(p) == p.own => p.version # None /\ p.version[1] = p.layout

Documents == docs \subseteq Kept /\ \A d \in docs : TrueStamp(d)

(* The request in hand is that of a server that is up, which took no       *)
(* stamped payload that it cannot read.                                    *)
InHand ==
    answer # NoAnswer =>
        /\ answer = [server |-> answer.server, request |-> answer.request,
                     payload |-> answer.payload, status |-> answer.status]
        /\ answer.status # "none"
        /\ answer.server \in Servers /\ server[answer.server].status = "up"
        /\ answer.request \in Requests
        /\ answer.status = "ok" /\ answer.payload # None /\ answer.payload.own =>
             answer.payload.layout \in server[answer.server].parts.build.reads

IInv == Parted /\ Documents /\ InHand

-----------------------------------------------------------------------------

(* A text makes a number that can be used, or none. *)
LEMMA NumberUsable ==
  ASSUME NEW s \in Servers, NEW env \in Envs[s], NEW v \in DOMAIN env,
         NEW kinds \in SUBSET {"integer", "decimal"}
  PROVE  \/ EnvNumber(env[v], kinds) = None
         \/ EnvNumber(env[v], kinds) \in 0..(Infinite - 1)
  <1>1. /\ env[v].number \in Int
        /\ env[v].kind \in {"integer", "decimal"} => env[v].number < Infinite
    BY TextAssumption
  <1>2. CASE Usable(env[v], kinds)
    <2>1. env[v].kind \in {"integer", "decimal"} /\ env[v].number >= 0 BY <1>2 DEF Usable
    <2> QED BY <1>1, <1>2, <2>1, NumberAssumption DEF EnvNumber
  <1>3. CASE ~Usable(env[v], kinds) BY <1>3 DEF EnvNumber
  <1> QED BY <1>2, <1>3

(* What the guard lets through, it lets through rightly. *)
LEMMA GuardDecides ==
  ASSUME NEW up, NEW r \in Requests
  PROVE  Refused(up, r) <=> Writes(r) /\ (up.read_only \/ Foreign(r))
  <1>1. CASE r.type = "http"
    <2>1. r.method \in Methods
      BY <1>1 DEF Requests
    <2>2. r.method \in UNSAFE_METHODS <=> r.method \notin {"GET", "HEAD", "OPTIONS"}
      BY <2>1, MethodAssumption DEF UNSAFE_METHODS
    <2>3. CrossSiteRefuse(r) <=> Foreign(r)
      BY DEF CrossSiteRefuse, Foreign
    <2> QED BY <1>1, <2>2, <2>3 DEF Refused, Refuse, Writes
  <1>2. CASE r.type # "http"
    BY <1>2 DEF Refused, Writes
  <1> QED BY <1>1, <1>2

(* A stamped payload that a build takes is laid out for a major it reads.  *)
LEMMA TakenIsReadable ==
  ASSUME NEW build, NEW p, TrueStamp(p), p.own, Reads(build, p),
         p = [version |-> p.version, layout |-> p.layout, own |-> p.own]
  PROVE  p.layout \in build.reads /\ Stamped(p, build) = p
  BY DEF TrueStamp, Reads, Stamped, CheckVersion, SchemaMajor

LEMMA PayloadsStamped ==
  ASSUME NEW p \in Payloads, NEW build \in Builds
  PROVE  /\ TrueStamp(p)
         /\ p = [version |-> p.version, layout |-> p.layout, own |-> p.own]
         /\ Stamped(p, build) \in Kept /\ TrueStamp(Stamped(p, build))
  <1>1. ASSUME NEW v \in Builds, NEW l \in Builds, NEW o \in BOOLEAN
        PROVE  [version |-> v.version, layout |-> l.version[1], own |-> o] \in Kept
    BY DEF Kept
  <1>2. CASE \E b \in Builds : p = [version |-> b.version, layout |-> b.version[1], own |-> TRUE]
    <2>1. PICK b \in Builds : p = [version |-> b.version, layout |-> b.version[1], own |-> TRUE]
      BY <1>2
    <2>2. p.version # None BY <2>1, NoneAssumption
    <2>3. Stamped(p, build) = p BY <2>1, <2>2 DEF Stamped
    <2>4. p \in Kept BY <1>1, <2>1
    <2> QED BY <2>1, <2>2, <2>3, <2>4 DEF TrueStamp
  <1>3. CASE \E b \in Builds : p = [version |-> None, layout |-> b.version[1], own |-> FALSE]
    <2>1. PICK b \in Builds : p = [version |-> None, layout |-> b.version[1], own |-> FALSE]
      BY <1>3
    <2>2. Stamped(p, build) = [version |-> build.version, layout |-> b.version[1], own |-> FALSE]
      BY <2>1 DEF Stamped
    <2>3. Stamped(p, build) \in Kept BY <1>1, <2>2
    <2> QED BY <2>1, <2>2, <2>3 DEF TrueStamp
  <1> QED BY <1>2, <1>3 DEF Payloads

LEMMA UpHasParts ==
  ASSUME Parted, NEW s \in Servers, server[s].status = "up"
  PROVE  \E build \in Builds, env \in Envs[s] :
            server[s] = Started(Parts(build, env)) /\ server[s].parts.build = build
  <1>1. server[s] # Down BY DEF Down
  <1> QED BY <1>1 DEF Parted, Started, Parts

-----------------------------------------------------------------------------

LEMMA HandleKeeps ==
  ASSUME IInv, NEW s \in Servers, Handle(s)
  PROVE  IInv'
  <1> DEFINE up == server[s].parts
             r == answer.request
  <1>1. answer # NoAnswer /\ answer.server = s /\ server[s].status = "up" /\ r \in Requests
    BY DEF Handle, IInv, InHand, NoAnswer
  <1>2. up.build \in Builds
    BY <1>1, UpHasParts DEF IInv
  <1>3. ASSUME NEW p, NEW st \in {"ok", "forbidden", "VersionError"}, Reply(p, st),
               st = "ok" /\ p # None /\ p.own => p.layout \in up.build.reads
        PROVE  InHand'
    <2>1. answer' = [server |-> s, request |-> r, payload |-> p, status |-> st]
      BY <1>1, <1>3 DEF Reply, IInv, InHand
    <2>2. server' = server BY DEF Handle
    <2> QED BY <1>1, <1>3, <2>1, <2>2 DEF InHand
  <1>4. Parted' BY DEF Handle, IInv, Parted, Started, Parts
  <1>5. CASE Forbid(up, r)
    <2>1. InHand' BY <1>3, <1>5 DEF Forbid
    <2> QED BY <1>4, <1>5, <2>1 DEF Forbid, IInv, Documents
  <1>6. CASE Read(up, r)
    <2>1. PICK d \in docs : Reply(d, IF Reads(up.build, d) THEN "ok" ELSE "VersionError")
      BY <1>6 DEF Read
    <2>2. TrueStamp(d) /\ d = [version |-> d.version, layout |-> d.layout, own |-> d.own]
      BY <2>1 DEF IInv, Documents, Kept
    <2>3. InHand' BY <1>3, <2>1, <2>2, TakenIsReadable
    <2> QED BY <1>4, <1>6, <2>3 DEF Read, IInv, Documents
  <1>7. CASE Keep(up, r)
    <2>1. PICK p \in Payloads :
             \/ Reads(up.build, p) /\ docs' = docs \cup {Stamped(p, up.build)} /\ Reply(p, "ok")
             \/ Reply(p, "VersionError") /\ UNCHANGED docs
      BY <1>7 DEF Keep
    <2>2. InHand' BY <1>2, <1>3, <2>1, PayloadsStamped, TakenIsReadable
    <2>3. Documents' BY <1>2, <2>1, PayloadsStamped DEF IInv, Documents
    <2> QED BY <1>4, <2>2, <2>3 DEF IInv
  <1>8. CASE Delete(r)
    <2>1. InHand' BY <1>3, <1>8 DEF Delete
    <2> QED BY <1>4, <1>8, <2>1 DEF Delete, IInv, Documents
  <1>9. CASE Other
    <2>1. InHand' BY <1>3, <1>9 DEF Other
    <2> QED BY <1>4, <1>9, <2>1 DEF Other, IInv, Documents
  <1> QED BY <1>1, <1>5, <1>6, <1>7, <1>8, <1>9 DEF Handle

LEMMA StepKeeps == IInv /\ [Next]_vars => IInv'
  <1> SUFFICES ASSUME IInv, [Next]_vars PROVE IInv'
    OBVIOUS
  <1>1. ASSUME NEW s \in Servers, Start(s) PROVE IInv'
    <2>1. PICK build \in Builds, env \in Envs[s] :
             server' = [server EXCEPT ![s] = Started(Parts(build, env))]
      BY <1>1 DEF Start
    <2>2. Parted' BY <2>1 DEF IInv, Parted
    <2>3. InHand'
      <3>1. \A t \in Servers \ {s} : server'[t] = server[t] BY <2>1 DEF IInv, Parted
      <3>2. answer # NoAnswer => answer.server # s BY <1>1 DEF Start, IInv, InHand, Down
      <3> QED BY <1>1, <3>1, <3>2 DEF Start, IInv, InHand
    <2> QED BY <1>1, <2>2, <2>3 DEF Start, IInv, Documents
  <1>2. ASSUME NEW s \in Servers, Stop(s) PROVE IInv'
    <2>1. Parted' BY <1>2 DEF Stop, IInv, Parted
    <2>2. InHand'
      <3>1. \A t \in Servers \ {s} : server'[t] = server[t] BY <1>2 DEF Stop, IInv, Parted
      <3> QED BY <1>2, <3>1 DEF Stop, IInv, InHand
    <2> QED BY <1>2, <2>1, <2>2 DEF Stop, IInv, Documents
  <1>3. ASSUME NEW s \in Servers, Ask(s) PROVE IInv'
    <2>1. PICK r \in Requests :
             answer' = [server |-> s, request |-> r, payload |-> None, status |-> "asked"]
      BY <1>3 DEF Ask
    <2> QED BY <1>3, <2>1 DEF Ask, IInv, Parted, Documents, InHand, Started, Parts
  <1>4. CASE Done
    BY <1>4 DEF Done, IInv, Parted, Documents, InHand, Started, Parts
  <1>5. CASE UNCHANGED vars
    BY <1>5 DEF vars, IInv, Parted, Documents, InHand, Started, Parts
  <1> QED BY <1>1, <1>2, <1>3, <1>4, <1>5, HandleKeeps DEF Next

THEOREM Invariance == Spec => []IInv
  <1>1. Init => IInv
    BY DEF Init, IInv, Parted, Documents, InHand, NoAnswer
  <1> QED BY <1>1, StepKeeps, PTL DEF Spec

(* Servers are down or made from their variables, documents are payloads   *)
(* of builds.                                                              *)
THEOREM Typing == Spec => []TypeOK
  <1>1. IInv => TypeOK
    BY DEF IInv, Parted, Documents, InHand, TypeOK
  <1> QED BY <1>1, Invariance, PTL

-----------------------------------------------------------------------------
(* The parts of a server *)

LEMMA PartsUsable ==
  ASSUME NEW s \in Servers, NEW build \in Builds, NEW env \in Envs[s]
  PROVE  LET p == Parts(build, env) IN
         /\ p.lineage = "live" =>
              ~InvalidPool(p.config.pg_pool_min_size, p.config.pg_pool_max_size)
         /\ p.gpu.name = "lease" => p.gpu.timeout_s \in 0..(Infinite - 1) /\ p.gpu.device >= 0
         /\ p.gpu.name = "ValueError" =>
              Given(env.coordinator) /\ env.coordinator.word \notin {"none", "lease"}
         /\ p.lineage = "StoreError" =>
              Given(env.pg_url) /\ WrongSizes(env.pg_pool_min_size, env.pg_pool_max_size)
         /\ p.read_only \/ p.warned \/ env.read_only.word \in FALSY
  <1>1. (Parts(build, env)).lineage = "live" =>
           ~InvalidPool((Parts(build, env)).config.pg_pool_min_size,
                        (Parts(build, env)).config.pg_pool_max_size)
    BY DEF Parts, OpenLineageStore
  <1>2. (Parts(build, env)).lineage = "StoreError" =>
           Given(env.pg_url) /\ WrongSizes(env.pg_pool_min_size, env.pg_pool_max_size)
    <2>1. env.pg_pool_min_size.number \in Int /\ env.pg_pool_max_size.number \in Int
      BY TextAssumption
    <2>2. InvalidPool(GetInt(env.pg_pool_min_size, 0), GetInt(env.pg_pool_max_size, 8)) =>
             WrongSizes(env.pg_pool_min_size, env.pg_pool_max_size)
      BY <2>1 DEF InvalidPool, GetInt, WrongSizes
    <2> QED BY <2>2 DEF Parts, OpenLineageStore, FromEnv
  <1>3. /\ \/ EnvNumber(env.timeout_s, {"integer", "decimal"}) = None
           \/ EnvNumber(env.timeout_s, {"integer", "decimal"}) \in 0..(Infinite - 1)
        /\ \/ EnvNumber(env.device, {"integer"}) = None
           \/ EnvNumber(env.device, {"integer"}) \in 0..(Infinite - 1)
    <2>1. "timeout_s" \in DOMAIN env /\ "device" \in DOMAIN env BY TextAssumption
    <2> QED BY <2>1, NumberUsable
  <1>4. /\ OrDefault(EnvNumber(env.timeout_s, {"integer", "decimal"}), DEFAULT_TIMEOUT_S)
             \in 0..(Infinite - 1)
        /\ OrDefault(EnvNumber(env.device, {"integer"}), 0) >= 0
    BY <1>3, NumberAssumption, NoneAssumption DEF OrDefault, DEFAULT_TIMEOUT_S
  <1>5. LET g == CoordinatorFromEnv(env) IN
        /\ g.name = "lease" => g.timeout_s \in 0..(Infinite - 1) /\ g.device >= 0
        /\ g.name = "ValueError" =>
             Given(env.coordinator) /\ env.coordinator.word \notin {"none", "lease"}
    BY <1>4, NumberAssumption DEF CoordinatorFromEnv, BuildCoordinator
  <1>6. (Parts(build, env)).read_only \/ (Parts(build, env)).warned \/ env.read_only.word \in FALSY
    BY DEF Parts, EnvFlag, FlagWarns
  <1> QED BY <1>1, <1>2, <1>5, <1>6 DEF Parts

(* from_env, open_lineage_store, coordinator_from_env and env_flag         *)
(* (store/config.py:45-87, lineage.py:441-458, gpu.py:197-242,             *)
(* server.py:63-75): a server that starts has parts it can work with, and  *)
(* one that does not was given the name of no coordinator, or a database   *)
(* and sizes, as they are read, that no pool can have.                     *)
THEOREM UsableParts == Spec => []StartsUsable
  <1>1. IInv => StartsUsable
    <2> SUFFICES ASSUME IInv, NEW s \in Servers, server[s].status \in {"up", "failed"}
                 PROVE  LET p == server[s].parts
                            env == p.env
                        IN
                        /\ server[s].status = "up" =>
                           /\ p.lineage = "live" =>
                                /\ p.config.pg_pool_min_size \in 0..p.config.pg_pool_max_size
                                /\ p.config.pg_pool_max_size > 0
                           /\ p.gpu.name = "lease" =>
                                p.gpu.timeout_s \in 0..(Infinite - 1) /\ p.gpu.device >= 0
                           /\ p.read_only \/ p.warned \/ p.env.read_only.word \in FALSY
                        /\ server[s].status = "failed" =>
                           \/ Given(env.coordinator)
                                /\ env.coordinator.word \notin {"none", "lease"}
                           \/ Given(env.pg_url)
                                /\ WrongSizes(env.pg_pool_min_size, env.pg_pool_max_size)
      BY DEF StartsUsable
    <2>1. PICK build \in Builds, env \in Envs[s] : server[s] = Started(Parts(build, env))
      BY DEF IInv, Parted, Down
    <2>2. server[s].parts = Parts(build, env) /\ server[s].parts.env = env
      BY <2>1 DEF Started, Parts
    <2>3. server[s].status = "failed" =>
             \/ (Parts(build, env)).lineage = "StoreError"
             \/ (Parts(build, env)).gpu.name = "ValueError"
      BY <2>1 DEF Started
    <2>4. /\ (Parts(build, env)).config.pg_pool_min_size \in Int
          /\ (Parts(build, env)).config.pg_pool_max_size \in Int
      <3>1. env.pg_pool_min_size.number \in Int /\ env.pg_pool_max_size.number \in Int
        BY TextAssumption
      <3> QED BY <3>1 DEF Parts, FromEnv, GetInt
    <2>5. ~InvalidPool((Parts(build, env)).config.pg_pool_min_size,
                       (Parts(build, env)).config.pg_pool_max_size) =>
             /\ (Parts(build, env)).config.pg_pool_min_size
                   \in 0..(Parts(build, env)).config.pg_pool_max_size
             /\ (Parts(build, env)).config.pg_pool_max_size > 0
      BY <2>4 DEF InvalidPool
    <2> QED BY <2>2, <2>3, <2>5, PartsUsable
  <1> QED BY <1>1, Invariance, PTL

(* check_version and make_versioned_base (wire.py:40-82).                  *)
THEOREM Versions == Spec => []NeverMisread
  <1>1. IInv => NeverMisread
    BY DEF IInv, InHand, Documents, TrueStamp, NeverMisread, NoAnswer
  <1> QED BY <1>1, Invariance, PTL

(* WriteGuard, constant_refuse and cross_site_refuse (server.py:82-155):   *)
(* for every set of trusted origins, and for the standard methods over     *)
(* HTTP, the requests refused are the writes that the mode or the origin   *)
(* forbids, and documents change only by other writes and by websockets.   *)
THEOREM ExactGuard == Spec => GuardIsExact
  <1>1. IInv /\ [Next]_vars => [GuardedStep]_vars
    <2> SUFFICES ASSUME IInv, Next PROVE GuardedStep
      OBVIOUS
    <2>1. CASE Done \/ \E s \in Servers : Start(s) \/ Stop(s) \/ Ask(s)
      BY <2>1 DEF Done, Start, Stop, Ask, NoAnswer, GuardedStep
    <2>2. ASSUME NEW s \in Servers, Handle(s)
          PROVE  /\ docs' # docs =>
                      \/ answer.request.type = "websocket"
                      \/ Writes(answer.request) /\ Allowed(answer.request)
                 /\ (answer'.status = "forbidden"
                       <=> Writes(answer.request) /\ ~Allowed(answer.request))
      <3> DEFINE up == server[s].parts
                 r == answer.request
      <3>1. answer.server = s /\ r \in Requests
            /\ answer = [server |-> answer.server, request |-> r,
                         payload |-> answer.payload, status |-> answer.status]
        BY <2>2 DEF Handle, IInv, InHand, NoAnswer
      <3>2. Refused(up, r) <=> Writes(r) /\ ~Allowed(r)
        BY <3>1, GuardDecides DEF Allowed
      <3>3. ASSUME NEW p, NEW st, Reply(p, st) PROVE answer'.status = st
        BY <3>1, <3>3 DEF Reply
      <3>4. r.type = "websocket" \/ (r.type = "http" /\ r.method \in Methods /\ r.method # None)
        BY <3>1, MethodAssumption, NoneAssumption DEF Requests
      <3>5. CASE Forbid(up, r)
        BY <3>2, <3>3, <3>5 DEF Forbid
      <3>6. CASE ~Refused(up, r) /\ Read(up, r)
        <4>1. answer'.status # "forbidden" BY <3>3, <3>6 DEF Read
        <4> QED BY <3>2, <3>6, <4>1 DEF Read
      <3>7. CASE ~Refused(up, r) /\ Keep(up, r)
        <4>1. answer'.status # "forbidden" BY <3>3, <3>7 DEF Keep
        <4>2. r.type = "websocket" \/ Writes(r) BY <3>4, <3>7 DEF Keep, Writes
        <4> QED BY <3>2, <3>7, <4>1, <4>2
      <3>8. CASE ~Refused(up, r) /\ Delete(r)
        <4>1. answer'.status # "forbidden" BY <3>3, <3>8 DEF Delete
        <4>2. r.type = "websocket" \/ Writes(r) BY <3>4, <3>8 DEF Delete, Writes
        <4> QED BY <3>2, <3>8, <4>1, <4>2
      <3>9. CASE ~Refused(up, r) /\ Other
        <4>1. answer'.status # "forbidden" BY <3>3, <3>9 DEF Other
        <4> QED BY <3>2, <3>9, <4>1 DEF Other
      <3> QED BY <2>2, <3>5, <3>6, <3>7, <3>8, <3>9 DEF Handle
    <2> QED BY <2>1, <2>2 DEF Next, Handle, GuardedStep
  <1> QED BY <1>1, Invariance, PTL DEF Spec, GuardIsExact
=============================================================================
