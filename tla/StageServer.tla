------------------------------ MODULE StageServer ------------------------------
(***************************************************************************)
(* The process of a stage, from its environment to its answers: what       *)
(* env_flag, StoreConfig.from_env, open_*_store and coordinator_from_env   *)
(* make of the variables that are set (src/argus_cortex/server.py,         *)
(* store/config.py, store/*.py, gpu.py), the WriteGuard before its routes, *)
(* and the version gate of what it reads and keeps (wire.py).  Servers of  *)
(* several builds share the documents, are stopped and started again with  *)
(* other builds and other variables.                                       *)
(*                                                                         *)
(* A variable's text is a record: the word that strip().lower() leaves,    *)
(* whether the text is just that word, and the number that it spells.  An  *)
(* origin is a scheme and what follows "://".  The application behind the  *)
(* guard, which reads, keeps and deletes documents, is not of this         *)
(* repository.                                                             *)
(***************************************************************************)
EXTENDS Integers, Sequences, FiniteSets

CONSTANTS
    Servers,    \* the processes
    Envs,       \* Envs[s]: what the variables of a server may be set to
    Builds,     \* [version |-> the version it stamps, reads |-> its majors]
    Methods,    \* the HTTP methods
    Origins,    \* the Origin headers
    Trusted,    \* those that the operator trusts
    Hosts,      \* the Host headers
    MaxDocs,    \* how many documents are kept
    Infinite,   \* a number that is not finite
    None        \* absent

ASSUME BuildAssumption ==
    \A b \in Builds : b.version \in Seq(Nat) /\ Len(b.version) > 0 /\ b.version[1] \in b.reads
ASSUME NumberAssumption == Infinite \in Nat /\ Infinite > 300 /\ MaxDocs \in Nat \ {0}
ASSUME NoneAssumption ==
    None \notin Int /\ None \notin Methods /\ \A b \in Builds : b.version # None
ASSUME MethodAssumption ==
    Methods \subseteq {"GET", "HEAD", "OPTIONS", "POST", "PUT", "PATCH", "DELETE"}
ASSUME TextAssumption ==
    \A s \in Servers : \A env \in Envs[s] :
        /\ {"pg_pool_min_size", "pg_pool_max_size", "timeout_s", "device"} \subseteq DOMAIN env
        /\ \A v \in DOMAIN env :
              /\ env[v].number \in Int
              /\ env[v].kind \in {"integer", "decimal"} => env[v].number < Infinite

VARIABLES
    server,     \* each process: down, failed to start, or up with its parts
    docs,       \* the payloads kept
    answer      \* the request in hand: whose, what came of it, for which payload

vars == <<server, docs, answer>>

-----------------------------------------------------------------------------
(* Slips one could make in this code.  The specification does not use      *)
(* them; the properties at the end must tell each from what the code does. *)

\* A number that is not finite is as good as another.
UsableEvenInfinite(text, kinds) == text.kind \in kinds \cup {"infinite"} /\ text.number >= 0

\* The first character of the version.
SchemaMajorDigit(version) == IF version[1] < 10 THEN version[1] ELSE version[1] \div 10

\* An opaque origin is at no host, and so is a request without one.
CrossSiteRefuseNoHost(r) ==
    r.origin # None /\ r.origin \notin Trusted /\ r.origin.site # r.host

-----------------------------------------------------------------------------
(* server.py: env_flag *)

TRUTHY == {"1", "true", "yes", "on"}
FALSY == {"0", "false", "no", "off", ""}

EnvFlag(text) == text.word \in TRUTHY
FlagWarns(text) == text.word \notin TRUTHY \cup FALSY

(* bool() of the text itself *)
Given(text) == ~(text.word = "" /\ text.bare)

-----------------------------------------------------------------------------
(* store: StoreConfig.from_env and open_*_store *)

GetInt(text, default) == IF text.kind = "integer" THEN text.number ELSE default

FromEnv(env) ==
    [pg_url |-> Given(env.pg_url),
     pg_pool_min_size |-> GetInt(env.pg_pool_min_size, 0),
     pg_pool_max_size |-> GetInt(env.pg_pool_max_size, 8),
     qdrant_url |-> Given(env.qdrant_url),
     s3 |-> Given(env.s3_endpoint) /\ Given(env.s3_bucket)]

InvalidPool(min_size, max_size) == min_size < 0 \/ max_size < 1 \/ max_size < min_size

OpenLineageStore(config) ==
    IF ~config.pg_url THEN "null"
    ELSE IF InvalidPool(config.pg_pool_min_size, config.pg_pool_max_size) THEN "StoreError"
    ELSE "live"

-----------------------------------------------------------------------------
(* gpu.py: coordinator_from_env *)

DEFAULT_TIMEOUT_S == 300

Usable(text, kinds) == text.kind \in kinds /\ text.number >= 0
EnvNumber(text, kinds) == IF Usable(text, kinds) THEN text.number ELSE None

OrDefault(number, default) == IF number = None THEN default ELSE number

BuildCoordinator(name, timeout_s, device) ==
    LET key == IF Given(name) THEN name.word ELSE "none" IN
    IF key = "none" THEN [name |-> "none"]
    ELSE IF key = "lease" /\ OrDefault(timeout_s, DEFAULT_TIMEOUT_S) # Infinite
      THEN [name |-> "lease", timeout_s |-> OrDefault(timeout_s, DEFAULT_TIMEOUT_S),
            device |-> OrDefault(device, 0)]
    ELSE [name |-> "ValueError"]

CoordinatorFromEnv(env) ==
    BuildCoordinator(env.coordinator, EnvNumber(env.timeout_s, {"integer", "decimal"}),
                     EnvNumber(env.device, {"integer"}))

-----------------------------------------------------------------------------
(* wire.py: make_versioned_base *)

SchemaMajor(version) == version[1]
CheckVersion(version, reads) == SchemaMajor(version) \in reads

(* The field of a payload that has none defaults to the build's version.   *)
Stamped(payload, build) ==
    IF payload.version = None THEN [payload EXCEPT !.version = build.version] ELSE payload
Reads(build, payload) == CheckVersion(Stamped(payload, build).version, build.reads)

(* What builds send and keep: the version stamped, the major it is laid    *)
(* out for, and whether its author stamped it.                             *)
Payloads ==
    {[version |-> b.version, layout |-> b.version[1], own |-> TRUE] : b \in Builds}
    \cup {[version |-> None, layout |-> b.version[1], own |-> FALSE] : b \in Builds}

-----------------------------------------------------------------------------
(* server.py: WriteGuard *)

UNSAFE_METHODS == {"POST", "PUT", "PATCH", "DELETE"}

Requests ==
    [type : {"http"}, method : Methods, origin : Origins \cup {None}, host : Hosts]
    \cup [type : {"websocket"}, method : {None}, origin : Origins \cup {None}, host : Hosts]

CrossSiteRefuse(r) ==
    /\ r.origin # None
    /\ r.origin \notin Trusted
    /\ ~(r.host # "" /\ r.origin.site = r.host)

(* One guard: constant_refuse when the flag is on, else cross_site_refuse. *)
Refuse(up, r) == up.read_only \/ CrossSiteRefuse(r)
Refused(up, r) == r.type = "http" /\ r.method \in UNSAFE_METHODS /\ Refuse(up, r)

-----------------------------------------------------------------------------

Down == [status |-> "down"]
NoAnswer == [status |-> "none"]

Init == server = [s \in Servers |-> Down] /\ docs = {} /\ answer = NoAnswer

(* The stage reads its variables and makes its parts; an exception of one  *)
(* of them ends it.                                                        *)
Parts(build, env) ==
    LET config == FromEnv(env) IN
    [build |-> build, env |-> env,
     read_only |-> EnvFlag(env.read_only),
     config |-> config,
     lineage |-> OpenLineageStore(config),
     gpu |-> CoordinatorFromEnv(env),
     warned |-> FlagWarns(env.read_only)]

Started(parts) ==
    [status |-> IF parts.lineage = "StoreError" \/ parts.gpu.name = "ValueError"
                THEN "failed" ELSE "up",
     parts |-> parts]

Start(s) ==
    /\ server[s] = Down
    /\ \E build \in Builds, env \in Envs[s] :
          server' = [server EXCEPT ![s] = Started(Parts(build, env))]
    /\ UNCHANGED <<docs, answer>>

(* It is stopped or dies, and with it the request that it has in hand.    *)
Stop(s) ==
    /\ server[s] # Down
    /\ server' = [server EXCEPT ![s] = Down]
    /\ answer' = IF answer # NoAnswer /\ answer.server = s THEN NoAnswer ELSE answer
    /\ UNCHANGED docs

Ask(s) ==
    /\ server[s].status = "up"
    /\ answer = NoAnswer
    /\ \E r \in Requests :
          answer' = [server |-> s, request |-> r, payload |-> None, status |-> "asked"]
    /\ UNCHANGED <<server, docs>>

Reply(payload, status) == answer' = [answer EXCEPT !.payload = payload, !.status = status]

(* The guard answers, and the application never hears of it. *)
Forbid(up, r) ==
    /\ Refused(up, r)
    /\ Reply(None, "forbidden")
    /\ UNCHANGED docs

Read(up, r) ==
    /\ r.method = "GET"
    /\ \E d \in docs : Reply(d, IF Reads(up.build, d) THEN "ok" ELSE "VersionError")
    /\ UNCHANGED docs

Keep(up, r) ==
    /\ r.method \in {"POST", "PUT", "PATCH", None}
    /\ \E p \in Payloads :
          \/ /\ Reads(up.build, p) /\ Cardinality(docs \cup {Stamped(p, up.build)}) <= MaxDocs
             /\ docs' = docs \cup {Stamped(p, up.build)}
             /\ Reply(p, "ok")
          \/ ~Reads(up.build, p) /\ Reply(p, "VersionError") /\ UNCHANGED docs

Delete(r) ==
    /\ r.method = "DELETE"
    /\ \E d \in docs : docs' = docs \ {d}
    /\ Reply(None, "ok")

(* Not found, a full store, a request that keeps nothing. *)
Other == Reply(None, "ok") /\ UNCHANGED docs

Handle(s) ==
    /\ answer.status = "asked" /\ answer.server = s
    /\ LET up == server[s].parts
           r == answer.request
       IN \/ Forbid(up, r)
          \/ ~Refused(up, r) /\ (Read(up, r) \/ Keep(up, r) \/ Delete(r) \/ Other)
    /\ UNCHANGED server

Done ==
    /\ answer.status \notin {"none", "asked"}
    /\ answer' = NoAnswer
    /\ UNCHANGED <<server, docs>>

Next == Done \/ \E s \in Servers : Start(s) \/ Stop(s) \/ Ask(s) \/ Handle(s)

Spec == Init /\ [][Next]_vars

-----------------------------------------------------------------------------

(* The documents and the answers are what they can be. *)
Kept ==
    {[version |-> b.version, layout |-> c.version[1], own |-> o] :
        b \in Builds, c \in Builds, o \in BOOLEAN}

TypeOK ==
    /\ DOMAIN server = Servers
    /\ docs \subseteq Kept
    /\ \A s \in Servers :
          \/ server[s] = Down
          \/ \E build \in Builds, env \in Envs[s] : server[s] = Started(Parts(build, env))
    /\ answer = NoAnswer \/ answer.server \in Servers

(* The sizes of a pool that cannot be, where a text that is no number is   *)
(* taken for the default, 0 or 8: a number that is wrong in itself, or a   *)
(* least size above the greatest.  The greatest may be the default for     *)
(* lack of a number, as with MIN_SIZE=10 and MAX_SIZE=ten.                 *)
WrongSizes(min, max) ==
    \/ max.kind = "integer" /\ max.number < 1
    \/ /\ min.kind = "integer"
       /\ min.number \notin 0..(IF max.kind = "integer" THEN max.number ELSE 8)

(* A server that is up has parts it can work with, however its variables   *)
(* were mistyped: a pool that can serve, a deadline that fires, and a      *)
(* protection that is off by its operator's word or with a warning.  One   *)
(* that did not start was given the name of no coordinator, or a database  *)
(* with wrong sizes; no other text keeps a server down, a deadline, a      *)
(* device or a flag that is mistyped among them.                           *)
StartsUsable ==
    \A s \in Servers :
        /\ server[s].status = "up" =>
             LET p == server[s].parts IN
             /\ p.lineage = "live" =>
                  /\ p.config.pg_pool_min_size \in 0..p.config.pg_pool_max_size
                  /\ p.config.pg_pool_max_size > 0
             /\ p.gpu.name = "lease" => p.gpu.timeout_s \in 0..(Infinite - 1) /\ p.gpu.device >= 0
             /\ p.read_only \/ p.warned \/ p.env.read_only.word \in FALSY
        /\ server[s].status = "failed" =>
             LET env == server[s].parts.env IN
             \/ Given(env.coordinator) /\ env.coordinator.word \notin {"none", "lease"}
             \/ Given(env.pg_url) /\ WrongSizes(env.pg_pool_min_size, env.pg_pool_max_size)

(* Documents change only for a websocket or for a write that the server's  *)
(* mode allows (server.py:8-11): a server that is read-only makes none,    *)
(* and no write comes from another site than one that is trusted or the    *)
(* server's own.  Of the standard methods over HTTP just those writes are  *)
(* refused; what a server shows to whom is no part of this: reads are let  *)
(* through, and so is a websocket, whatever its origin.                    *)
Foreign(r) ==
    /\ r.origin # None /\ r.origin \notin Trusted
    /\ r.origin.site = "" \/ r.origin.site # r.host

Writes(r) == r.type = "http" /\ r.method \notin {"GET", "HEAD", "OPTIONS"}
Allowed(r) == ~server[answer.server].parts.read_only /\ ~Foreign(r)

GuardedStep ==
    LET r == answer.request IN
    /\ docs' # docs =>
         answer.status = "asked" /\ (r.type = "websocket" \/ (Writes(r) /\ Allowed(r)))
    /\ answer.status = "asked" /\ answer'.status \notin {"none", "asked"} =>
         (answer'.status = "forbidden" <=> Writes(r) /\ ~Allowed(r))

GuardIsExact == [][GuardedStep]_vars

(* "refuse an incompatible major instead of misreading it" (wire.py:5): a  *)
(* payload that its author stamped is taken only by a build that reads its *)
(* layout, and keeps its stamp, whichever builds have kept and read it     *)
(* since.  (A payload without a stamp is taken for one of the reader's.)   *)
NeverMisread ==
    /\ answer.status = "ok" /\ answer.payload # None /\ answer.payload.own =>
         answer.payload.layout \in server[answer.server].parts.build.reads
    /\ \A d \in docs : d.own => d.version[1] = d.layout
=============================================================================
