----------------------------- MODULE RemoteBackend -----------------------------
(***************************************************************************)
(* RemoteBackend.post_json and get_json (src/argus_cortex/backends.py):    *)
(* requests of several threads to one endpoint over one lazily created     *)
(* client, with_retries around each, unload() at any time, and a network   *)
(* that loses requests and replies and delays both past the caller's       *)
(* timeout.                                                                *)
(*                                                                         *)
(* Request <<c, n>> is the n-th attempt of call c.  The backoff's delays   *)
(* are left out: a sleep takes any time.  A client is named after the      *)
(* call that created it.                                                   *)
(***************************************************************************)
EXTENDS Naturals

CONSTANTS
    Calls,         \* calls of post_json or get_json, each in its thread
    Posts,         \* those of post_json
    Unloaders,     \* calls of unload()
    Attempts,      \* attempts, of with_retries
    None

ASSUME PostsAssumption == Posts \subseteq Calls
ASSUME AttemptsAssumption == Attempts \in Nat \ {0}
ASSUME NoneAssumption == None \notin Calls

Clients == Calls \cup {None}
Requests == Calls \X (1..Attempts)

VARIABLES
    http,       \* self._http
    client,     \* client[c] of call c: "unborn", "open" or "closed"
    pc,         \* where each call is
    using,      \* the client it took
    attempt,    \* its attempts so far
    out,        \* how it ended
    net,        \* requests on their way
    handled,    \* requests the server carried out
    replies,    \* the server's answers on their way: request -> answer
    heard,      \* history: requests whose answer reached the caller
    ul          \* where each unload() is

vars == <<http, client, pc, using, attempt, out, net, handled, replies, heard, ul>>
lazy == <<http, client, using>>
wire == <<net, handled, replies>>
call == <<pc, attempt, out>>

Answers == {"json", "status", "garbage"}
Goto(c, from, to) == pc[c] = from /\ pc' = [pc EXCEPT ![c] = to]
End(c, result) ==
    /\ pc' = [pc EXCEPT ![c] = "done"]
    /\ out' = [out EXCEPT ![c] = result]

Init ==
    /\ http = None
    /\ client = [c \in Calls |-> "unborn"]
    /\ pc = [c \in Calls |-> "look"]
    /\ using = [c \in Calls |-> None]
    /\ attempt = [c \in Calls |-> 0]
    /\ out = [c \in Calls |-> "none"]
    /\ net = {} /\ handled = {} /\ replies = <<>> /\ heard = {}
    /\ ul = [u \in Unloaders |-> "look"]

-----------------------------------------------------------------------------
(* Slips one could make in this code.  The specification does not use      *)
(* them; the properties must tell each from what the code does.            *)

\* HTTPStatusError counts as transient.
HearStatusTransient(c, answer) ==
    IF answer = "status" /\ attempt[c] < Attempts
      THEN pc' = [pc EXCEPT ![c] = "sleep"] /\ UNCHANGED out
      ELSE End(c, IF answer = "json" THEN "ok" ELSE "BackendError")

\* The loop breaks one attempt early.
LastTryEarly(n) == n + 1 >= Attempts

\* The loop does not count the attempt it retries.
CountNot(c) == attempt

-----------------------------------------------------------------------------
(* _client(): created on first use, without a lock                         *)

Look(c) ==
    /\ Goto(c, "look", IF http = None THEN "create" ELSE "take")
    /\ UNCHANGED <<attempt, out, heard, ul>> /\ UNCHANGED lazy /\ UNCHANGED wire

Create(c) ==
    /\ Goto(c, "create", "store")
    /\ client' = [client EXCEPT ![c] = "open"]
    /\ UNCHANGED <<http, using, attempt, out, heard, ul>> /\ UNCHANGED wire

(* No client can be made: httpx is not installed or there is no base_url,  *)
(* which are BackendErrors, or httpx refuses the base_url, an error of its *)
(* own.  Nothing wraps or retries what is raised here.                     *)
CreateFails(c) ==
    /\ pc[c] = "create"
    /\ \E result \in {"BackendError", "InvalidURL"} : End(c, result)
    /\ UNCHANGED <<attempt, heard, ul>> /\ UNCHANGED lazy /\ UNCHANGED wire

Store(c) ==
    /\ Goto(c, "store", "take")
    /\ http' = c
    /\ UNCHANGED <<client, using, attempt, out, heard, ul>> /\ UNCHANGED wire

(* `return self._http', which an unload() may have set to None again. *)
Take(c) ==
    /\ Goto(c, "take", "try")
    /\ using' = [using EXCEPT ![c] = http]
    /\ UNCHANGED <<http, client, attempt, out, heard, ul>> /\ UNCHANGED wire

-----------------------------------------------------------------------------
(* with_retries around one request                                         *)

LastTry(n) == n = Attempts
Count(c) == [attempt EXCEPT ![c] = @ + 1]

(* A transport error in attempt n: another one after a sleep, or the last  *)
(* error, wrapped.                                                         *)
Transient(c, n) ==
    IF LastTry(n) THEN End(c, "BackendError")
                  ELSE pc' = [pc EXCEPT ![c] = "sleep"] /\ UNCHANGED out

Usable(c) == using[c] # None /\ client[using[c]] = "open"

(* An attempt that does not fail before it is sent. *)
Send(c) ==
    /\ Usable(c)
    /\ Goto(c, "try", "wait")
    /\ attempt' = Count(c)
    /\ net' = net \cup {<<c, attempt'[c]>>}
    /\ UNCHANGED <<out, handled, replies, heard, ul>> /\ UNCHANGED lazy

(* An attempt that finds no client, or a closed one: an error that is      *)
(* neither retried nor wrapped.                                            *)
NoClient(c) ==
    /\ pc[c] = "try"
    /\ ~Usable(c)
    /\ attempt' = Count(c)
    /\ End(c, IF using[c] = None THEN "AttributeError" ELSE "RuntimeError")
    /\ UNCHANGED <<heard, ul>> /\ UNCHANGED lazy /\ UNCHANGED wire

(* Connecting fails. *)
ConnectFails(c) ==
    /\ Usable(c)
    /\ pc[c] = "try"
    /\ attempt' = Count(c)
    /\ Transient(c, attempt'[c])
    /\ UNCHANGED <<heard, ul>> /\ UNCHANGED lazy /\ UNCHANGED wire

(* No answer comes in time, or the connection breaks: the request may be   *)
(* lost, still on its way, or carried out.                                 *)
NoAnswer(c) ==
    /\ pc[c] = "wait"
    /\ Transient(c, attempt[c])
    /\ UNCHANGED <<attempt, heard, ul>> /\ UNCHANGED lazy /\ UNCHANGED wire

(* An answer: JSON, a 4xx or 5xx, or a body that is not JSON. *)
Hear(c, answer) == End(c, IF answer = "json" THEN "ok" ELSE "BackendError")
Answered(c) ==
    LET r == <<c, attempt[c]>> IN
    /\ pc[c] = "wait" /\ r \in DOMAIN replies
    /\ Hear(c, replies[r])
    /\ heard' = heard \cup {r}
    /\ UNCHANGED <<attempt,  ul>> /\ UNCHANGED lazy /\ UNCHANGED wire

Wake(c) ==
    /\ Goto(c, "sleep", "try")
    /\ UNCHANGED <<attempt, out, heard, ul>> /\ UNCHANGED lazy /\ UNCHANGED wire

-----------------------------------------------------------------------------
(* The endpoint and the network                                            *)

Serve(r) ==
    /\ r \in net
    /\ net' = net \ {r} /\ handled' = handled \cup {r}
    /\ \E answer \in Answers :
         replies' = [q \in DOMAIN replies \cup {r} |-> IF q = r THEN answer ELSE replies[q]]
    /\ UNCHANGED <<heard, ul>> /\ UNCHANGED lazy /\ UNCHANGED call

Lose(r) ==
    /\ r \in net
    /\ net' = net \ {r}
    /\ UNCHANGED <<handled, replies, heard, ul>> /\ UNCHANGED lazy /\ UNCHANGED call

-----------------------------------------------------------------------------
(* unload()                                                                *)

UnloadAt(u, from, to) == ul[u] = from /\ ul' = [ul EXCEPT ![u] = to]

IfClient(u) ==
    /\ UnloadAt(u, "look", IF http = None THEN "done" ELSE "close")
    /\ UNCHANGED <<heard>> /\ UNCHANGED lazy /\ UNCHANGED wire /\ UNCHANGED call

CloseClient(u) ==
    /\ UnloadAt(u, "close", IF http = None THEN "AttributeError" ELSE "forget")
    /\ client' = [c \in Calls |-> IF c = http THEN "closed" ELSE client[c]]
    /\ UNCHANGED <<http, using, heard>> /\ UNCHANGED wire /\ UNCHANGED call

ForgetClient(u) ==
    /\ UnloadAt(u, "forget", "done")
    /\ http' = None
    /\ UNCHANGED <<client, using, heard>> /\ UNCHANGED wire /\ UNCHANGED call

-----------------------------------------------------------------------------

Try(c) == Send(c) \/ NoClient(c) \/ ConnectFails(c)
Run(c) ==
    \/ Look(c) \/ Create(c) \/ CreateFails(c) \/ Store(c) \/ Take(c)
    \/ Try(c) \/ NoAnswer(c) \/ Answered(c) \/ Wake(c)

Next ==
    \/ \E c \in Calls : Run(c)
    \/ \E r \in Requests : Serve(r) \/ Lose(r)
    \/ \E u \in Unloaders : IfClient(u) \/ CloseClient(u) \/ ForgetClient(u)

Spec == Init /\ [][Next]_vars

(* Threads run, and httpx gives up waiting after its timeout. *)
FairSpec == Spec /\ \A c \in Calls : WF_vars(Run(c))

-----------------------------------------------------------------------------

(* Every variable stays within its type. *)
TypeOK ==
    /\ http \in Clients /\ using \in [Calls -> Clients]
    /\ client \in [Calls -> {"unborn", "open", "closed"}]
    /\ pc \in [Calls -> {"look", "create", "store", "take", "try", "wait", "sleep", "done"}]
    /\ attempt \in [Calls -> 0..Attempts]
    /\ out \in [Calls -> {"none", "ok", "BackendError", "InvalidURL", "AttributeError",
                         "RuntimeError"}]
    /\ net \subseteq Requests /\ handled \subseteq Requests /\ heard \subseteq Requests
    /\ DOMAIN replies \subseteq Requests
    /\ ul \in [Unloaders -> {"look", "close", "forget", "done", "AttributeError"}]

(* "A raise_for_status() 4xx/5xx is deliberately excluded - a 401/404      *)
(* never succeeds on retry" (_transient_errors): the first answer a call   *)
(* gets, even to the last of several attempts, ends it; and it succeeds    *)
(* only on an answer to the attempt it was on.                             *)
AnswerIsFinal ==
    /\ \A r \in heard : pc[r[1]] = "done" /\ attempt[r[1]] = r[2]
    /\ \A c \in Calls : out[c] = "ok" =>
         <<c, attempt[c]>> \in heard /\ replies[<<c, attempt[c]>>] = "json"

(* "Re-raises the last error after attempts tries" (with_retries): a call  *)
(* that fails with a BackendError and without an answer has used every   *)
(* attempt it had, unless it never had a client to try with.  A POST that  *)
(* the server carried out may stop earlier: it "must not be blindly        *)
(* re-sent" (_transient_errors).                                           *)
Reached(c) == \E n \in 1..Attempts : <<c, n>> \in handled
NeverTried(c) == attempt[c] = 0 /\ using[c] = None
EveryTryIsUsed ==
    \A c \in Calls : out[c] = "BackendError" /\ <<c, attempt[c]>> \notin heard
        => attempt[c] = Attempts \/ NeverTried(c) \/ (c \in Posts /\ Reached(c))

(* "a POST that reached the server must not be blindly re-sent"            *)
(* (_transient_errors): no request of a POST is sent once the server has   *)
(* carried one out.  with_retries does send it, after a read timeout.      *)
PostNotResent == [][\A r \in net' \ net : r[1] \in Posts => ~Reached(r[1])]_vars

(* Every call ends, whatever the network does and whenever unload() comes. *)
EveryCallEnds == \A c \in Calls : <>(pc[c] = "done")
=============================================================================
