-------------------------- MODULE RemoteBackendProofs --------------------------
(***************************************************************************)
(* Theorems about RemoteBackend for every set of calls and unloads and any *)
(* number of attempts.                                                     *)
(***************************************************************************)
EXTENDS RemoteBackend, TLAPS

(* A call between attempts has one left, and a waiting one is on a number  *)
(* that requests have.                                                     *)
AttemptsLeft ==
    \A c \in Calls :
        /\ pc[c] \notin {"wait", "done"} => attempt[c] < Attempts
        /\ pc[c] = "wait" => attempt[c] > 0

(* No request is numbered beyond its call's attempts, and each is served   *)
(* at most once: the answer of an attempt never changes.                   *)
Numbered ==
    \A c \in Calls, n \in 1..Attempts : <<c, n>> \in net \cup handled => n <= attempt[c]
ServedOnce == net \cap handled = {} /\ DOMAIN replies = handled /\ heard \subseteq handled

(* A call that has not taken its client has tried nothing. *)
Untried ==
    \A c \in Calls : pc[c] \in {"look", "create", "store", "take"} =>
        attempt[c] = 0 /\ using[c] = None

(* Only a call that is done has a result. *)
ResultAtEnd == \A c \in Calls : out[c] # "none" => pc[c] = "done"

IInv ==
    /\ TypeOK /\ AttemptsLeft /\ Numbered /\ ServedOnce /\ Untried /\ ResultAtEnd
    /\ AnswerIsFinal /\ EveryTryIsUsed

(* The invariant holds at first. *)
LEMMA InitIInv == Init => IInv
  BY AttemptsAssumption
  DEF Init, IInv, TypeOK, AttemptsLeft, Numbered, ServedOnce, Untried, ResultAtEnd,
      AnswerIsFinal, EveryTryIsUsed, Clients, Requests

-----------------------------------------------------------------------------

(* Steps that neither send, serve nor end anything: those of the lazy      *)
(* client, of a sleep and of unload().                                     *)
LEMMA QuietStep ==
    ASSUME IInv,
           UNCHANGED <<attempt, out, heard>>, UNCHANGED wire,
           \A c \in Calls : pc'[c] \in {"wait", "done"} <=> pc[c] \in {"wait", "done"},
           \A c \in Calls : pc'[c] = "wait" <=> pc[c] = "wait",
           \A c \in Calls : pc[c] = "done" => using'[c] = using[c],
           TypeOK', Untried'
    PROVE  IInv'
  <1>1. (AttemptsLeft /\ Numbered /\ ServedOnce /\ ResultAtEnd)'
    BY DEF IInv, wire, AttemptsLeft, Numbered, ServedOnce, ResultAtEnd
  <1>2. AnswerIsFinal'
    BY DEF IInv, wire, AnswerIsFinal, TypeOK, Requests
  <1>3. EveryTryIsUsed'
    BY DEF IInv, wire, EveryTryIsUsed, NeverTried, Reached, ResultAtEnd
  <1> QED BY <1>1, <1>2, <1>3 DEF IInv

(* What ends a call, or sends it to sleep, without its having an answer.   *)
LEMMA UnansweredStep ==
    ASSUME IInv, TypeOK', Untried', NEW c \in Calls, NEW n \in 1..Attempts,
           pc[c] \in {"try", "wait"},
           attempt' = [attempt EXCEPT ![c] = n], n >= attempt[c],
           UNCHANGED <<using, heard>>, UNCHANGED wire,
           \/ Transient(c, n)
           \/ End(c, "AttributeError")
           \/ End(c, "RuntimeError")
    PROVE  IInv'
  <1> USE AttemptsAssumption DEF wire
  <1>1. /\ out' = [out EXCEPT ![c] = out'[c]] /\ out'[c] # "ok"
        /\ out'[c] # "none" => pc'[c] = "done"
        /\ out'[c] = "BackendError" => n = Attempts
        /\ pc'[c] \in {"sleep", "done"} /\ pc' = [pc EXCEPT ![c] = pc'[c]]
        /\ pc'[c] = "sleep" => n < Attempts
    BY DEF IInv, TypeOK, ResultAtEnd, Transient, End, LastTry
  <1>2. (AttemptsLeft /\ Numbered /\ ServedOnce /\ ResultAtEnd)'
    BY <1>1 DEF IInv, TypeOK, AttemptsLeft, Numbered, ServedOnce, ResultAtEnd
  <1>3. \A r \in heard : r[1] # c
    BY DEF IInv, AnswerIsFinal
  <1>4. AnswerIsFinal'
    BY <1>1, <1>3 DEF IInv, TypeOK, AnswerIsFinal, Requests
  <1>5. EveryTryIsUsed'
    BY <1>1 DEF IInv, TypeOK, EveryTryIsUsed, NeverTried, Reached
  <1> QED BY <1>2, <1>4, <1>5 DEF IInv

(* Types are kept. *)
LEMMA TypeStep == IInv /\ [Next]_vars => TypeOK'
  <1> SUFFICES ASSUME IInv, [Next]_vars PROVE TypeOK'
    OBVIOUS
  <1> USE AttemptsAssumption, NoneAssumption
      DEF IInv, TypeOK, AttemptsLeft, Clients, lazy, wire, call
  <1>1. ASSUME NEW c \in Calls, Look(c) PROVE TypeOK'
    BY <1>1 DEF Look, Goto
  <1>2. ASSUME NEW c \in Calls, Create(c) PROVE TypeOK'
    BY <1>2 DEF Create, Goto
  <1>2a. ASSUME NEW c \in Calls, CreateFails(c) PROVE TypeOK'
    BY <1>2a DEF CreateFails, End
  <1>3. ASSUME NEW c \in Calls, Store(c) PROVE TypeOK'
    BY <1>3 DEF Store, Goto
  <1>4. ASSUME NEW c \in Calls, Take(c) PROVE TypeOK'
    BY <1>4 DEF Take, Goto
  <1>5. ASSUME NEW c \in Calls, Send(c) PROVE TypeOK'
    <2>1. attempt[c] + 1 \in 1..Attempts
      BY <1>5 DEF Send, Goto
    <2>2. attempt'[c] = attempt[c] + 1
      BY <1>5 DEF Send, Count
    <2>3. net' \subseteq Requests
      BY <1>5, <2>1, <2>2 DEF Send, Requests
    <2> QED BY <1>5, <2>1, <2>3 DEF Send, Goto, Count
  <1>6. ASSUME NEW c \in Calls, NoClient(c) PROVE TypeOK'
    BY <1>6 DEF NoClient, End, Count
  <1>7. ASSUME NEW c \in Calls, ConnectFails(c) PROVE TypeOK'
    BY <1>7 DEF ConnectFails, Transient, End, Count
  <1>8. ASSUME NEW c \in Calls, NoAnswer(c) PROVE TypeOK'
    BY <1>8 DEF NoAnswer, Transient, End
  <1>9. ASSUME NEW c \in Calls, Answered(c) PROVE TypeOK'
    <2>1. <<c, attempt[c]>> \in Requests
      BY <1>9 DEF Answered, Requests
    <2> QED BY <1>9, <2>1 DEF Answered, Hear, End
  <1>10. ASSUME NEW c \in Calls, Wake(c) PROVE TypeOK'
    BY <1>10 DEF Wake, Goto
  <1>11. ASSUME NEW r \in Requests, Serve(r) PROVE TypeOK'
    BY <1>11 DEF Serve
  <1>12. ASSUME NEW r \in Requests, Lose(r) PROVE TypeOK'
    BY <1>12 DEF Lose
  <1>13. ASSUME NEW u \in Unloaders, IfClient(u) PROVE TypeOK'
    BY <1>13 DEF IfClient, UnloadAt
  <1>14. ASSUME NEW u \in Unloaders, CloseClient(u) PROVE TypeOK'
    BY <1>14 DEF CloseClient, UnloadAt
  <1>15. ASSUME NEW u \in Unloaders, ForgetClient(u) PROVE TypeOK'
    BY <1>15 DEF ForgetClient, UnloadAt
  <1>16. ASSUME UNCHANGED vars PROVE TypeOK'
    BY <1>16 DEF vars
  <1> QED
    BY <1>1, <1>2, <1>2a, <1>3, <1>4, <1>5, <1>6, <1>7, <1>8, <1>9, <1>10, <1>11, <1>12,
       <1>13, <1>14, <1>15, <1>16 DEF Next, Run, Try

(* A call tries nothing before it takes its client. *)
LEMMA UntriedStep == IInv /\ [Next]_vars => Untried'
  <1> SUFFICES ASSUME IInv, [Next]_vars PROVE Untried'
    OBVIOUS
  <1> USE DEF IInv, TypeOK, Untried, lazy, wire, call
  <1>1. ASSUME NEW c \in Calls,
               Look(c) \/ Create(c) \/ CreateFails(c) \/ Store(c) \/ Take(c) \/ Wake(c)
        PROVE  Untried'
    BY <1>1 DEF Look, Create, CreateFails, Store, Take, Wake, Goto, End
  <1>2. ASSUME NEW c \in Calls, Try(c) \/ NoAnswer(c) PROVE Untried'
    BY <1>2 DEF Try, Send, NoClient, ConnectFails, NoAnswer, Transient, Goto, End, Count
  <1>3. ASSUME NEW c \in Calls, Answered(c) PROVE Untried'
    BY <1>3 DEF Answered, Hear, End
  <1>4. ASSUME NEW r \in Requests, Serve(r) \/ Lose(r) PROVE Untried'
    BY <1>4 DEF Serve, Lose
  <1>5. ASSUME NEW u \in Unloaders, IfClient(u) \/ CloseClient(u) \/ ForgetClient(u)
        PROVE  Untried'
    BY <1>5 DEF IfClient, CloseClient, ForgetClient
  <1>6. ASSUME UNCHANGED vars PROVE Untried'
    BY <1>6 DEF vars
  <1> QED BY <1>1, <1>2, <1>3, <1>4, <1>5, <1>6 DEF Next, Run

(* The invariant is kept by every step. *)
LEMMA InvStep == IInv /\ [Next]_vars => IInv'
  <1> SUFFICES ASSUME IInv, [Next]_vars PROVE IInv'
    OBVIOUS
  <1>0. TypeOK' /\ Untried'
    BY TypeStep, UntriedStep
  <1> USE AttemptsAssumption DEF lazy, call
  <1>1. ASSUME NEW c \in Calls, Look(c) \/ Create(c) \/ Store(c) \/ Take(c) \/ Wake(c)
        PROVE  IInv'
    BY <1>0, <1>1, QuietStep
    DEF Look, Create, Store, Take, Wake, Goto, IInv, TypeOK
  <1>1a. ASSUME NEW c \in Calls, CreateFails(c) PROVE IInv'
    <2>1. /\ pc[c] = "create" /\ pc' = [pc EXCEPT ![c] = "done"]
          /\ out' = [out EXCEPT ![c] = out'[c]]
          /\ out'[c] \in {"BackendError", "InvalidURL"}
          /\ NeverTried(c)'
          /\ UNCHANGED <<using, attempt, net, handled, replies, heard>>
      BY <1>1a DEF CreateFails, End, wire, IInv, TypeOK, Untried, NeverTried
    <2>2. (AttemptsLeft /\ Numbered /\ ServedOnce /\ ResultAtEnd)'
      BY <2>1 DEF IInv, TypeOK, AttemptsLeft, Numbered, ServedOnce, ResultAtEnd
    <2>3. AnswerIsFinal'
      BY <2>1 DEF IInv, TypeOK, AnswerIsFinal, Requests
    <2>4. EveryTryIsUsed'
      BY <2>1 DEF IInv, TypeOK, EveryTryIsUsed, NeverTried, Reached
    <2> QED BY <1>0, <2>2, <2>3, <2>4 DEF IInv
  <1>2. ASSUME NEW c \in Calls, Send(c) PROVE IInv'
    <2>1. /\ pc[c] = "try" /\ pc' = [pc EXCEPT ![c] = "wait"]
          /\ attempt' = [attempt EXCEPT ![c] = attempt[c] + 1]
          /\ attempt[c] \in Nat /\ attempt[c] + 1 <= Attempts
          /\ net' = net \cup {<<c, attempt[c] + 1>>}
          /\ UNCHANGED <<using, out, handled, replies, heard>>
      BY <1>2 DEF Send, Goto, Count, IInv, TypeOK, AttemptsLeft
    <2>2. <<c, attempt[c] + 1>> \notin handled
      BY <2>1 DEF IInv, Numbered
    <2>3. (AttemptsLeft /\ ResultAtEnd)'
      BY <2>1 DEF IInv, TypeOK, AttemptsLeft, ResultAtEnd
    <2>4. Numbered'
      BY <2>1 DEF IInv, TypeOK, Numbered
    <2>5. ServedOnce'
      BY <2>1, <2>2 DEF IInv, ServedOnce
    <2>6. \A r \in heard : r[1] # c
      BY <2>1 DEF IInv, AnswerIsFinal
    <2>7. AnswerIsFinal'
      BY <2>1, <2>6 DEF IInv, TypeOK, AnswerIsFinal, Requests, ResultAtEnd
    <2>8. EveryTryIsUsed'
      BY <2>1 DEF IInv, TypeOK, EveryTryIsUsed, ResultAtEnd, NeverTried, Reached
    <2> QED BY <1>0, <2>3, <2>4, <2>5, <2>7, <2>8 DEF IInv
  <1>3. ASSUME NEW c \in Calls, NoClient(c) \/ ConnectFails(c) PROVE IInv'
    <2>1. /\ pc[c] = "try" /\ attempt[c] + 1 \in 1..Attempts /\ attempt[c] + 1 >= attempt[c]
          /\ attempt' = [attempt EXCEPT ![c] = attempt[c] + 1]
          /\ UNCHANGED <<using, heard>> /\ UNCHANGED wire
          /\ attempt'[c] = attempt[c] + 1
      BY <1>3 DEF NoClient, ConnectFails, Count, IInv, TypeOK, AttemptsLeft
    <2>2. \/ Transient(c, attempt[c] + 1)
          \/ End(c, "AttributeError")
          \/ End(c, "RuntimeError")
      BY <1>3, <2>1 DEF NoClient, ConnectFails
    <2> QED BY <1>0, <2>1, <2>2, UnansweredStep
  <1>4. ASSUME NEW c \in Calls, NoAnswer(c) PROVE IInv'
    <2>1. /\ pc[c] = "wait" /\ attempt[c] \in 1..Attempts /\ attempt[c] >= attempt[c]
          /\ attempt' = [attempt EXCEPT ![c] = attempt[c]]
          /\ UNCHANGED <<using, heard>> /\ UNCHANGED wire
          /\ Transient(c, attempt[c])
      BY <1>4 DEF NoAnswer, IInv, TypeOK, AttemptsLeft
    <2> QED BY <1>0, <2>1, UnansweredStep
  <1>5. ASSUME NEW c \in Calls, Answered(c) PROVE IInv'
    <2> DEFINE r == <<c, attempt[c]>>
    <2>1. /\ pc[c] = "wait" /\ r \in DOMAIN replies /\ r \in Requests
          /\ pc' = [pc EXCEPT ![c] = "done"]
          /\ out' = [out EXCEPT ![c] = out'[c]] /\ out'[c] \in {"ok", "BackendError"}
          /\ out'[c] = "ok" => replies[r] = "json"
          /\ heard' = heard \cup {r}
          /\ UNCHANGED <<using, attempt, net, handled, replies>>
      BY <1>5 DEF Answered, Hear, End, wire, IInv, TypeOK, AttemptsLeft, Requests
    <2> HIDE DEF r
    <2>2. (AttemptsLeft /\ Numbered /\ ServedOnce /\ ResultAtEnd)'
      BY <2>1 DEF IInv, TypeOK, AttemptsLeft, Numbered, ServedOnce, ResultAtEnd
    <2>3. r[1] = c /\ r[2] = attempt[c] /\ r = <<c, attempt[c]>>
      BY DEF r
    <2>4. AnswerIsFinal'
      BY <2>1, <2>3 DEF IInv, TypeOK, AnswerIsFinal, Requests
    <2>5. EveryTryIsUsed'
      BY <2>1, <2>3 DEF IInv, TypeOK, EveryTryIsUsed, NeverTried, Reached
    <2> QED BY <1>0, <2>2, <2>4, <2>5 DEF IInv
  <1>6. ASSUME NEW r \in Requests, Serve(r) PROVE IInv'
    <2>1. /\ r \in net /\ r \notin handled /\ r \notin heard
          /\ net' = net \ {r} /\ handled' = handled \cup {r}
          /\ DOMAIN replies' = DOMAIN replies \cup {r}
          /\ \A q \in DOMAIN replies : replies'[q] = replies[q]
          /\ UNCHANGED <<using, pc, attempt, out, heard>>
      BY <1>6 DEF Serve, IInv, ServedOnce
    <2>2. (AttemptsLeft /\ Numbered /\ ServedOnce /\ ResultAtEnd)'
      BY <2>1 DEF IInv, AttemptsLeft, Numbered, ServedOnce, ResultAtEnd
    <2>3. AnswerIsFinal'
      BY <2>1 DEF IInv, AnswerIsFinal, ServedOnce
    <2>4. EveryTryIsUsed'
      BY <2>1 DEF IInv, EveryTryIsUsed, NeverTried, Reached
    <2> QED BY <1>0, <2>2, <2>3, <2>4 DEF IInv
  <1>7. ASSUME NEW r \in Requests, Lose(r) PROVE IInv'
    BY <1>0, <1>7
    DEF Lose, IInv, AttemptsLeft, Numbered, ServedOnce, ResultAtEnd, AnswerIsFinal,
        EveryTryIsUsed, NeverTried, Reached
  <1>8. ASSUME NEW u \in Unloaders, IfClient(u) \/ CloseClient(u) \/ ForgetClient(u)
        PROVE  IInv'
    BY <1>0, <1>8, QuietStep DEF IfClient, CloseClient, ForgetClient, wire
  <1>9. ASSUME UNCHANGED vars PROVE IInv'
    BY <1>0, <1>9, QuietStep DEF vars, wire
  <1> QED
    BY <1>1, <1>1a, <1>2, <1>3, <1>4, <1>5, <1>6, <1>7, <1>8, <1>9 DEF Next, Run, Try

-----------------------------------------------------------------------------

(* Every reachable state satisfies the inductive invariant: requests are   *)
(* numbered by their attempts and served at most once each.                *)
THEOREM Invariance == Spec => []IInv
  BY InitIInv, InvStep, PTL DEF Spec

(* The variables keep their types; in particular no attempt is made beyond *)
(* the number asked for.                                                   *)
THEOREM Typing == Spec => []TypeOK
  <1>1. IInv => TypeOK
    BY DEF IInv
  <1> QED BY <1>1, Invariance, PTL

(* The first answer ends a call, and success is the answer to the attempt  *)
(* it was on, for any number of calls, unloads and attempts.               *)
THEOREM FinalAnswers == Spec => []AnswerIsFinal
  <1>1. IInv => AnswerIsFinal
    BY DEF IInv
  <1> QED BY <1>1, Invariance, PTL

(* A call that fails with a BackendError and without an answer has made    *)
(* all its attempts, or never had a client, or is a POST that the server   *)
(* carried out.                                                            *)
THEOREM AllAttemptsMade == Spec => []EveryTryIsUsed
  <1>1. IInv => EveryTryIsUsed
    BY DEF IInv
  <1> QED BY <1>1, Invariance, PTL
=============================================================================
