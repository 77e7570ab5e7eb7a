------------------------- MODULE AsyncPipelineProofs -------------------------
(***************************************************************************)
(* Proofs about AsyncPipeline, for every set of requests, every number of  *)
(* permits, every channel size and with or without a debounce window.      *)
(*                                                                         *)
(* The inductive invariant is TypeOK /\ OrderInv /\ OwnerInv /\ PermitInv. *)
(* OrderInv says where a request stands by its ticket: tasks, the worker   *)
(* and the channel hold ever larger tickets, so no request is in two       *)
(* places.  OwnerInv says that exactly the requests in one of those places *)
(* are unanswered.  PermitInv counts the permits; it needs OrderInv,       *)
(* because spawning a task that already exists would use up a permit       *)
(* without adding a task.                                                  *)
(***************************************************************************)
EXTENDS LiveConversion, FiniteSetTheorems, TLAPS

OrderInv ==
  /\ lastSpawned <= sent
  /\ \A i \in 1 .. Len(channel) :
       lastSpawned < ticket[channel[i]] /\ ticket[channel[i]] <= sent
  /\ \A i, j \in 1 .. Len(channel) :
       i < j => ticket[channel[i]] < ticket[channel[j]]
  /\ current \in Requests =>
       /\ lastSpawned < ticket[current] /\ ticket[current] <= sent
       /\ \A i \in 1 .. Len(channel) : ticket[current] < ticket[channel[i]]
  /\ \A r \in spawned \cup running \cup releasing : 0 < ticket[r] /\ ticket[r] <= lastSpawned
  /\ \A r \in Requests : caller[r] \in {"idle", "sending"} => ticket[r] = 0
  /\ \A r \in Requests : caller[r] = "waiting" => 0 < ticket[r]

\* In the channel, by position.
IsQueued(r) == \E i \in 1 .. Len(channel) : channel[i] = r

OwnerInv ==
  /\ \A r \in Requests : caller[r] \in {"idle", "sending"} => reply[r] = "none"
  /\ \A r \in Requests : caller[r] = "done" => reply[r] # "none"
  /\ \A i \in 1 .. Len(channel) : reply[channel[i]] = "none"
  /\ current \in Requests => reply[current] = "none"
  /\ \A r \in Unanswered : reply[r] = "none"
  /\ \A r \in Requests :
       0 < ticket[r] /\ reply[r] = "none" => IsQueued(r) \/ r = current \/ r \in Unanswered
  /\ ~open => \A r \in Requests : caller[r] \notin {"sending", "waiting"}
  /\ LatestIsNeverDebounced
  /\ ClosedReachesNobody

PermitInv ==
  /\ IsFiniteSet(spawned) /\ IsFiniteSet(running) /\ IsFiniteSet(releasing)
  /\ spawned \cap running = {} /\ spawned \cap releasing = {} /\ running \cap releasing = {}
  /\ PermitsConserved

-----------------------------------------------------------------------------
(* Type correctness *)

\* What taking the head of the channel does to its elements.
LEMMA TakeHeadType ==
  ASSUME channel \in Seq(Requests), TakeHead
  PROVE  /\ current' \in Requests
         /\ channel' \in Seq(Requests)
         /\ current' = channel[1]
         /\ Len(channel') = Len(channel) - 1
         /\ Len(channel) \in Nat \ {0}
         /\ \A i \in 1 .. Len(channel') : channel'[i] = channel[i + 1]
<1>1. channel # <<>> /\ current' = Head(channel) /\ channel' = Tail(channel)
  BY DEF TakeHead
<1>2. Len(channel) \in Nat \ {0}
  BY <1>1
<1> QED
  BY <1>1, <1>2

\* Every variable keeps its type: no transition of the pipeline drives the
\* permit count below zero or parks the worker outside its await points.
THEOREM TypeCorrect == Spec => []TypeOK
<1>1. Init => TypeOK
  <2> SUFFICES ASSUME Init PROVE TypeOK
    OBVIOUS
  <2>1. channel \in Seq(Requests)
    BY DEF Init
  <2>2. caller \in [Requests -> CallerStates] /\ reply \in [Requests -> Replies]
    BY DEF Init, CallerStates, Replies, InferenceReplies
  <2>3. current \in IF worker \in Holding THEN Requests ELSE {NoRequest}
    BY DEF Init, Holding
  <2>4. /\ open \in BOOLEAN /\ cancelFlag \in BOOLEAN /\ worker \in WorkerStates
        /\ permits \in Nat /\ sent \in Nat /\ lastSpawned \in Nat
    BY MaxConcurrentAssumption DEF Init, WorkerStates
  <2>5. ticket \in [Requests -> Nat] /\ spawned \in SUBSET Requests /\ running \in SUBSET Requests
      /\ releasing \in SUBSET Requests
    BY DEF Init
  <2> QED
    BY <2>1, <2>2, <2>3, <2>4, <2>5 DEF TypeOK
<1>2. TypeOK /\ [Next]_vars => TypeOK'
  <2> SUFFICES ASSUME TypeOK, [Next]_vars PROVE TypeOK'
    OBVIOUS
  <2> USE NoRequestAssumption DEF TypeOK, Holding, CallerStates, Replies, InferenceReplies, WorkerStates,
              callerVars, workerVars, taskVars, Answer
  <2>1. ASSUME NEW r \in Requests, CallerNext(r) PROVE TypeOK'
    <3>1. CASE Send(r)
      <4>1. channel' \in Seq(Requests)
        BY <3>1 DEF Send
      <4> QED
        BY <3>1, <4>1 DEF Send
    <3>2. CASE Submit(r) \/ Receive(r) \/ Abandon(r)
      BY <3>2 DEF Submit, Receive, Abandon
    <3> QED
      BY <2>1, <3>1, <3>2 DEF CallerNext
  <2>2. ASSUME NEW r \in Requests, Task(r) PROVE TypeOK'
    <3>1. CASE TaskAnswers(r)
      BY <3>1 DEF TaskAnswers
    <3>2. CASE TaskPanics(r)
      BY <3>2 DEF TaskPanics
    <3>3. CASE TaskReleases(r)
      BY <3>3 DEF TaskReleases
    <3>4. CASE TaskBegins(r)
      BY <3>4 DEF TaskBegins
    <3> QED
      BY <2>2, <3>1, <3>2, <3>3, <3>4 DEF Task
  <2>3. CASE Cancel
    BY <2>3 DEF Cancel
  <2>4. CASE Close
    BY <2>4 DEF Close
  <2>5. CASE Recv
    BY <2>5, TakeHeadType DEF Recv
  <2>6. CASE Supersede
    BY <2>6, TakeHeadType DEF Supersede
  <2>7. CASE RecvClosed \/ DebounceElapsed \/ DebounceClosed \/ CheckCancelled \/ CheckPassed
    BY <2>7 DEF RecvClosed, DebounceElapsed, DebounceClosed, CheckCancelled, CheckPassed
  <2>8. CASE Spawn
    <3>1. current \in Requests
      BY <2>8 DEF Spawn
    <3> QED
      BY <2>8, <3>1 DEF Spawn
  <2>9. CASE Quiescent \/ UNCHANGED vars
    BY <2>9 DEF Quiescent, vars
  <2> QED
    BY <2>1, <2>2, <2>3, <2>4, <2>5, <2>6, <2>7, <2>8, <2>9 DEF Next, Worker
<1> QED
  BY <1>1, <1>2, PTL DEF Spec

-----------------------------------------------------------------------------
(* The order of the tickets *)

\* Initially nothing has a ticket.
LEMMA OrderInit == Init => OrderInv
<1> SUFFICES ASSUME Init PROVE OrderInv
  OBVIOUS
<1>1. /\ lastSpawned = 0 /\ sent = 0 /\ Len(channel) = 0
      /\ current \notin Requests /\ spawned \cup running \cup releasing = {}
      /\ \A r \in Requests : ticket[r] = 0 /\ caller[r] = "idle"
  BY NoRequestAssumption DEF Init
<1> QED
  BY <1>1 DEF OrderInv

\* Submit, Receive and Abandon leave the tickets and their places alone.
LEMMA OrderCaller ==
  ASSUME TypeOK, OrderInv, NEW r \in Requests, Submit(r) \/ Receive(r) \/ Abandon(r)
  PROVE  OrderInv'
<1>1. \A q \in Requests : caller'[q] \in {"idle", "sending"} => caller[q] \in {"idle", "sending"}
  BY DEF TypeOK, Submit, Receive, Abandon
<1>2. UNCHANGED <<channel, ticket, sent, workerVars, taskVars>>
  BY DEF Submit, Receive, Abandon
<1>3. \A q \in Requests : caller'[q] = "waiting" => caller[q] = "waiting"
  BY DEF TypeOK, Submit, Receive, Abandon
<1> QED
  BY <1>1, <1>2, <1>3 DEF OrderInv, workerVars, taskVars

\* A request that enters the channel gets the largest ticket so far; it was
\* nowhere before, because everything that is somewhere has a ticket.
LEMMA OrderSend ==
  ASSUME TypeOK, OrderInv, NEW r \in Requests, Send(r)
  PROVE  OrderInv'
<1> USE DEF TypeOK
<1>1. /\ UNCHANGED <<lastSpawned, current, spawned, running, releasing>>
      /\ sent' = sent + 1 /\ ticket' = [ticket EXCEPT ![r] = sent + 1]
      /\ ticket[r] = 0 /\ caller' = [caller EXCEPT ![r] = "waiting"]
      /\ channel' = Append(channel, r)
  BY DEF Send, OrderInv, workerVars, taskVars
<1>2. /\ Len(channel') = Len(channel) + 1 /\ channel'[Len(channel) + 1] = r
      /\ \A i \in 1 .. Len(channel) : channel'[i] = channel[i] /\ channel[i] \in Requests
  BY <1>1
<1>3. \A i \in 1 .. Len(channel) : channel[i] # r /\ ticket'[channel[i]] = ticket[channel[i]]
  BY <1>1, <1>2 DEF OrderInv
<1>4. ticket'[r] = sent + 1
  BY <1>1
<1>5. \A q \in Requests : q # r => ticket'[q] = ticket[q] /\ caller'[q] = caller[q]
  BY <1>1
<1>6. current \in Requests => current # r
  BY <1>1 DEF OrderInv
<1>7. r \notin spawned \cup running \cup releasing
  BY <1>1 DEF OrderInv
<1>8. \A i \in 1 .. Len(channel') :
        lastSpawned' < ticket'[channel'[i]] /\ ticket'[channel'[i]] <= sent'
  BY <1>1, <1>2, <1>3, <1>4 DEF OrderInv
<1>9. \A i, j \in 1 .. Len(channel') : i < j => ticket'[channel'[i]] < ticket'[channel'[j]]
  <2> SUFFICES ASSUME NEW i \in 1 .. Len(channel'), NEW j \in 1 .. Len(channel'), i < j
               PROVE  ticket'[channel'[i]] < ticket'[channel'[j]]
    OBVIOUS
  <2>1. i \in 1 .. Len(channel) /\ ticket'[channel'[i]] = ticket[channel[i]]
    BY <1>2, <1>3
  <2>2. CASE j = Len(channel) + 1
    BY <2>1, <2>2, <1>2, <1>4 DEF OrderInv
  <2>3. CASE j \in 1 .. Len(channel)
    BY <2>1, <2>3, <1>2, <1>3 DEF OrderInv
  <2> QED
    BY <1>2, <2>2, <2>3
<1>10. current' \in Requests =>
         /\ lastSpawned' < ticket'[current'] /\ ticket'[current'] <= sent'
         /\ \A i \in 1 .. Len(channel') : ticket'[current'] < ticket'[channel'[i]]
  <2> SUFFICES ASSUME current \in Requests
               PROVE  /\ lastSpawned < ticket[current] /\ ticket[current] <= sent + 1
                      /\ \A i \in 1 .. Len(channel') : ticket[current] < ticket'[channel'[i]]
    BY <1>1, <1>5, <1>6
  <2>1. lastSpawned < ticket[current] /\ ticket[current] <= sent
    BY DEF OrderInv
  <2>2. \A i \in 1 .. Len(channel) : ticket[current] < ticket'[channel'[i]]
    BY <1>2, <1>3 DEF OrderInv
  <2>3. ticket[current] < ticket'[channel'[Len(channel) + 1]]
    BY <2>1, <1>2, <1>4
  <2>4. \A i \in 1 .. Len(channel') : i \in 1 .. Len(channel) \/ i = Len(channel) + 1
    BY <1>2
  <2>5. ticket[current] \in Nat /\ lastSpawned \in Nat /\ sent \in Nat
    OBVIOUS
  <2> QED
    BY <2>1, <2>2, <2>3, <2>4, <2>5
<1>11. \A q \in spawned' \cup running' \cup releasing' : 0 < ticket'[q] /\ ticket'[q] <= lastSpawned'
  BY <1>1, <1>5, <1>7 DEF OrderInv
<1>12. \A q \in Requests : caller'[q] \in {"idle", "sending"} => ticket'[q] = 0
  BY <1>1, <1>5 DEF OrderInv
<1>13. lastSpawned' <= sent'
  BY <1>1 DEF OrderInv
<1>14. \A q \in Requests : caller'[q] = "waiting" => 0 < ticket'[q]
  BY <1>1, <1>4, <1>5 DEF OrderInv
<1> QED
  BY <1>8, <1>9, <1>10, <1>11, <1>12, <1>13, <1>14 DEF OrderInv

\* Taking the head leaves it below everything that stays in the channel,
\* whether the worker was free (Recv) or drops what it held (Supersede).
LEMMA OrderTakeHead ==
  ASSUME TypeOK, OrderInv, Recv \/ Supersede
  PROVE  OrderInv'
<1>1. /\ current' = channel[1] /\ current' \in Requests
      /\ Len(channel') = Len(channel) - 1 /\ Len(channel) \in Nat \ {0}
      /\ \A i \in 1 .. Len(channel') : channel'[i] = channel[i + 1]
  BY TakeHeadType DEF Recv, Supersede, TypeOK
<1>2. UNCHANGED <<caller, ticket, sent, lastSpawned, spawned, running, releasing>>
  BY DEF Recv, Supersede, taskVars
<1>3. \A i \in 1 .. Len(channel') : i + 1 \in 1 .. Len(channel) /\ 1 < i + 1
  BY <1>1
<1>4. \A i, j \in 1 .. Len(channel') : i < j => ticket'[channel'[i]] < ticket'[channel'[j]]
  BY <1>1, <1>2, <1>3 DEF OrderInv
<1>5. \A i \in 1 .. Len(channel') :
        /\ lastSpawned' < ticket'[channel'[i]] /\ ticket'[channel'[i]] <= sent'
        /\ ticket'[current'] < ticket'[channel'[i]]
  BY <1>1, <1>2, <1>3 DEF OrderInv
<1>6. lastSpawned' < ticket'[current'] /\ ticket'[current'] <= sent'
  BY <1>1, <1>2 DEF OrderInv
<1> QED
  BY <1>2, <1>4, <1>5, <1>6 DEF OrderInv

\* Spawning moves lastSpawned up to the worker's request, which lies between
\* every task and everything in the channel.
LEMMA OrderSpawn ==
  ASSUME TypeOK, OrderInv, Spawn
  PROVE  /\ OrderInv' /\ current \in Requests
         /\ current \notin spawned \cup running \cup releasing
<1> USE DEF TypeOK
<1>1. current \in Requests
  BY DEF Spawn, Holding
<1>2. /\ spawned' = spawned \cup {current} /\ lastSpawned' = ticket[current]
      /\ current' \notin Requests
      /\ UNCHANGED <<caller, channel, ticket, sent, running, releasing>>
  BY NoRequestAssumption DEF Spawn, callerVars
<1>3. current \notin spawned \cup running \cup releasing
  BY <1>1 DEF OrderInv
<1>4. \A q \in spawned' \cup running' \cup releasing' : 0 < ticket'[q] /\ ticket'[q] <= lastSpawned'
  BY <1>1, <1>2 DEF OrderInv
<1>5. \A i \in 1 .. Len(channel') :
        lastSpawned' < ticket'[channel'[i]] /\ ticket'[channel'[i]] <= sent'
  BY <1>1, <1>2 DEF OrderInv
<1>6. lastSpawned' <= sent'
  BY <1>1, <1>2 DEF OrderInv
<1> QED
  BY <1>1, <1>2, <1>3, <1>4, <1>5, <1>6 DEF OrderInv

\* OrderInv is inductive relative to TypeOK.
LEMMA OrderNext == TypeOK /\ OrderInv /\ [Next]_vars => OrderInv'
<1> SUFFICES ASSUME TypeOK, OrderInv, [Next]_vars PROVE OrderInv'
  OBVIOUS
<1>1. ASSUME NEW r \in Requests, CallerNext(r) PROVE OrderInv'
  BY <1>1, OrderCaller, OrderSend DEF CallerNext
<1>2. ASSUME NEW r \in Requests, Task(r) PROVE OrderInv'
  <2>1. /\ spawned' \cup running' \cup releasing' \subseteq spawned \cup running \cup releasing
        /\ UNCHANGED <<caller, channel, ticket, sent, current, lastSpawned>>
    BY <1>2 DEF Task, TaskBegins, TaskAnswers, TaskPanics, TaskReleases, workerVars, callerVars
  <2> QED
    BY <2>1 DEF OrderInv
<1>3. CASE Recv \/ Supersede
  BY <1>3, OrderTakeHead
<1>4. CASE Spawn
  BY <1>4, OrderSpawn
<1>5. CASE DebounceClosed \/ CheckCancelled
  <2>1. /\ current' \notin Requests
        /\ UNCHANGED <<caller, channel, ticket, sent, lastSpawned, spawned, running, releasing>>
    BY <1>5, NoRequestAssumption DEF DebounceClosed, CheckCancelled, taskVars
  <2> QED
    BY <2>1 DEF OrderInv
<1>6. CASE Cancel \/ Close \/ RecvClosed \/ DebounceElapsed \/ CheckPassed \/ Quiescent \/ UNCHANGED vars
  <2>1. UNCHANGED <<caller, channel, ticket, sent, current, lastSpawned, spawned, running, releasing>>
    BY <1>6 DEF Cancel, Close, RecvClosed, DebounceElapsed, CheckPassed, Quiescent, vars,
                callerVars, workerVars, taskVars
  <2> QED
    BY <2>1 DEF OrderInv
<1> QED
  BY <1>1, <1>2, <1>3, <1>4, <1>5, <1>6 DEF Next, Worker

-----------------------------------------------------------------------------
(* Permits *)

\* Initially all permits are free.
LEMMA PermitInit == Init => PermitInv
<1> SUFFICES ASSUME Init PROVE PermitInv
  OBVIOUS
<1>1. permits = MaxConcurrent /\ spawned = {} /\ running = {} /\ releasing = {}
  BY DEF Init
<1>2. IsFiniteSet({}) /\ Cardinality({}) = 0
  BY FS_EmptySet
<1> QED
  BY <1>1, <1>2, MaxConcurrentAssumption DEF PermitInv, PermitsConserved

\* PermitInv is inductive relative to TypeOK and OrderInv: a spawned task is
\* new, so the permit it takes is matched by one more task.
LEMMA PermitNext == TypeOK /\ OrderInv /\ PermitInv /\ [Next]_vars => PermitInv'
<1> SUFFICES ASSUME TypeOK, OrderInv, PermitInv, [Next]_vars PROVE PermitInv'
  OBVIOUS
<1> USE DEF PermitInv, PermitsConserved
<1>1. /\ IsFiniteSet(spawned) /\ IsFiniteSet(running) /\ IsFiniteSet(releasing) /\ permits \in Nat
      /\ Cardinality(spawned) \in Nat /\ Cardinality(running) \in Nat /\ Cardinality(releasing) \in Nat
  BY FS_CardinalityType DEF TypeOK
<1>2. CASE Spawn
  <2>1. /\ spawned' = spawned \cup {current} /\ permits' = permits - 1
        /\ UNCHANGED <<running, releasing>>
        /\ current \notin spawned \cup running \cup releasing
    BY <1>2, OrderSpawn DEF Spawn
  <2>2. IsFiniteSet(spawned') /\ Cardinality(spawned') = Cardinality(spawned) + 1
    BY <2>1, <1>1, FS_AddElement
  <2> QED
    BY <2>1, <2>2, <1>1
<1>3. ASSUME NEW r \in Requests, TaskAnswers(r) PROVE PermitInv'
  <2>1. /\ r \in running /\ r \notin spawned \cup releasing
        /\ running' = running \ {r} /\ releasing' = releasing \cup {r}
        /\ UNCHANGED <<permits, spawned>>
    BY <1>3 DEF TaskAnswers
  <2>2. IsFiniteSet(running') /\ Cardinality(running') = Cardinality(running) - 1
    BY <2>1, <1>1, FS_RemoveElement
  <2>3. IsFiniteSet(releasing') /\ Cardinality(releasing') = Cardinality(releasing) + 1
    BY <2>1, <1>1, FS_AddElement
  <2> QED
    BY <2>1, <2>2, <2>3, <1>1
<1>4. ASSUME NEW r \in Requests, TaskPanics(r) PROVE PermitInv'
  <2>1. /\ r \in running /\ running' = running \ {r}
        /\ UNCHANGED <<spawned, releasing>> /\ permits' = permits + 1
    BY <1>4 DEF TaskPanics
  <2>2. IsFiniteSet(running') /\ Cardinality(running') = Cardinality(running) - 1
    BY <2>1, <1>1, FS_RemoveElement
  <2> QED
    BY <2>1, <2>2, <1>1
<1>5. ASSUME NEW r \in Requests, TaskReleases(r) PROVE PermitInv'
  <2>1. /\ r \in releasing /\ releasing' = releasing \ {r}
        /\ UNCHANGED <<spawned, running>> /\ permits' = permits + 1
    BY <1>5 DEF TaskReleases
  <2>2. IsFiniteSet(releasing') /\ Cardinality(releasing') = Cardinality(releasing) - 1
    BY <2>1, <1>1, FS_RemoveElement
  <2> QED
    BY <2>1, <2>2, <1>1
<1>9. ASSUME NEW r \in Requests, TaskBegins(r) PROVE PermitInv'
  <2>1. /\ r \in spawned /\ r \notin running \cup releasing
        /\ spawned' = spawned \ {r} /\ running' = running \cup {r}
        /\ UNCHANGED <<permits, releasing>>
    BY <1>9 DEF TaskBegins
  <2>2. IsFiniteSet(spawned') /\ Cardinality(spawned') = Cardinality(spawned) - 1
    BY <2>1, <1>1, FS_RemoveElement
  <2>3. IsFiniteSet(running') /\ Cardinality(running') = Cardinality(running) + 1
    BY <2>1, <1>1, FS_AddElement
  <2> QED
    BY <2>1, <2>2, <2>3, <1>1
<1>6. ASSUME UNCHANGED taskVars PROVE PermitInv'
  BY <1>6 DEF taskVars
<1>7. ASSUME NEW r \in Requests, CallerNext(r) PROVE UNCHANGED taskVars
  BY <1>7 DEF CallerNext, Submit, Send, Receive, Abandon
<1>8. ASSUME \/ Cancel \/ Close \/ Recv \/ RecvClosed \/ Supersede \/ DebounceElapsed
             \/ DebounceClosed \/ CheckCancelled \/ CheckPassed \/ Quiescent \/ UNCHANGED vars
      PROVE  UNCHANGED taskVars
  BY <1>8 DEF Cancel, Close, Recv, RecvClosed, Supersede, DebounceElapsed, DebounceClosed,
         CheckCancelled, CheckPassed, Quiescent, vars, taskVars
<1> QED
  BY <1>2, <1>3, <1>4, <1>5, <1>6, <1>7, <1>8, <1>9 DEF Next, Task, Worker

\* No permit is lost or made up: max_concurrent bounds the inferences in
\* flight, whatever way the tasks end.
THEOREM PermitsAreConserved == Spec => []PermitsConserved
<1>1. PermitInv => PermitsConserved
  BY DEF PermitInv
<1> QED
  BY <1>1, TypeCorrect, OrderInit, OrderNext, PermitInit, PermitNext, PTL DEF Spec
-----------------------------------------------------------------------------
(* Who owes an answer *)

\* Initially no request is anywhere.
LEMMA OwnerInit == Init => OwnerInv
<1> SUFFICES ASSUME Init PROVE OwnerInv
  OBVIOUS
<1>1. /\ Len(channel) = 0 /\ current \notin Requests /\ Unanswered = {} /\ open
      /\ \A r \in Requests : caller[r] = "idle" /\ reply[r] = "none" /\ ticket[r] = 0
  BY NoRequestAssumption DEF Init, Unanswered
<1> QED
  BY <1>1 DEF OwnerInv, LatestIsNeverDebounced, ClosedReachesNobody

\* A send makes one request wait, and puts it where it is owed its answer.
LEMMA OwnerSend ==
  ASSUME TypeOK, OwnerInv, NEW r \in Requests, Send(r)
  PROVE  OwnerInv'
<1> USE DEF TypeOK
<1>1. /\ UNCHANGED <<reply, current, Unanswered, open>>
      /\ caller' = [caller EXCEPT ![r] = "waiting"] /\ caller[r] = "sending"
      /\ sent' = sent + 1 /\ ticket' = [ticket EXCEPT ![r] = sent + 1]
      /\ channel' = Append(channel, r)
  BY DEF Send, workerVars, taskVars, Unanswered
<1>2. /\ Len(channel') = Len(channel) + 1 /\ channel'[Len(channel) + 1] = r
      /\ \A i \in 1 .. Len(channel) : channel'[i] = channel[i]
  BY <1>1
<1>3. reply[r] = "none" /\ open
  BY <1>1 DEF OwnerInv
<1>4. \A i \in 1 .. Len(channel') : reply'[channel'[i]] = "none"
  BY <1>1, <1>2, <1>3 DEF OwnerInv
<1>5. \A q \in Requests : q # r => caller'[q] = caller[q] /\ ticket'[q] = ticket[q]
  BY <1>1
<1>6. \A q \in Requests : IsQueued(q) => IsQueued(q)'
  BY <1>2 DEF IsQueued
<1>7. IsQueued(r)'
  BY <1>2 DEF IsQueued
<1>8. \A q \in Requests :
        0 < ticket'[q] /\ reply'[q] = "none" => IsQueued(q)' \/ q = current' \/ q \in Unanswered'
  BY <1>1, <1>5, <1>6, <1>7 DEF OwnerInv
<1>9. LatestIsNeverDebounced'
  BY <1>1, <1>3, <1>5 DEF OwnerInv, LatestIsNeverDebounced
<1>10. ClosedReachesNobody'
  BY <1>1, <1>3, <1>5 DEF OwnerInv, ClosedReachesNobody
<1>11. \A q \in Requests : caller'[q] \in {"idle", "sending"} => reply'[q] = "none"
  BY <1>1, <1>5 DEF OwnerInv
<1> QED
  BY <1>1, <1>3, <1>4, <1>8, <1>9, <1>10, <1>11 DEF OwnerInv

\* The other steps of a caller: it starts, takes its answer or gives up.
LEMMA OwnerCaller ==
  ASSUME TypeOK, OwnerInv, NEW r \in Requests, Submit(r) \/ Receive(r) \/ Abandon(r)
  PROVE  OwnerInv'
<1> USE DEF TypeOK
<1>1. UNCHANGED <<reply, channel, ticket, sent, open, current, Unanswered>>
  BY DEF Submit, Receive, Abandon, workerVars, taskVars, Unanswered
<1>2. \A q \in Requests : q # r => caller'[q] = caller[q]
  BY DEF Submit, Receive, Abandon
<1>3. \/ open /\ caller[r] = "idle" /\ caller'[r] = "sending"
      \/ caller[r] = "waiting" /\ reply[r] # "none" /\ caller'[r] = "done"
      \/ caller[r] \in {"sending", "waiting"} /\ caller'[r] = "abandoned"
  BY DEF Submit, Receive, Abandon
<1>4. \A q \in Requests : IsQueued(q) => IsQueued(q)'
  BY <1>1 DEF IsQueued
<1>5. ClosedReachesNobody'
  BY <1>1, <1>2, <1>3 DEF OwnerInv, ClosedReachesNobody
<1>6. LatestIsNeverDebounced'
  BY <1>1 DEF OwnerInv, LatestIsNeverDebounced
<1>7. \A q \in Requests :
        0 < ticket'[q] /\ reply'[q] = "none" => IsQueued(q)' \/ q = current' \/ q \in Unanswered'
  BY <1>1, <1>2, <1>3, <1>4 DEF OwnerInv
<1>8. ~open' => \A q \in Requests : caller'[q] \notin {"sending", "waiting"}
  BY <1>1, <1>2, <1>3 DEF OwnerInv
<1>9. \A q \in Requests : caller'[q] \in {"idle", "sending"} => reply'[q] = "none"
  BY <1>1, <1>2, <1>3 DEF OwnerInv
<1>10. \A q \in Requests : caller'[q] = "done" => reply'[q] # "none"
  BY <1>1, <1>2, <1>3 DEF OwnerInv
<1> QED
  BY <1>1, <1>5, <1>6, <1>7, <1>8, <1>9, <1>10 DEF OwnerInv

\* The worker takes the head of the channel into its hands.
LEMMA OwnerTakeHead ==
  ASSUME TypeOK, TakeHead
  PROVE  /\ \A q \in Requests : IsQueued(q) => IsQueued(q)' \/ q = current'
         /\ \A q : IsQueued(q)' => IsQueued(q)
         /\ IsQueued(current') /\ current' \in Requests
<1>1. /\ current' = channel[1] /\ current' \in Requests
      /\ Len(channel') = Len(channel) - 1 /\ Len(channel) \in Nat \ {0}
      /\ \A i \in 1 .. Len(channel') : channel'[i] = channel[i + 1]
  BY TakeHeadType DEF TypeOK
<1>2. \A i \in 1 .. Len(channel') : i + 1 \in 1 .. Len(channel)
  BY <1>1
<1>3. \A i \in 1 .. Len(channel) : i = 1 \/ (i - 1 \in 1 .. Len(channel') /\ channel'[i - 1] = channel[i])
  BY <1>1
<1>4. \A q \in Requests : IsQueued(q) => IsQueued(q)' \/ q = current'
  BY <1>1, <1>3 DEF IsQueued
<1>5. \A q : IsQueued(q)' => IsQueued(q)
  BY <1>1, <1>2 DEF IsQueued
<1>6. 1 \in 1 .. Len(channel)
  BY <1>1
<1> QED
  BY <1>1, <1>4, <1>5, <1>6 DEF IsQueued

\* A step that answers one request x and takes it from its place, while every
\* other request keeps a place, preserves OwnerInv.
LEMMA OwnerAnswer ==
  ASSUME TypeOK, OwnerInv, NEW x \in Requests, NEW outcome \in Replies \ {"none"},
         Answer(x, outcome),
         UNCHANGED <<caller, ticket, sent, open>>,
         caller[x] \notin {"idle", "sending"},
         outcome = "debounced" => ticket[x] < sent,
         outcome = "closed" => caller[x] = "abandoned",
         \A i \in 1 .. Len(channel') : channel'[i] # x /\ IsQueued(channel'[i]),
         current' \in Requests => current' # x /\ (IsQueued(current') \/ current' = current),
         Unanswered' \subseteq Unanswered \ {x},
         \A q \in Requests : q # x /\ (IsQueued(q) \/ q = current \/ q \in Unanswered)
                               => IsQueued(q)' \/ q = current' \/ q \in Unanswered'
  PROVE  OwnerInv'
<1>1. reply'[x] = outcome /\ \A q \in Requests : q # x => reply'[q] = reply[q]
  BY DEF Answer, TypeOK
<1>2. \A q : IsQueued(q) => q \in Requests /\ reply[q] = "none"
  BY DEF IsQueued, OwnerInv, TypeOK
<1>3. \A i \in 1 .. Len(channel') : reply'[channel'[i]] = "none"
  BY <1>1, <1>2
<1>4. current' \in Requests => reply'[current'] = "none"
  BY <1>1, <1>2 DEF OwnerInv
<1>5. \A q \in Unanswered' : reply'[q] = "none"
  BY <1>1 DEF OwnerInv, TypeOK, Unanswered
<1>6. \A q \in Requests :
        0 < ticket'[q] /\ reply'[q] = "none" => IsQueued(q)' \/ q = current' \/ q \in Unanswered'
  BY <1>1 DEF OwnerInv
<1>7. LatestIsNeverDebounced' /\ ClosedReachesNobody'
  BY <1>1 DEF OwnerInv, LatestIsNeverDebounced, ClosedReachesNobody
<1>8. \A q \in Requests : caller'[q] \in {"idle", "sending"} => reply'[q] = "none"
  BY <1>1 DEF OwnerInv
<1>9. ~open' => \A q \in Requests : caller'[q] \notin {"sending", "waiting"}
  BY DEF OwnerInv
<1>10. \A q \in Requests : caller'[q] = "done" => reply'[q] # "none"
  BY <1>1 DEF OwnerInv
<1> QED
  BY <1>3, <1>4, <1>5, <1>6, <1>7, <1>8, <1>9, <1>10 DEF OwnerInv

\* No request is in two places: the places hold ever larger tickets.
LEMMA OnePlace ==
  ASSUME TypeOK, OrderInv
  PROVE  /\ \A q : IsQueued(q) => q # current /\ q \notin Unanswered \cup releasing
         /\ current \in Requests => current \notin Unanswered \cup releasing
         /\ \A q \in Requests : IsQueued(q) \/ q = current \/ q \in Unanswered =>
              caller[q] \notin {"idle", "sending"}
         /\ \A q : IsQueued(q) => q \in Requests
<1>1. \A q : IsQueued(q) => /\ q \in Requests /\ lastSpawned < ticket[q]
                            /\ current \in Requests => ticket[current] < ticket[q]
  BY DEF IsQueued, OrderInv, TypeOK
<1>2. current \in Requests => lastSpawned < ticket[current]
  BY DEF OrderInv
<1>3. \A q \in Unanswered \cup releasing : q \in Requests /\ ticket[q] <= lastSpawned /\ 0 < ticket[q]
  BY DEF OrderInv, TypeOK, Unanswered
<1>4. \A q \in Requests : ticket[q] \in Nat
  BY DEF TypeOK
<1>5. \A q \in Requests : IsQueued(q) \/ q = current \/ q \in Unanswered => ticket[q] # 0
  BY <1>1, <1>2, <1>3, <1>4 DEF TypeOK
<1>6. \A q : IsQueued(q) => q # current
  BY <1>1, <1>4
<1>7. \A q : IsQueued(q) => q \notin Unanswered \cup releasing
  BY <1>1, <1>3, <1>4 DEF TypeOK
<1>8. current \in Requests => current \notin Unanswered \cup releasing
  BY <1>2, <1>3, <1>4 DEF TypeOK
<1>9. \A q \in Requests : IsQueued(q) \/ q = current \/ q \in Unanswered =>
              caller[q] \notin {"idle", "sending"}
  BY <1>5 DEF OrderInv
<1> QED
  BY <1>1, <1>6, <1>7, <1>8, <1>9

\* The worker takes a request from the channel.
LEMMA OwnerRecv ==
  ASSUME TypeOK, OrderInv, OwnerInv, Recv
  PROVE  OwnerInv'
<1>1. /\ TakeHead
      /\ UNCHANGED <<caller, reply, ticket, sent, open, Unanswered>>
      /\ current \notin Requests
  BY NoRequestAssumption DEF Recv, taskVars, Unanswered, TypeOK, Holding
<1>2. /\ \A q \in Requests : IsQueued(q) => IsQueued(q)' \/ q = current'
      /\ \A q : IsQueued(q)' => IsQueued(q)
      /\ IsQueued(current') /\ current' \in Requests
  BY <1>1, OwnerTakeHead
<1>3. \A q : IsQueued(q) => reply[q] = "none"
  BY DEF IsQueued, OwnerInv
<1>4. \A i \in 1 .. Len(channel') : reply'[channel'[i]] = "none"
  BY <1>1, <1>2, <1>3 DEF IsQueued
<1>5. LatestIsNeverDebounced' /\ ClosedReachesNobody'
  BY <1>1 DEF OwnerInv, LatestIsNeverDebounced, ClosedReachesNobody
<1>6. \A q \in Requests :
        0 < ticket'[q] /\ reply'[q] = "none" => IsQueued(q)' \/ q = current' \/ q \in Unanswered'
  BY <1>1, <1>2 DEF OwnerInv
<1> QED
  BY <1>1, <1>2, <1>3, <1>4, <1>5, <1>6 DEF OwnerInv

\* The superseded request is answered; what replaces it entered after it.
LEMMA OwnerSupersede ==
  ASSUME TypeOK, OrderInv, OwnerInv, Supersede
  PROVE  OwnerInv'
<1>1. /\ TakeHead /\ current \in Requests
      /\ Answer(current, "debounced")
      /\ UNCHANGED <<caller, ticket, sent, open, Unanswered>>
  BY DEF Supersede, taskVars, Unanswered, TypeOK, Holding
<1>2. /\ \A q \in Requests : IsQueued(q) => IsQueued(q)' \/ q = current'
      /\ \A q : IsQueued(q)' => IsQueued(q)
      /\ IsQueued(current') /\ current' \in Requests
  BY <1>1, OwnerTakeHead
<1>3. /\ \A q : IsQueued(q) => q # current
      /\ current \notin Unanswered
      /\ caller[current] \notin {"idle", "sending"}
  BY <1>1, OnePlace
<1>4. ticket[current] < sent
  <2>1. PICK i \in 1 .. Len(channel) : channel[i] = current'
    BY <1>2 DEF IsQueued
  <2>2. ticket[current] < ticket[channel[i]] /\ ticket[channel[i]] <= sent
    BY <1>1, <2>1 DEF OrderInv
  <2>3. ticket[current] \in Nat /\ ticket[channel[i]] \in Nat /\ sent \in Nat
    BY <1>1, <1>2, <2>1 DEF TypeOK
  <2> QED
    BY <2>2, <2>3
<1>5. \A i \in 1 .. Len(channel') : channel'[i] # current /\ IsQueued(channel'[i])
  BY <1>2, <1>3 DEF IsQueued
<1>6. current' # current
  BY <1>2, <1>3
<1>7. Unanswered' \subseteq Unanswered \ {current}
  BY <1>1, <1>3
<1>8. \A q \in Requests : q # current /\ (IsQueued(q) \/ q = current \/ q \in Unanswered)
                               => IsQueued(q)' \/ q = current' \/ q \in Unanswered'
  BY <1>1, <1>2
<1>9. "debounced" \in Replies \ {"none"}
  BY DEF Replies
<1> QED
  BY <1>1, <1>2, <1>3, <1>4, <1>5, <1>6, <1>7, <1>8, <1>9, OwnerAnswer

\* The worker answers the request it holds and lets go of it.
LEMMA OwnerLetsGo ==
  ASSUME TypeOK, OrderInv, OwnerInv, DebounceClosed \/ CheckCancelled
  PROVE  OwnerInv'
<1>1. PICK outcome \in {"closed", "cancelled"} :
        /\ Answer(current, outcome)
        /\ outcome = "closed" => ~open
  BY DEF DebounceClosed, CheckCancelled
<1>2. /\ current \in Requests /\ current' \notin Requests
      /\ UNCHANGED <<caller, channel, ticket, sent, open, Unanswered>>
  BY NoRequestAssumption DEF DebounceClosed, CheckCancelled, taskVars, Unanswered, TypeOK, Holding
<1>3. /\ \A q : IsQueued(q) => q # current
      /\ current \notin Unanswered
      /\ caller[current] \notin {"idle", "sending"}
  BY <1>2, OnePlace
<1>4. outcome = "closed" => caller[current] = "abandoned"
  <2>1. reply[current] = "none" /\ (~open => caller[current] \notin {"sending", "waiting"})
    BY <1>2 DEF OwnerInv
  <2>2. caller[current] # "done"
    BY <1>2, <2>1 DEF OwnerInv
  <2> QED
    BY <1>1, <1>2, <1>3, <2>1, <2>2 DEF TypeOK, CallerStates
<1>5. \A i \in 1 .. Len(channel') : channel'[i] # current /\ IsQueued(channel'[i])
  BY <1>2, <1>3 DEF IsQueued
<1>6. \A q : IsQueued(q)' <=> IsQueued(q)
  BY <1>2 DEF IsQueued
<1>7. outcome \in Replies \ {"none"} /\ outcome # "debounced"
  BY DEF Replies
<1> QED
  BY <1>1, <1>2, <1>3, <1>4, <1>5, <1>6, <1>7, OwnerAnswer

\* A task answers, by returning or by panicking.
LEMMA OwnerTask ==
  ASSUME TypeOK, OrderInv, OwnerInv, PermitInv, NEW r \in Requests, TaskAnswers(r) \/ TaskPanics(r)
  PROVE  OwnerInv'
<1>1. PICK outcome \in InferenceReplies : Answer(r, outcome)
  BY DEF TaskAnswers, TaskPanics, InferenceReplies
<1>2. /\ r \in Unanswered /\ Unanswered' = Unanswered \ {r}
      /\ UNCHANGED <<caller, channel, current, ticket, sent, open>>
  BY DEF TaskAnswers, TaskPanics, workerVars, Unanswered, PermitInv
<1>3. /\ ~IsQueued(r) /\ (current \in Requests => r # current)
      /\ caller[r] \notin {"idle", "sending"}
  BY <1>2, OnePlace
<1>4. \A i \in 1 .. Len(channel') : channel'[i] # r /\ IsQueued(channel'[i])
  BY <1>2, <1>3 DEF IsQueued
<1>5. \A q : IsQueued(q)' <=> IsQueued(q)
  BY <1>2 DEF IsQueued
<1>6. outcome \in Replies \ {"none"} /\ outcome # "debounced" /\ outcome # "closed"
  BY DEF Replies, InferenceReplies
<1> QED
  BY <1>1, <1>2, <1>3, <1>4, <1>5, <1>6, OwnerAnswer

\* A step that touches neither callers, replies nor the places of requests.
LEMMA OwnerUnmoved ==
  ASSUME OwnerInv,
         UNCHANGED <<caller, reply, channel, current, Unanswered, ticket, sent>>,
         open' = open \/ (\A r \in Requests : caller[r] \notin {"sending", "waiting"})
  PROVE  OwnerInv'
<1>1. \A q : IsQueued(q)' <=> IsQueued(q)
  BY DEF IsQueued
<1>2. LatestIsNeverDebounced' /\ ClosedReachesNobody'
  BY DEF OwnerInv, LatestIsNeverDebounced, ClosedReachesNobody
<1> QED
  BY <1>1, <1>2 DEF OwnerInv

\* The worker's request becomes a task.
LEMMA OwnerSpawn ==
  ASSUME TypeOK, OwnerInv, Spawn
  PROVE  OwnerInv'
<1>1. /\ current \in Requests /\ current' \notin Requests /\ Unanswered' = Unanswered \cup {current}
      /\ UNCHANGED <<caller, reply, channel, ticket, sent, open>>
  BY NoRequestAssumption DEF Spawn, callerVars, Unanswered, TypeOK, Holding
<1>2. \A q : IsQueued(q)' <=> IsQueued(q)
  BY <1>1 DEF IsQueued
<1>3. LatestIsNeverDebounced' /\ ClosedReachesNobody'
  BY <1>1 DEF OwnerInv, LatestIsNeverDebounced, ClosedReachesNobody
<1>4. \A q \in Unanswered' : reply'[q] = "none"
  BY <1>1 DEF OwnerInv
<1>5. \A q \in Requests :
        0 < ticket'[q] /\ reply'[q] = "none" => IsQueued(q)' \/ q = current' \/ q \in Unanswered'
  BY <1>1, <1>2 DEF OwnerInv
<1> QED
  BY <1>1, <1>3, <1>4, <1>5 DEF OwnerInv

\* OwnerInv is inductive relative to the other invariants.
LEMMA OwnerNext == TypeOK /\ OrderInv /\ PermitInv /\ OwnerInv /\ [Next]_vars => OwnerInv'
<1> SUFFICES ASSUME TypeOK, OrderInv, PermitInv, OwnerInv, [Next]_vars PROVE OwnerInv'
  OBVIOUS
<1>1. ASSUME NEW r \in Requests, CallerNext(r) PROVE OwnerInv'
  BY <1>1, OwnerCaller, OwnerSend DEF CallerNext
<1>2. ASSUME NEW r \in Requests, Task(r) PROVE OwnerInv'
  <2>1. CASE TaskReleases(r) \/ TaskBegins(r)
    <3>1. UNCHANGED <<caller, reply, channel, current, Unanswered, ticket, sent, open>>
      BY <2>1 DEF TaskReleases, TaskBegins, callerVars, workerVars, Unanswered
    <3> QED
      BY <3>1, OwnerUnmoved
  <2> QED
    BY <1>2, <2>1, OwnerTask DEF Task
<1>3. CASE Recv \/ Supersede
  BY <1>3, OwnerRecv, OwnerSupersede
<1>4. CASE Spawn
  BY <1>4, OwnerSpawn
<1>5. CASE DebounceClosed \/ CheckCancelled
  BY <1>5, OwnerLetsGo
<1>6. CASE Cancel \/ Close \/ RecvClosed \/ DebounceElapsed \/ CheckPassed \/ Quiescent \/ UNCHANGED vars
  <2>1. /\ UNCHANGED <<caller, reply, channel, current, Unanswered, ticket, sent>>
        /\ open' = open \/ (\A r \in Requests : caller[r] \notin {"sending", "waiting"})
    BY <1>6 DEF Cancel, Close, RecvClosed, DebounceElapsed, CheckPassed, Quiescent, vars,
                callerVars, workerVars, taskVars, Unanswered
  <2> QED
    BY <2>1, OwnerUnmoved
<1> QED
  BY <1>1, <1>2, <1>3, <1>4, <1>5, <1>6 DEF Next, Worker

\* Nobody who awaits a reply is forgotten, and nobody is promised two.
THEOREM WaitersAreOwed == Spec => []EveryWaiterIsOwed
<1>1. TypeOK /\ OrderInv /\ OwnerInv => EveryWaiterIsOwed
  <2> SUFFICES ASSUME TypeOK, OrderInv, OwnerInv, NEW r \in Requests,
                      caller[r] = "waiting", reply[r] = "none"
               PROVE  \/ r \in Queued \ (Unanswered \cup {current})
                      \/ r = current /\ r \notin Queued \cup Unanswered
                      \/ r \in Unanswered \ (Queued \cup {current})
    BY DEF EveryWaiterIsOwed
  <2>1. \A q : q \in Queued <=> IsQueued(q)
    BY DEF Queued, IsQueued, TypeOK
  <2>2. IsQueued(r) \/ r = current \/ r \in Unanswered
    BY DEF OwnerInv, OrderInv
  <2> QED
    BY <2>1, <2>2, OnePlace
<1> QED
  BY <1>1, TypeCorrect, OrderInit, OrderNext, OwnerInit, OwnerNext, PermitInit, PermitNext,
     PTL DEF Spec

\* Debouncing never throws away the latest input, however submissions, takes
\* and windows interleave.
THEOREM LatestSurvives == Spec => []LatestIsNeverDebounced
<1>1. OwnerInv => LatestIsNeverDebounced
  BY DEF OwnerInv
<1> QED
  BY <1>1, TypeCorrect, OrderInit, OrderNext, OwnerInit, OwnerNext, PermitInit, PermitNext,
     PTL DEF Spec

\* No caller that is still there is told that the pipeline closed.
THEOREM ClosedUnheard == Spec => []ClosedReachesNobody
<1>1. OwnerInv => ClosedReachesNobody
  BY DEF OwnerInv
<1> QED
  BY <1>1, TypeCorrect, OrderInit, OrderNext, OwnerInit, OwnerNext, PermitInit, PermitNext,
     PTL DEF Spec

-----------------------------------------------------------------------------
(***************************************************************************)
(* AsyncPipeline implements InferenceService under the mapping Service of  *)
(* AsyncPipeline, and LiveConversion implements AsyncPipeline, for every   *)
(* value of the constants.                                                 *)
(*                                                                         *)
(* Submitting is the call, Receive its return, Abandon the caller giving   *)
(* up; a task that begins begins an execution, one that releases its       *)
(* permit or panics finishes it.  Every other step is a stutter:           *)
(* queueing, debouncing, cancelling and answering happen behind its back.  *)
(***************************************************************************)
IInv == TypeOK /\ OrderInv /\ OwnerInv /\ PermitInv

\* The invariants of the pipeline hold together.
LEMMA IInvHolds == Spec => []IInv
  BY TypeCorrect, OrderInit, OrderNext, OwnerInit, OwnerNext, PermitInit, PermitNext, PTL
     DEF Spec, IInv

\* A task that begins leaves fewer than max_concurrent earlier requests unanswered
\* behind it: an earlier request without an answer is a task itself, for the worker
\* hands requests over in the order of the channel (line 126), and each task that
\* has no answer yet owns a permit.
THEOREM OvertakingIsBounded == Spec => BoundedOvertaking
<1>1. IInv /\ [Next]_vars =>
        [\A r \in running' \ running : Cardinality(Passed(r)) < MaxConcurrent]_vars
  <2> SUFFICES ASSUME IInv, Next, NEW r \in running' \ running
               PROVE  Cardinality(Passed(r)) < MaxConcurrent
    OBVIOUS
  <2> USE DEF IInv, TypeOK
  <2>1. r \in spawned /\ r \notin running
    BY DEF Next, CallerNext, Task, Worker, Submit, Send, Receive, Abandon, TaskBegins, TaskAnswers,
           TaskPanics, TaskReleases, Cancel, Close, Recv, RecvClosed, Supersede, DebounceElapsed,
           DebounceClosed, CheckCancelled, CheckPassed, Spawn, Quiescent, vars, taskVars
  <2>2. ASSUME NEW q \in Passed(r) PROVE q \in Unanswered \ {r}
    <3>1. /\ q \in Requests /\ 0 < ticket[q] /\ ticket[q] < ticket[r] /\ reply[q] = "none"
          /\ ticket[q] \in Nat /\ ticket[r] \in Nat /\ lastSpawned \in Nat
      BY <2>1 DEF Passed
    <3>2. ticket[r] <= lastSpawned BY <2>1 DEF OrderInv
    <3>3. ticket[q] < lastSpawned BY <3>1, <3>2
    <3>4. ~IsQueued(q) /\ q # current
      <4>1. \A i \in 1 .. Len(channel) : lastSpawned < ticket[channel[i]] /\ ticket[channel[i]] \in Nat
        BY DEF OrderInv
      <4>2. ~IsQueued(q) BY <3>1, <3>3, <4>1 DEF IsQueued
      <4>3. current \in Requests => lastSpawned < ticket[current] BY DEF OrderInv
      <4> QED BY <3>1, <3>3, <4>2, <4>3
    <3>5. q \in Unanswered BY <3>1, <3>4 DEF OwnerInv
    <3> QED BY <3>1, <3>5
  <2>3. /\ IsFiniteSet(Unanswered) /\ r \in Unanswered
        /\ Cardinality(Unanswered) = Cardinality(spawned) + Cardinality(running)
    <3>1. Cardinality(spawned \cap running) = 0 BY FS_EmptySet DEF PermitInv
    <3>2. Cardinality(spawned) \in Nat /\ Cardinality(running) \in Nat
      BY FS_CardinalityType DEF PermitInv
    <3>3. IsFiniteSet(spawned) /\ IsFiniteSet(running) BY DEF PermitInv
    <3>4. /\ IsFiniteSet(spawned \cup running)
          /\ Cardinality(spawned \cup running) =
               Cardinality(spawned) + Cardinality(running) - Cardinality(spawned \cap running)
      BY <3>3, FS_Union
    <3> QED BY <2>1, <3>1, <3>2, <3>4 DEF Unanswered
  <2>4. IsFiniteSet(Unanswered \ {r}) /\ Cardinality(Unanswered \ {r}) = Cardinality(Unanswered) - 1
    BY <2>3, FS_RemoveElement
  <2>5. Cardinality(Passed(r)) <= Cardinality(Unanswered) - 1
    <3>1. Passed(r) \subseteq Unanswered \ {r} BY <2>2
    <3>2. Cardinality(Passed(r)) <= Cardinality(Unanswered \ {r}) BY <2>4, <3>1, FS_Subset
    <3> QED BY <2>4, <3>2
  <2>6. /\ permits + Cardinality(spawned) + Cardinality(running) + Cardinality(releasing)
              = MaxConcurrent
        /\ Cardinality(spawned) \in Nat /\ Cardinality(running) \in Nat
        /\ Cardinality(releasing) \in Nat
    BY FS_CardinalityType DEF PermitInv, PermitsConserved
  <2>7. Cardinality(Passed(r)) \in Nat
    <3>1. Passed(r) \subseteq Unanswered \ {r} BY <2>2
    <3> QED BY <2>4, <3>1, FS_Subset, FS_CardinalityType
  <2> QED BY <2>3, <2>5, <2>6, <2>7, MaxConcurrentAssumption
<1> QED BY <1>1, IInvHolds, PTL DEF Spec, BoundedOvertaking

\* The cardinality of the instantiated module is that of this one.
LEMMA ServiceCardinality == \A S : Service!Cardinality(S) = Cardinality(S)
  BY DEF Cardinality, Service!Cardinality

\* A caller's step is seen only through the status and the result of its call.
LEMMA RefineCaller ==
  ASSUME IInv, NEW r \in Requests, CallerNext(r)
  PROVE  [Service!Next]_(Service!vars)
<1> USE DEF IInv, TypeOK
<1>1. UNCHANGED <<reply, spawned, running, releasing>>
  BY DEF CallerNext, Submit, Send, Receive, Abandon, taskVars
<1>2. UNCHANGED <<Served, Executing>>
  BY <1>1 DEF Served, Executing
<1>3. \A q \in Requests : q # r => caller'[q] = caller[q]
  BY DEF CallerNext, Submit, Send, Receive, Abandon
<1>4. CASE Submit(r)
  <2>1. Status[r] = "new" /\ Status' = [Status EXCEPT ![r] = "pending"]
    BY <1>4 DEF Submit, Status
  <2>2. UNCHANGED Result
    BY <1>4, <1>1 DEF Submit, Result
  <2> QED
    BY <1>2, <2>1, <2>2 DEF Service!Next, Service!Call
<1>5. CASE Send(r)
  <2>1. UNCHANGED <<Status, Result>>
    BY <1>5, <1>1 DEF Send, Status, Result
  <2> QED
    BY <1>2, <2>1 DEF Service!vars
<1>6. CASE Receive(r)
  <2>1. Status[r] = "pending" /\ Status' = [Status EXCEPT ![r] = "returned"]
    BY <1>6 DEF Receive, Status
  <2>2. Result' = [Result EXCEPT ![r] = reply[r]]
    BY <1>6, <1>1 DEF Receive, Result
  <2>3. r \notin running
    BY <1>6 DEF Receive, OwnerInv, Unanswered
  <2>4. reply[r] \in IF r \in Served THEN InferenceReplies ELSE Refusals
    BY <1>6, <2>3 DEF Receive, Served, Replies, Refusals, OwnerInv, ClosedReachesNobody
  <2> QED
    BY <1>2, <2>1, <2>2, <2>4 DEF Service!Next, Service!Return
<1>7. CASE Abandon(r)
  <2>1. Status[r] = "pending" /\ Status' = [Status EXCEPT ![r] = "abandoned"]
    BY <1>7 DEF Abandon, Status
  <2>2. UNCHANGED Result
    BY <1>7, <1>1 DEF Abandon, Result
  <2> QED
    BY <1>2, <2>1, <2>2 DEF Service!Next, Service!GiveUp
<1> QED
  BY <1>4, <1>5, <1>6, <1>7 DEF CallerNext

\* A refusal of a request that has not returned is invisible.
LEMMA RefineRefusal ==
  ASSUME IInv, Supersede \/ DebounceClosed \/ CheckCancelled
  PROVE  UNCHANGED Service!vars
<1> USE DEF IInv, TypeOK
<1>1. PICK outcome \in Refusals \cup {"closed"} : Answer(current, outcome)
  BY DEF Supersede, DebounceClosed, CheckCancelled, Refusals
<1>2. current \in Requests /\ UNCHANGED <<caller, running, releasing>>
  BY DEF Supersede, DebounceClosed, CheckCancelled, Holding, taskVars
<1>3. reply[current] = "none" /\ caller[current] # "done"
  BY <1>2 DEF OwnerInv
<1>4. UNCHANGED <<Status, Executing>>
  BY <1>2 DEF Status, Executing
<1>5. UNCHANGED Result
  BY <1>1, <1>2, <1>3 DEF Result, Answer
<1>6. UNCHANGED Served
  BY <1>1, <1>2, <1>3 DEF Served, Answer, InferenceReplies, Refusals
<1> QED
  BY <1>4, <1>5, <1>6 DEF Service!vars

\* The first poll of a task begins an execution, of a request not yet given to the
\* inferencer and while the service has room: the task brings its permit.
LEMMA RefineBegins ==
  ASSUME IInv, NEW r \in Requests, TaskBegins(r)
  PROVE  Service!Next
<1> USE DEF IInv, TypeOK
<1>1. /\ r \in spawned /\ r \notin running \cup releasing
      /\ running' = running \cup {r}
      /\ UNCHANGED <<caller, reply, releasing>>
  BY DEF TaskBegins, callerVars, PermitInv
<1>2. reply[r] = "none" /\ caller[r] \notin {"idle", "sending", "done"}
  BY <1>1, OnePlace DEF OwnerInv, Unanswered
<1>3. Status[r] \in {"pending", "abandoned"}
  BY <1>1, <1>2 DEF Status
<1>4. r \notin Served
  BY <1>1, <1>2 DEF Served, InferenceReplies
<1>5. Served' = Served \cup {r} /\ Executing' = Executing \cup {r}
  BY <1>1 DEF Served, Executing
<1>6. UNCHANGED <<Status, Result>>
  BY <1>1 DEF Status, Result
<1>7. Service!Cardinality(Executing) < MaxConcurrent
  <2>1. Cardinality(Executing) = Cardinality(running) + Cardinality(releasing)
    <3>1. IsFiniteSet(running) /\ IsFiniteSet(releasing) /\ running \cap releasing = {}
      BY DEF PermitInv
    <3>2. Cardinality(running) \in Nat /\ Cardinality(releasing) \in Nat
      BY <3>1, FS_CardinalityType
    <3>3. Cardinality(running \cap releasing) = 0
      BY <3>1, FS_EmptySet
    <3>4. Cardinality(running \cup releasing) =
            Cardinality(running) + Cardinality(releasing) - Cardinality(running \cap releasing)
      BY <3>1, FS_Union
    <3> QED
      BY <3>2, <3>3, <3>4 DEF Executing
  <2>2. /\ permits + Cardinality(spawned) + Cardinality(running) + Cardinality(releasing)
              = MaxConcurrent
        /\ Cardinality(running) \in Nat /\ Cardinality(releasing) \in Nat
        /\ Cardinality(spawned) \in Nat
    BY FS_CardinalityType DEF PermitInv, PermitsConserved
  <2>3. Cardinality(spawned) > 0
    BY <1>1, <2>2, FS_EmptySet DEF PermitInv
  <2> QED
    BY <2>1, <2>2, <2>3, ServiceCardinality, MaxConcurrentAssumption
<1> QED
  BY <1>1, <1>3, <1>4, <1>5, <1>6, <1>7 DEF Service!Next, Service!Begin

\* A task answers behind the service's back, and finishes when its permit goes.
LEMMA RefineTask ==
  ASSUME IInv, NEW r \in Requests, Task(r)
  PROVE  [Service!Next]_(Service!vars)
<1> USE DEF IInv, TypeOK
<1>1. UNCHANGED caller
  BY DEF Task, TaskBegins, TaskAnswers, TaskPanics, TaskReleases, callerVars
<1>2. UNCHANGED Status
  BY <1>1 DEF Status
<1>3. ASSUME TaskAnswers(r) \/ TaskPanics(r)
      PROVE  UNCHANGED <<Result, Served>> /\ running' = running \ {r} /\ r \in running
  <2>1. PICK outcome \in InferenceReplies : Answer(r, outcome)
    BY <1>3 DEF TaskAnswers, TaskPanics, InferenceReplies
  <2>2. r \in running /\ running' = running \ {r}
    BY <1>3 DEF TaskAnswers, TaskPanics
  <2>3. caller[r] # "done"
    BY <2>2 DEF OwnerInv, Unanswered
  <2>4. UNCHANGED Result
    BY <1>1, <2>1, <2>3 DEF Result, Answer
  <2>5. UNCHANGED Served
    BY <2>1, <2>2 DEF Served, Answer
  <2> QED
    BY <2>2, <2>4, <2>5
<1>4. CASE TaskAnswers(r)
  <2>1. UNCHANGED Executing
    BY <1>4 DEF TaskAnswers, Executing
  <2> QED
    BY <1>2, <1>3, <1>4, <2>1 DEF Service!vars
<1>5. CASE TaskPanics(r)
  <2>1. r \in Executing /\ Executing' = Executing \ {r}
    BY <1>5 DEF TaskPanics, Executing, PermitInv
  <2> QED
    BY <1>2, <1>3, <1>5, <2>1 DEF Service!Next, Service!Finish
<1>6. CASE TaskReleases(r)
  <2>1. r \in Executing /\ Executing' = Executing \ {r}
    BY <1>6 DEF TaskReleases, Executing, PermitInv
  <2>2. UNCHANGED <<Result, Served>>
    BY <1>6 DEF TaskReleases, callerVars, Result, Served
  <2> QED
    BY <1>2, <2>1, <2>2 DEF Service!Next, Service!Finish
<1> QED
  BY <1>4, <1>5, <1>6, RefineBegins DEF Task

\* The steps that neither answer, begin nor belong to a caller.
LEMMA RefineInternal ==
  ASSUME \/ Cancel \/ Close \/ Recv \/ RecvClosed \/ DebounceElapsed \/ CheckPassed
         \/ Spawn \/ Quiescent \/ UNCHANGED vars
  PROVE  UNCHANGED Service!vars
<1>1. UNCHANGED <<caller, reply, running, releasing>>
  BY DEF Cancel, Close, Recv, RecvClosed, DebounceElapsed, CheckPassed, Spawn, Quiescent, vars,
         callerVars, taskVars
<1> QED
  BY <1>1 DEF Service!vars, Status, Result, Served, Executing

\* The pipeline, with its queue, window, cancel flag and permits, implements
\* the service: every step is a step of the service or invisible to it.
THEOREM PipelineImplementsService == Spec => ImplementsService
<1>1. Init => Service!Init
  BY DEF Init, Service!Init, Status, Result, Served, Executing, InferenceReplies
<1>2. IInv /\ [Next]_vars => [Service!Next]_(Service!vars)
  BY RefineCaller, RefineRefusal, RefineTask, RefineInternal DEF Next, Worker
<1> QED
  BY <1>1, <1>2, IInvHolds, PTL DEF Spec, ImplementsService, Service!Spec
-----------------------------------------------------------------------------
(***************************************************************************)
(* The parts of EveryCallReturns that need no fairness.  Somebody can      *)
(* always move for who waits: a worker that needs a permit finds one free  *)
(* or a task that owns it, and one that has exited left nobody behind.     *)
(* And nobody moves for ever: each step but a call's first uses up work.   *)
(***************************************************************************)
ExitInv == worker = "exited" => ~open

\* The worker exits only from a closed channel, which never opens again.
LEMMA ExitInvHolds == Spec => []ExitInv
<1>1. Init => ExitInv BY DEF Init, ExitInv
<1>2. ExitInv /\ [Next]_vars => ExitInv'
  <2> SUFFICES ASSUME ExitInv, [Next]_vars PROVE ExitInv' OBVIOUS
  <2> USE DEF ExitInv
  <2>1. ASSUME NEW r \in Requests, CallerNext(r) \/ Task(r) PROVE ExitInv'
    BY <2>1 DEF CallerNext, Submit, Send, Receive, Abandon, Task, TaskBegins, TaskAnswers, TaskPanics,
                TaskReleases, workerVars, callerVars
  <2>2. CASE Worker
    BY <2>2 DEF Worker, Recv, RecvClosed, Supersede, DebounceElapsed, DebounceClosed,
                CheckCancelled, CheckPassed, Spawn
  <2>3. CASE Cancel \/ Close \/ Quiescent \/ UNCHANGED vars
    BY <2>3 DEF Cancel, Close, Quiescent, workerVars, vars
  <2> QED BY <2>1, <2>2, <2>3 DEF Next
<1> QED BY <1>1, <1>2, PTL DEF Spec

\* With a permit to give at all, nobody waits for somebody who waits for him: the
\* worker never stands before permits that nobody holds, nor a sender before a
\* channel that nobody drains (run_worker).
THEOREM NobodyGetsStuck ==
  ASSUME MaxConcurrent > 0
  PROVE  Spec => []NobodyIsStuck
<1>1. ASSUME IInv, ExitInv PROVE NobodyIsStuck
  <2> SUFFICES ASSUME NEW r \in Requests, caller[r] \in {"sending", "waiting"},
                      caller[r] = "sending" => ~(Len(channel) < BufferSize),
                      caller[r] = "waiting" => reply[r] = "none",
                      ~(worker = "recv" /\ channel # <<>>),
                      worker \notin {"debounce", "check"},
                      ~(worker = "acquire" /\ permits > 0),
                      spawned \cup running \cup releasing = {}
               PROVE  FALSE
    BY DEF NobodyIsStuck
  <2>1. worker # "exited" BY <1>1 DEF IInv, OwnerInv, ExitInv
  <2>2. worker # "acquire"
    <3>1. Cardinality(spawned) = 0 /\ Cardinality(running) = 0 /\ Cardinality(releasing) = 0
      BY FS_EmptySet
    <3>2. permits \in Nat BY <1>1 DEF IInv, TypeOK
    <3>3. permits = MaxConcurrent
      BY <1>1, <3>1, <3>2, MaxConcurrentAssumption DEF IInv, PermitInv, PermitsConserved
    <3> QED BY <3>2, <3>3
  <2>3. worker = "recv" /\ channel = <<>> /\ current \notin Requests
    BY <1>1, <2>1, <2>2, NoRequestAssumption DEF IInv, TypeOK, WorkerStates, Holding
  <2>4. CASE caller[r] = "sending" BY <2>3, <2>4, BufferSizeAssumption
  <2>5. CASE caller[r] = "waiting"
    <3>1. IsQueued(r) \/ r = current \/ r \in Unanswered
      BY <1>1, <2>5 DEF IInv, OwnerInv, OrderInv
    <3> QED BY <2>3, <3>1 DEF IsQueued, Unanswered
  <2> QED BY <2>4, <2>5
<1> QED BY <1>1, IInvHolds, ExitInvHolds, PTL

Senders == {r \in Requests : caller[r] = "sending"}
Waiters == {r \in Requests : caller[r] = "waiting"}
RankOf(w) == [debounce |-> 7, check |-> 6, acquire |-> 5, recv |-> 1, exited |-> 0][w]
CallsAreFinite == IsFiniteSet({r \in Requests : caller[r] # "idle"})

\* There may be calls without end, but there are never infinitely many yet.
LEMMA CallsStayFinite == Spec => []CallsAreFinite
<1> DEFINE made == {r \in Requests : caller[r] # "idle"}
<1>1. Init => CallsAreFinite
  <2> SUFFICES ASSUME Init PROVE made = {} BY FS_EmptySet DEF CallsAreFinite
  <2> QED BY DEF Init
<1>2. TypeOK /\ CallsAreFinite /\ [Next]_vars => CallsAreFinite'
  <2> SUFFICES ASSUME TypeOK, CallsAreFinite, [Next]_vars PROVE CallsAreFinite' OBVIOUS
  <2>1. ASSUME NEW r \in Requests, CallerNext(r) PROVE CallsAreFinite'
    <3>1. made' \subseteq made \cup {r}
      BY <2>1 DEF CallerNext, Submit, Send, Receive, Abandon, TypeOK
    <3>2. IsFiniteSet(made \cup {r}) BY FS_AddElement DEF CallsAreFinite
    <3> QED BY <3>1, <3>2, FS_Subset DEF CallsAreFinite
  <2>2. CASE UNCHANGED caller BY <2>2 DEF CallsAreFinite
  <2>3. ASSUME NEW r \in Requests, Task(r) PROVE UNCHANGED caller
    BY <2>3 DEF Task, TaskBegins, TaskAnswers, TaskPanics, TaskReleases, callerVars
  <2>4. Worker => UNCHANGED caller
    BY DEF Worker, Recv, RecvClosed, Supersede, DebounceElapsed, DebounceClosed,
           CheckCancelled, CheckPassed, Spawn, callerVars
  <2>5. Cancel \/ Close \/ Quiescent \/ UNCHANGED vars => UNCHANGED caller
    BY DEF Cancel, Close, Quiescent, callerVars, vars
  <2> QED BY <2>1, <2>2, <2>3, <2>4, <2>5 DEF Next
<1> QED BY <1>1, <1>2, TypeCorrect, PTL DEF Spec

\* Those who send or wait have called.
LEMMA SendersAndWaiters ==
  ASSUME CallsAreFinite
  PROVE  IsFiniteSet(Senders) /\ IsFiniteSet(Waiters)
<1>1. Senders \cup Waiters \subseteq {r \in Requests : caller[r] # "idle"} BY DEF Senders, Waiters
<1> QED BY <1>1, FS_Subset DEF CallsAreFinite

WorkInv ==
  /\ IInv /\ CallsAreFinite
  /\ CallersWork \in Nat /\ WorkersWork \in Nat /\ TasksWork \in Nat

\* The length of the channel and what the worker has before it are numbers.
LEMMA RanksAreNumbers ==
  ASSUME IInv
  PROVE  Len(channel) \in Nat /\ RankOf(worker) \in Nat
BY DEF IInv, TypeOK, RankOf, WorkerStates, Holding

\* The work is a sum of numbers.
LEMMA WorkInvHolds == Spec => []WorkInv
<1>1. IInv /\ CallsAreFinite => WorkInv
  <2> SUFFICES ASSUME IInv, CallsAreFinite PROVE WorkInv OBVIOUS
  <2>1. CallersWork \in Nat
    <3>1. IsFiniteSet(Senders) /\ IsFiniteSet(Waiters) BY SendersAndWaiters
    <3>2. Cardinality(Senders) \in Nat /\ Cardinality(Waiters) \in Nat
      BY <3>1, FS_CardinalityType
    <3> QED BY <3>2 DEF CallersWork, Senders, Waiters
  <2>2. WorkersWork \in Nat
    <3>1. Len(channel) \in Nat /\ RankOf(worker) \in Nat BY RanksAreNumbers
    <3> QED BY <3>1 DEF WorkersWork, RankOf
  <2>3. TasksWork \in Nat BY FS_CardinalityType DEF IInv, PermitInv, TasksWork
  <2> QED BY <2>1, <2>2, <2>3 DEF WorkInv
<1> QED BY <1>1, IInvHolds, CallsStayFinite, PTL

\* A sum shrinks by what its parts lose together.
LEMMA SumShrinks ==
  ASSUME NEW a \in Nat, NEW b \in Nat, NEW c \in Nat, NEW a1 \in Nat, NEW b1 \in Nat, NEW c1 \in Nat,
         NEW d \in Int, NEW e \in Int, NEW f \in Int,
         a1 <= a + d, b1 <= b + e, c1 <= c + f, d + e + f < 0
  PROVE  a1 + b1 + c1 \in 0 .. (a + b + c) - 1
OBVIOUS

\* Less work in all is less of a number.
LEMMA WorkShrinks ==
  ASSUME WorkInv, WorkInv', NEW d \in Int, NEW e \in Int, NEW f \in Int,
         CallersWork' <= CallersWork + d, WorkersWork' <= WorkersWork + e, TasksWork' <= TasksWork + f,
         d + e + f < 0
  PROVE  WorkLeft' \in 0 .. WorkLeft - 1
<1>1. CallersWork \in Nat /\ WorkersWork \in Nat /\ TasksWork \in Nat BY DEF WorkInv
<1>2. CallersWork' \in Nat /\ WorkersWork' \in Nat /\ TasksWork' \in Nat BY DEF WorkInv
<1>3. CallersWork' + WorkersWork' + TasksWork' \in 0 .. (CallersWork + WorkersWork + TasksWork) - 1
  BY <1>1, <1>2, SumShrinks
<1> QED BY <1>3 DEF WorkLeft

\* One element more or less is one in the count.
LEMMA CountOfPart ==
  ASSUME NEW S, IsFiniteSet(S), NEW T, NEW x, T = S \cup {x} \/ T = S \ {x}
  PROVE  /\ Cardinality(S) \in Nat /\ Cardinality(T) \in Nat
         /\ Cardinality(T) <= Cardinality(S) + 1
         /\ T = S \ {x} => Cardinality(T) <= Cardinality(S)
         /\ x \in S /\ x \notin T => Cardinality(T) = Cardinality(S) - 1
         /\ x \notin S /\ x \in T => Cardinality(T) = Cardinality(S) + 1
<1>1. (x \in S <=> x \in T) => T = S OBVIOUS
<1>2. x \in S /\ x \notin T => T = S \ {x} OBVIOUS
<1>3. x \notin S /\ x \in T => T = S \cup {x} OBVIOUS
<1>4. Cardinality(S) \in Nat BY FS_CardinalityType
<1>5. x \in S /\ x \notin T => Cardinality(T) = Cardinality(S) - 1 BY <1>2, FS_RemoveElement
<1>6. x \notin S /\ x \in T => Cardinality(T) = Cardinality(S) + 1 BY <1>3, FS_AddElement
<1>7. (x \in S <=> x \in T) => Cardinality(T) = Cardinality(S) BY <1>1
<1>8. IsFiniteSet(T) BY FS_AddElement, FS_RemoveElement
<1>9. Cardinality(T) \in Nat BY <1>8, FS_CardinalityType
<1>10. T = S \ {x} => x \notin T OBVIOUS
<1>11. CASE x \in S <=> x \in T BY <1>4, <1>7, <1>11
<1>12. CASE x \in S /\ x \notin T BY <1>4, <1>5, <1>9, <1>12
<1>13. CASE x \notin S /\ x \in T BY <1>4, <1>6, <1>9, <1>10, <1>13
<1> QED BY <1>11, <1>12, <1>13

\* Sending, receiving and giving up use up work.
LEMMA CallersUseUpWork ==
  ASSUME WorkInv, WorkInv', NEW r \in Requests, Send(r) \/ Receive(r) \/ Abandon(r)
  PROVE  WorkLeft' \in 0 .. WorkLeft - 1
<1>1. TasksWork' = TasksWork BY DEF Send, Receive, Abandon, taskVars, TasksWork
<1>2. IsFiniteSet(Senders) /\ IsFiniteSet(Waiters) BY SendersAndWaiters DEF WorkInv
<1>3. CallersWork = 9 * Cardinality(Senders) + Cardinality(Waiters)
  BY DEF CallersWork, Senders, Waiters
<1>4. CallersWork' = 9 * Cardinality(Senders') + Cardinality(Waiters')
  BY DEF CallersWork, Senders, Waiters
<1>5. Len(channel) \in Nat /\ RankOf(worker) \in Nat
  BY RanksAreNumbers DEF WorkInv
<1>6. CASE Send(r)
  <2>1. Senders' = Senders \ {r} /\ r \in Senders
    BY <1>6 DEF Send, Senders, WorkInv, IInv, TypeOK
  <2>2. Cardinality(Senders') = Cardinality(Senders) - 1 BY <1>2, <2>1, CountOfPart
  <2>3. Waiters' = Waiters \cup {r} BY <1>6 DEF Send, Waiters, WorkInv, IInv, TypeOK
  <2>4. Cardinality(Waiters') <= Cardinality(Waiters) + 1 BY <1>2, <2>3, CountOfPart
  <2>5. Cardinality(Senders) \in Nat /\ Cardinality(Waiters) \in Nat /\ Cardinality(Waiters') \in Nat
    BY <1>2, <2>1, <2>3, CountOfPart
  <2>6. CallersWork' <= CallersWork - 8 BY <1>3, <1>4, <2>2, <2>4, <2>5
  <2>7. WorkersWork' = WorkersWork + 7
    <3>1. Len(channel') = Len(channel) + 1 /\ worker' = worker
      BY <1>6 DEF Send, workerVars, WorkInv, IInv, TypeOK
    <3>2. WorkersWork' = 7 * Len(channel') + RankOf(worker') BY DEF WorkersWork, RankOf
    <3>3. WorkersWork = 7 * Len(channel) + RankOf(worker) BY DEF WorkersWork, RankOf
    <3> QED BY <1>5, <3>1, <3>2, <3>3
  <2> QED BY <1>1, <2>6, <2>7, WorkShrinks DEF WorkInv
<1>7. CASE Receive(r) \/ Abandon(r)
  <2>1. WorkersWork' = WorkersWork BY <1>7 DEF Receive, Abandon, workerVars, WorkersWork
  <2>2. Senders' = Senders \ {r} /\ Waiters' = Waiters \ {r} /\ r \in Senders \cup Waiters
    BY <1>7 DEF Receive, Abandon, Senders, Waiters, WorkInv, IInv, TypeOK
  <2>3. /\ Cardinality(Senders') <= Cardinality(Senders)
        /\ r \in Senders => Cardinality(Senders') = Cardinality(Senders) - 1
        /\ Cardinality(Senders) \in Nat /\ Cardinality(Senders') \in Nat
    BY <1>2, <2>2, CountOfPart
  <2>4. /\ Cardinality(Waiters') <= Cardinality(Waiters)
        /\ r \in Waiters => Cardinality(Waiters') = Cardinality(Waiters) - 1
        /\ Cardinality(Waiters) \in Nat /\ Cardinality(Waiters') \in Nat
    BY <1>2, <2>2, CountOfPart
  <2>5. CallersWork' < CallersWork BY <1>3, <1>4, <2>2, <2>3, <2>4
  <2> QED BY <1>1, <2>1, <2>5, WorkShrinks DEF WorkInv
<1> QED BY <1>6, <1>7

\* So does each step of the worker, the taking of a newer request included.
LEMMA WorkerUsesUpWork ==
  ASSUME WorkInv, WorkInv', Worker
  PROVE  WorkLeft' \in 0 .. WorkLeft - 1
<1>1. CallersWork' = CallersWork
  BY DEF Worker, Recv, RecvClosed, Supersede, DebounceElapsed, DebounceClosed, CheckCancelled,
         CheckPassed, Spawn, callerVars, CallersWork
<1>2. /\ RankOf("debounce") = 7 /\ RankOf("check") = 6 /\ RankOf("acquire") = 5
      /\ RankOf("recv") = 1 /\ RankOf("exited") = 0
  BY DEF RankOf
<1>3. WorkersWork = 7 * Len(channel) + RankOf(worker) BY DEF WorkersWork, RankOf
<1>4. WorkersWork' = 7 * Len(channel') + RankOf(worker') BY DEF WorkersWork, RankOf
<1>5. Len(channel) \in Nat /\ Len(channel') \in Nat BY DEF WorkInv, IInv, TypeOK
<1>6. CASE Recv \/ Supersede
  <2>1. Len(channel') = Len(channel) - 1
    BY <1>6 DEF Recv, Supersede, TakeHead, WorkInv, IInv, TypeOK
  <2>2. RankOf(worker') <= RankOf(worker) + 6 /\ RankOf(worker) \in Nat /\ RankOf(worker') \in Nat
    BY <1>2, <1>6 DEF Recv, Supersede
  <2>3. WorkersWork' < WorkersWork BY <1>3, <1>4, <1>5, <2>1, <2>2
  <2>4. TasksWork' = TasksWork BY <1>6 DEF Recv, Supersede, taskVars, TasksWork
  <2> QED BY <1>1, <2>3, <2>4, WorkShrinks DEF WorkInv
<1>7. CASE RecvClosed \/ DebounceElapsed \/ DebounceClosed \/ CheckCancelled \/ CheckPassed
  <2> USE DEF RecvClosed, DebounceElapsed, DebounceClosed, CheckCancelled, CheckPassed
  <2>1. channel' = channel BY <1>7 DEF callerVars
  <2>2. RankOf(worker') < RankOf(worker) /\ RankOf(worker) \in Nat /\ RankOf(worker') \in Nat
    BY <1>2, <1>7
  <2>3. WorkersWork' < WorkersWork BY <1>3, <1>4, <1>5, <2>1, <2>2
  <2>4. TasksWork' = TasksWork BY <1>7 DEF taskVars, TasksWork
  <2> QED BY <1>1, <2>3, <2>4, WorkShrinks DEF WorkInv
<1>8. CASE Spawn
  <2>1. channel' = channel /\ RankOf(worker) = 5 /\ RankOf(worker') = 1
    BY <1>2, <1>8 DEF Spawn, callerVars
  <2>2. WorkersWork' = WorkersWork - 4 BY <1>3, <1>4, <1>5, <2>1
  <2>3. spawned' = spawned \cup {current} /\ IsFiniteSet(spawned) /\ UNCHANGED <<running, releasing>>
    BY <1>8 DEF Spawn, WorkInv, IInv, PermitInv
  <2>4. /\ Cardinality(spawned') <= Cardinality(spawned) + 1
        /\ Cardinality(spawned') \in Nat /\ Cardinality(spawned) \in Nat
    BY <2>3, CountOfPart
  <2>5. Cardinality(running) \in Nat /\ Cardinality(releasing) \in Nat
    BY FS_CardinalityType DEF WorkInv, IInv, PermitInv
  <2>6. TasksWork' <= TasksWork + 3 BY <2>3, <2>4, <2>5 DEF TasksWork
  <2>7. CallersWork' <= CallersWork + 0 /\ WorkersWork' <= WorkersWork + (-4)
    BY <1>1, <2>2 DEF WorkInv
  <2> QED BY <2>6, <2>7, WorkShrinks
<1> QED BY <1>6, <1>7, <1>8 DEF Worker

\* And so does each step of a task.
LEMMA TasksUseUpWork ==
  ASSUME WorkInv, WorkInv', NEW r \in Requests, Task(r)
  PROVE  WorkLeft' \in 0 .. WorkLeft - 1
<1>1. CallersWork' = CallersWork /\ WorkersWork' = WorkersWork
  BY DEF Task, TaskBegins, TaskAnswers, TaskPanics, TaskReleases, callerVars, workerVars, CallersWork, WorkersWork
<1>2. IsFiniteSet(spawned) /\ IsFiniteSet(running) /\ IsFiniteSet(releasing) BY DEF WorkInv, IInv, PermitInv
<1>6. CASE TaskBegins(r)
  <2>1. r \in spawned /\ spawned' = spawned \ {r} /\ running' = running \cup {r} /\ releasing' = releasing
    BY <1>6 DEF TaskBegins
  <2>2. Cardinality(spawned') = Cardinality(spawned) - 1 /\ Cardinality(spawned) \in Nat
    BY <1>2, <2>1, CountOfPart
  <2>3. /\ Cardinality(running') <= Cardinality(running) + 1
        /\ Cardinality(running') \in Nat /\ Cardinality(running) \in Nat
    BY <1>2, <2>1, CountOfPart
  <2>4. Cardinality(releasing) \in Nat BY <1>2, FS_CardinalityType
  <2> QED BY <1>1, <2>1, <2>2, <2>3, <2>4 DEF WorkLeft, WorkInv, TasksWork
<1>3. CASE TaskAnswers(r)
  <2>1. r \in running /\ running' = running \ {r} /\ releasing' = releasing \cup {r} /\ spawned' = spawned
    BY <1>3 DEF TaskAnswers
  <2>2. Cardinality(running') = Cardinality(running) - 1 /\ Cardinality(running) \in Nat
    BY <1>2, <2>1, CountOfPart
  <2>3. /\ Cardinality(releasing') <= Cardinality(releasing) + 1
        /\ Cardinality(releasing') \in Nat /\ Cardinality(releasing) \in Nat
    BY <1>2, <2>1, CountOfPart
  <2>4. Cardinality(spawned) \in Nat BY <1>2, FS_CardinalityType
  <2> QED BY <1>1, <2>1, <2>2, <2>3, <2>4 DEF WorkLeft, WorkInv, TasksWork
<1>4. CASE TaskPanics(r)
  <2>1. r \in running /\ running' = running \ {r} /\ UNCHANGED <<spawned, releasing>>
    BY <1>4 DEF TaskPanics
  <2>2. Cardinality(running') = Cardinality(running) - 1 /\ Cardinality(running) \in Nat
    BY <1>2, <2>1, CountOfPart
  <2>3. Cardinality(spawned) \in Nat /\ Cardinality(releasing) \in Nat BY <1>2, FS_CardinalityType
  <2> QED BY <1>1, <2>1, <2>2, <2>3 DEF WorkLeft, WorkInv, TasksWork
<1>5. CASE TaskReleases(r)
  <2>1. r \in releasing /\ releasing' = releasing \ {r} /\ UNCHANGED <<spawned, running>>
    BY <1>5 DEF TaskReleases
  <2>2. Cardinality(releasing') = Cardinality(releasing) - 1 /\ Cardinality(releasing) \in Nat
    BY <1>2, <2>1, CountOfPart
  <2>3. Cardinality(spawned) \in Nat /\ Cardinality(running) \in Nat BY <1>2, FS_CardinalityType
  <2> QED BY <1>1, <2>1, <2>2, <2>3 DEF WorkLeft, WorkInv, TasksWork
<1> QED BY <1>3, <1>4, <1>5, <1>6 DEF Task

\* Windows that start again, cancels, refusals and panics cannot go round in circles:
\* only a new call makes work, and every other step that moves anything uses some up.
THEOREM OnlyNewCallsMakeWork == Spec => OnlyCallsMakeWork
<1> DEFINE shrinks ==
      \/ \E r \in Requests : caller[r] = "idle" /\ caller'[r] = "sending"
      \/ UNCHANGED <<caller, channel, worker, spawned, running, releasing>>
      \/ WorkLeft' \in 0 .. WorkLeft - 1
<1>1. WorkInv /\ WorkInv' /\ [Next]_vars => shrinks
  <2> SUFFICES ASSUME WorkInv, WorkInv', [Next]_vars PROVE shrinks OBVIOUS
  <2>1. ASSUME NEW r \in Requests, Submit(r) PROVE shrinks BY <2>1 DEF Submit, WorkInv, IInv, TypeOK
  <2>2. ASSUME NEW r \in Requests, Send(r) \/ Receive(r) \/ Abandon(r) PROVE shrinks
    BY <2>2, CallersUseUpWork
  <2>3. ASSUME NEW r \in Requests, Task(r) PROVE shrinks BY <2>3, TasksUseUpWork
  <2>4. CASE Worker BY <2>4, WorkerUsesUpWork
  <2>5. CASE Cancel \/ Close \/ Quiescent \/ UNCHANGED vars
    BY <2>5 DEF Cancel, Close, Quiescent, callerVars, workerVars, taskVars, vars
  <2> QED BY <2>1, <2>2, <2>3, <2>4, <2>5 DEF Next, CallerNext
<1>2. WorkInv /\ WorkInv' /\ [Next]_vars => [shrinks]_vars BY <1>1
<1> QED BY <1>2, WorkInvHolds, PTL DEF Spec, OnlyCallsMakeWork
-----------------------------------------------------------------------------
(***************************************************************************)
(* Live conversion on top of the pipeline.  What a cancel was meant for is *)
(* never queued again; while the worker still holds it the flag is up.     *)
(***************************************************************************)

\* Every key handler, cancel and change of consent is a step of the pipeline or
\* none, so that its theorems hold of live conversion too.
THEOREM LiveImplementsPipeline == LiveSpec => Spec
<1>1. LiveInit => Init BY DEF LiveInit
<1>2. [LiveNext]_allVars => [Next]_vars
  <2> SUFFICES ASSUME [LiveNext]_allVars PROVE [Next]_vars OBVIOUS
  <2>1. ASSUME NEW r \in Requests, CheckConsent(r) PROVE [Next]_vars BY <2>1 DEF CheckConsent
  <2>2. ASSUME NEW r \in Requests, SubmitInput(r) PROVE [Next]_vars
    BY <2>2 DEF SubmitInput, Next, CallerNext
  <2>3. ASSUME NEW r \in Requests, Send(r) \/ Receive(r) \/ Abandon(r) \/ Task(r) PROVE [Next]_vars
    BY <2>3 DEF Next, CallerNext
  <2>4. CASE CancelPending BY <2>4 DEF CancelPending, Next
  <2>5. CASE ConsentChanges BY <2>5 DEF ConsentChanges
  <2>6. CASE Close \/ Worker BY <2>6 DEF Next
  <2>7. CASE UNCHANGED allVars BY <2>7 DEF allVars
  <2> QED BY <2>1, <2>2, <2>3, <2>4, <2>5, <2>6, <2>7 DEF LiveNext
<1> QED BY <1>1, <1>2, PTL DEF LiveSpec, Spec

CancelInv ==
  \A r \in targeted :
    /\ r \in Requests /\ caller[r] \notin {"idle", "sending"}
    /\ ~IsQueued(r)
    /\ r \notin Unanswered /\ reply[r] \notin InferenceReplies
    /\ r = current => cancelFlag /\ worker \in {"debounce", "check"}

\* The worker, the tasks and the callers keep it, as long as no cancel adds a
\* target.
LEMMA PipelineKeepsCancelInv ==
  ASSUME IInv, CancelInv, [Next]_vars, UNCHANGED targeted
  PROVE  CancelInv'
<1> USE DEF IInv, CancelInv
<1>1. ASSUME UNCHANGED <<channel, Unanswered, reply>>,
             \A r \in targeted : caller'[r] \notin {"idle", "sending"},
             \A r \in targeted : r = current' => cancelFlag' /\ worker' \in {"debounce", "check"}
      PROVE  CancelInv'
  BY <1>1 DEF IsQueued
<1>2. CASE UNCHANGED vars BY <1>1, <1>2 DEF vars, Unanswered
<1>3. ASSUME NEW q \in Requests, Submit(q) \/ Receive(q) \/ Abandon(q) PROVE CancelInv'
  <2>1. UNCHANGED <<channel, Unanswered, reply, worker, current, cancelFlag>>
    BY <1>3 DEF Submit, Receive, Abandon, workerVars, taskVars, Unanswered
  <2>2. \A r \in targeted : caller'[r] \notin {"idle", "sending"}
    BY <1>3 DEF Submit, Receive, Abandon, TypeOK
  <2> QED BY <1>1, <2>1, <2>2
<1>4. ASSUME NEW q \in Requests, Send(q) PROVE CancelInv'
  <2>1. q \notin targeted BY <1>4 DEF Send
  <2>2. ASSUME NEW r, r # q, ~IsQueued(r) PROVE ~IsQueued(r)'
    BY <1>4, <2>2 DEF Send, IsQueued, TypeOK
  <2>3. UNCHANGED <<Unanswered, reply, worker, current, cancelFlag>>
    BY <1>4 DEF Send, workerVars, taskVars, Unanswered
  <2>4. \A r \in Requests : r # q => caller'[r] = caller[r] BY <1>4 DEF Send, TypeOK
  <2> QED BY <2>1, <2>2, <2>3, <2>4
<1>5. ASSUME NEW q \in Requests, Task(q) PROVE CancelInv'
  <2>1. UNCHANGED <<caller, channel, worker, current, cancelFlag>> /\ Unanswered' \subseteq Unanswered
    BY <1>5 DEF Task, TaskBegins, TaskAnswers, TaskPanics, TaskReleases, Unanswered, callerVars, workerVars
  <2>2. \A r \in Requests : reply'[r] = reply[r] \/ r \in Unanswered
    BY <1>5 DEF Task, TaskBegins, TaskAnswers, TaskPanics, TaskReleases, Unanswered, Answer, callerVars, TypeOK
  <2> QED BY <2>1, <2>2 DEF IsQueued
<1>6. CASE Cancel
  <2>1. UNCHANGED <<caller, channel, reply, Unanswered, worker, current>> /\ cancelFlag'
    BY <1>6 DEF Cancel, callerVars, workerVars, taskVars, Unanswered
  <2> QED BY <1>1, <2>1
<1>7. CASE Close \/ Quiescent \/ RecvClosed \/ DebounceElapsed
  <2>1. /\ UNCHANGED <<caller, channel, reply, Unanswered, current, cancelFlag>>
        /\ worker' = worker \/ worker' = "check" \/ worker = "recv"
    BY <1>7 DEF Close, Quiescent, RecvClosed, DebounceElapsed, vars, callerVars, workerVars, taskVars, Unanswered
  <2> QED BY <1>1, <2>1
<1>8. CASE CheckPassed
  <2>1. UNCHANGED <<caller, channel, reply, Unanswered, current, cancelFlag>> /\ ~cancelFlag
    BY <1>8 DEF CheckPassed, callerVars, taskVars, Unanswered
  <2> QED BY <1>1, <2>1
<1>9. CASE Recv \/ Supersede
  <2>1. /\ UNCHANGED <<caller, Unanswered>> /\ TakeHead
        /\ \A r \in Requests : reply'[r] \in {reply[r], "debounced"}
    BY <1>9 DEF Recv, Supersede, Answer, taskVars, Unanswered, TypeOK
  <2>2. /\ current' = channel[1] /\ Len(channel) \in Nat \ {0}
        /\ Len(channel') = Len(channel) - 1
        /\ \A i \in 1 .. Len(channel') : channel'[i] = channel[i + 1]
    BY <2>1, TakeHeadType DEF TypeOK
  <2>3. \A r : ~IsQueued(r) => r # current' /\ ~IsQueued(r)'
    BY <2>2 DEF IsQueued
  <2> QED BY <2>1, <2>3 DEF InferenceReplies
<1>10. CASE DebounceClosed \/ CheckCancelled
  <2>1. /\ UNCHANGED <<caller, channel, Unanswered>> /\ current' = NoRequest
        /\ \A r \in Requests : reply'[r] \in {reply[r], "closed", "cancelled"}
    BY <1>10 DEF DebounceClosed, CheckCancelled, Answer, taskVars, Unanswered, TypeOK
  <2> QED BY <2>1, NoRequestAssumption DEF IsQueued, InferenceReplies
<1>11. CASE Spawn
  <2>1. /\ UNCHANGED <<caller, channel, reply>> /\ current' = NoRequest
        /\ Unanswered' = Unanswered \cup {current} /\ worker = "acquire"
    BY <1>11 DEF Spawn, callerVars, Unanswered
  <2>2. current \notin targeted BY <2>1
  <2> QED BY <2>1, <2>2, NoRequestAssumption DEF IsQueued
<1> QED
  BY <1>2, <1>3, <1>4, <1>5, <1>6, <1>7, <1>8, <1>9, <1>10, <1>11 DEF Next, CallerNext, Worker

\* What is in the window now will be stopped.
LEMMA CancelKeepsCancelInv ==
  ASSUME IInv, CancelInv, CancelPending
  PROVE  CancelInv'
<1>1. /\ UNCHANGED <<caller, channel, reply, Unanswered, worker, current>> /\ cancelFlag'
      /\ targeted' = targeted \cup InWindow
  BY DEF CancelPending, Cancel, callerVars, workerVars, taskVars, Unanswered
<1>2. ASSUME NEW r \in InWindow
      PROVE  /\ r = current /\ r \in Requests /\ worker \in {"debounce", "check"}
             /\ caller[r] \notin {"idle", "sending"}
             /\ ~IsQueued(r) /\ r \notin Unanswered /\ reply[r] = "none"
  <2>1. r = current /\ worker \in {"debounce", "check"} BY DEF InWindow
  <2>2. r \in Requests BY <2>1 DEF IInv, TypeOK, Holding
  <2>3. reply[r] = "none" BY <2>1, <2>2 DEF IInv, OwnerInv
  <2>4. caller[r] \notin {"idle", "sending"} BY <2>1, <2>2 DEF IInv, TypeOK, OrderInv
  <2>5. ~IsQueued(r) BY <2>1, <2>2 DEF IInv, TypeOK, OrderInv, IsQueued
  <2>6. r \notin Unanswered BY <2>1, <2>2 DEF IInv, TypeOK, OrderInv, Unanswered
  <2> QED BY <2>1, <2>2, <2>3, <2>4, <2>5, <2>6
<1> QED BY <1>1, <1>2 DEF CancelInv, IsQueued, InferenceReplies

\* A cancel stops what waits in the window, whatever is typed, taken, replaced
\* or closed before the worker looks at the flag.
THEOREM CancelsStopTheirTargets == LiveSpec => []CancelStopsItsTarget
<1>1. LiveInit => CancelInv BY DEF LiveInit, CancelInv
<1>2. IInv /\ CancelInv /\ [LiveNext]_allVars /\ [Next]_vars => CancelInv'
  <2> SUFFICES ASSUME IInv, CancelInv, [LiveNext]_allVars, [Next]_vars PROVE CancelInv' OBVIOUS
  <2>1. CASE CancelPending BY <2>1, CancelKeepsCancelInv
  <2>2. CASE UNCHANGED targeted BY <2>2, PipelineKeepsCancelInv
  <2> QED BY <2>1, <2>2 DEF LiveNext, CheckConsent, SubmitInput, ConsentChanges, liveVars, allVars
<1>3. CancelInv => CancelStopsItsTarget BY DEF CancelInv, CancelStopsItsTarget
<1> QED BY <1>1, <1>2, <1>3, LiveImplementsPipeline, IInvHolds, PTL DEF LiveSpec, Spec
=============================================================================
