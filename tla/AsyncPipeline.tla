--------------------------- MODULE AsyncPipeline ---------------------------
(***************************************************************************)
(* crates/llmime-core/src/pipeline/async_pipeline.rs: the queue between    *)
(* the key handlers and the inference engines.                             *)
(*                                                                         *)
(* Callers await `submit`, which pushes a request with a oneshot reply     *)
(* channel into a bounded mpsc channel.  One worker task takes requests    *)
(* out, holds each through a debounce window in which a newer request      *)
(* replaces it, honours a cancel flag, waits for one of MaxConcurrent      *)
(* semaphore permits and spawns a task that runs the inferencer and        *)
(* answers.  A request is one call of `submit`; Requests is the set of all *)
(* calls ever made, so a request is submitted at most once.                *)
(***************************************************************************)
EXTENDS Integers, Sequences, FiniteSets

CONSTANTS
  Requests,       \* the calls of submit()
  MaxConcurrent,  \* PipelineConfig.max_concurrent
  BufferSize,     \* PipelineConfig.buffer_size
  Debounce,       \* TRUE when PipelineConfig.debounce_ms is not zero
  NoRequest       \* the worker holds no request

ASSUME MaxConcurrentAssumption == MaxConcurrent \in Nat
ASSUME BufferSizeAssumption    == BufferSize \in Nat \ {0}   \* mpsc::channel panics on 0
ASSUME DebounceAssumption      == Debounce \in BOOLEAN
ASSUME NoRequestAssumption     == NoRequest \notin Requests

VARIABLES
  caller,      \* where the future returned by submit() stands, per request
  reply,       \* what was sent on the request's oneshot channel
  channel,     \* the mpsc channel, oldest request first
  open,        \* some AsyncPipeline (hence a Sender) still exists
  worker,      \* the await point of run_worker
  current,     \* run_worker's local `current`
  cancelFlag,  \* the AtomicBool set by cancel()
  permits,     \* free permits of the semaphore
  spawned,     \* spawned tasks that were not polled yet; they own a permit
  running,     \* spawned tasks inside rerank()
  releasing,   \* spawned tasks that have answered and still own a permit
  ticket,      \* history: the position at which a request entered the channel
  sent,        \* history: number of requests that entered the channel
  lastSpawned  \* history: ticket of the request a task was last spawned for

callerVars  == <<caller, reply, channel, ticket, sent>>
workerVars  == <<worker, current, lastSpawned>>
taskVars    == <<permits, spawned, running, releasing>>
vars == <<caller, reply, channel, open, worker, current, cancelFlag,
          permits, spawned, running, releasing, ticket, sent, lastSpawned>>

CallerStates == {"idle", "sending", "waiting", "done", "abandoned"}
Holding == {"debounce", "check", "acquire"}   \* `current` is initialized
WorkerStates == Holding \cup {"recv", "exited"}

\* "lost" is a reply channel dropped by a panicking task; the caller sees
\* "response channel dropped".
InferenceReplies == {"ok", "failed", "lost"}
Replies == InferenceReplies \cup {"none", "debounced", "cancelled", "closed"}

Init ==
  /\ caller = [r \in Requests |-> "idle"]
  /\ reply = [r \in Requests |-> "none"]
  /\ channel = <<>>
  /\ open = TRUE
  /\ worker = "recv"
  /\ current = NoRequest
  /\ cancelFlag = FALSE
  /\ permits = MaxConcurrent
  /\ spawned = {}
  /\ running = {}
  /\ releasing = {}
  /\ ticket = [r \in Requests |-> 0]
  /\ sent = 0
  /\ lastSpawned = 0

Answer(r, outcome) == reply' = [reply EXCEPT ![r] = outcome]

-----------------------------------------------------------------------------
(* Callers *)

\* submit() is called: the future starts waiting for room in the channel.
Submit(r) ==
  /\ open
  /\ caller[r] = "idle"
  /\ caller' = [caller EXCEPT ![r] = "sending"]
  /\ UNCHANGED <<reply, channel, ticket, sent, open, workerVars, cancelFlag, taskVars>>

\* sender.send() completes once the bounded channel has room.  The receiver
\* lives as long as a Sender does, so the send itself never fails.
Send(r) ==
  /\ caller[r] = "sending"
  /\ Len(channel) < BufferSize
  /\ caller' = [caller EXCEPT ![r] = "waiting"]
  /\ channel' = Append(channel, r)
  /\ sent' = sent + 1
  /\ ticket' = [ticket EXCEPT ![r] = sent + 1]
  /\ UNCHANGED <<reply, open, workerVars, cancelFlag, taskVars>>

\* rx.await resolves with the reply, or with an error when it was dropped.
Receive(r) ==
  /\ caller[r] = "waiting"
  /\ reply[r] # "none"
  /\ caller' = [caller EXCEPT ![r] = "done"]
  /\ UNCHANGED <<reply, channel, ticket, sent, open, workerVars, cancelFlag, taskVars>>

\* The caller drops the future.  A request already in the channel stays there.
Abandon(r) ==
  /\ caller[r] \in {"sending", "waiting"}
  /\ caller' = [caller EXCEPT ![r] = "abandoned"]
  /\ UNCHANGED <<reply, channel, ticket, sent, open, workerVars, cancelFlag, taskVars>>

\* cancel(): a store, whatever the worker is doing.
Cancel ==
  /\ open
  /\ cancelFlag' = TRUE
  /\ UNCHANGED <<callerVars, open, workerVars, taskVars>>

\* Fault: the pipeline closes under callers that still wait.
Close_UnderCallers ==
  /\ open
  /\ open' = FALSE
  /\ UNCHANGED <<callerVars, workerVars, cancelFlag, taskVars>>

\* The last AsyncPipeline is dropped.  A live submit() future borrows it.
Close ==
  /\ open
  /\ \A r \in Requests : caller[r] \notin {"sending", "waiting"}
  /\ open' = FALSE
  /\ UNCHANGED <<callerVars, workerVars, cancelFlag, taskVars>>

-----------------------------------------------------------------------------
(* The worker task *)

TakeHead ==
  /\ channel # <<>>
  /\ current' = Head(channel)
  /\ channel' = Tail(channel)

\* rx.recv() yields a request; a zero debounce skips the window.
Recv ==
  /\ worker = "recv"
  /\ TakeHead
  /\ worker' = IF Debounce THEN "debounce" ELSE "check"
  /\ UNCHANGED <<caller, reply, ticket, sent, lastSpawned, open, cancelFlag, taskVars>>

\* rx.recv() yields None: the buffer is drained and every Sender is gone.
RecvClosed ==
  /\ worker = "recv"
  /\ channel = <<>>
  /\ ~open
  /\ worker' = "exited"
  /\ UNCHANGED <<callerVars, current, lastSpawned, open, cancelFlag, taskVars>>

\* Fault: the newer request is thrown away and the older one kept.
Supersede_DropsNewest ==
  /\ worker = "debounce"
  /\ channel # <<>>
  /\ channel' = Tail(channel)
  /\ Answer(Head(channel), "debounced")
  /\ UNCHANGED <<caller, ticket, sent, workerVars, open, cancelFlag, taskVars>>

\* The biased select! polls the channel first: a newer request replaces the
\* held one, which is answered "debounced"; the window starts again.
Supersede ==
  /\ worker = "debounce"
  /\ TakeHead
  /\ Answer(current, "debounced")
  /\ UNCHANGED <<caller, ticket, sent, worker, lastSpawned, open, cancelFlag, taskVars>>

\* Fault: the end of the window forgets a cancel that arrived in it.
DebounceElapsed_ClearsFlag ==
  /\ worker = "debounce"
  /\ channel = <<>>
  /\ open
  /\ worker' = "check"
  /\ cancelFlag' = FALSE
  /\ UNCHANGED <<callerVars, current, lastSpawned, open, taskVars>>

\* The sleep is polled only after the channel was found empty and still open.
DebounceElapsed ==
  /\ worker = "debounce"
  /\ channel = <<>>
  /\ open
  /\ worker' = "check"
  /\ UNCHANGED <<callerVars, current, lastSpawned, open, cancelFlag, taskVars>>

\* The channel closed inside the window: answer and return.
DebounceClosed ==
  /\ worker = "debounce"
  /\ channel = <<>>
  /\ ~open
  /\ Answer(current, "closed")
  /\ worker' = "exited"
  /\ current' = NoRequest
  /\ UNCHANGED <<caller, channel, ticket, sent, lastSpawned, open, cancelFlag, taskVars>>

\* Fault: the cancelled request is dropped without an answer.
CheckCancelled_Silent ==
  /\ worker = "check"
  /\ cancelFlag
  /\ cancelFlag' = FALSE
  /\ worker' = "recv"
  /\ current' = NoRequest
  /\ UNCHANGED <<callerVars, lastSpawned, open, taskVars>>

\* cancel_flag.swap(false) found TRUE.
CheckCancelled ==
  /\ worker = "check"
  /\ cancelFlag
  /\ cancelFlag' = FALSE
  /\ Answer(current, "cancelled")
  /\ worker' = "recv"
  /\ current' = NoRequest
  /\ UNCHANGED <<caller, channel, ticket, sent, lastSpawned, open, taskVars>>

\* cancel_flag.swap(false) found FALSE.
CheckPassed ==
  /\ worker = "check"
  /\ ~cancelFlag
  /\ worker' = "acquire"
  /\ UNCHANGED <<callerVars, current, lastSpawned, open, cancelFlag, taskVars>>

\* Fault: the task is spawned without waiting for a permit.
Spawn_NoWait ==
  /\ worker = "acquire"
  /\ permits' = permits - 1
  /\ spawned' = spawned \cup {current}
  /\ lastSpawned' = ticket[current]
  /\ worker' = "recv"
  /\ current' = NoRequest
  /\ UNCHANGED <<callerVars, open, cancelFlag, running, releasing>>

\* acquire_owned() yields a permit, which moves into the spawned task.
Spawn ==
  /\ worker = "acquire"
  /\ permits > 0
  /\ permits' = permits - 1
  /\ spawned' = spawned \cup {current}
  /\ lastSpawned' = ticket[current]
  /\ worker' = "recv"
  /\ current' = NoRequest
  /\ UNCHANGED <<callerVars, open, cancelFlag, running, releasing>>

-----------------------------------------------------------------------------
(* The spawned tasks *)

\* The runtime polls the task for the first time, on any of its threads: the task
\* calls rerank().  Tasks spawned in one order may be polled in another.
TaskBegins(r) ==
  /\ r \in spawned
  /\ spawned' = spawned \ {r}
  /\ running' = running \cup {r}
  /\ UNCHANGED <<callerVars, workerVars, open, cancelFlag, permits, releasing>>

\* rerank() returns and the reply is sent; the permit, a local of the task, is
\* dropped afterwards.
TaskAnswers(r) ==
  /\ r \in running
  /\ \E outcome \in {"ok", "failed"} : Answer(r, outcome)
  /\ running' = running \ {r}
  /\ releasing' = releasing \cup {r}
  /\ UNCHANGED <<caller, channel, ticket, sent, workerVars, open, cancelFlag, permits, spawned>>

\* Fault: a task that panics takes its permit with it.
TaskPanics_Leaks(r) ==
  /\ r \in running
  /\ Answer(r, "lost")
  /\ running' = running \ {r}
  /\ UNCHANGED <<caller, channel, ticket, sent, workerVars, open, cancelFlag,
                 permits, spawned, releasing>>

\* Fault: a request whose inference panicked is put back into the channel.
TaskPanics_Requeues(r) ==
  /\ r \in running
  /\ running' = running \ {r}
  /\ permits' = permits + 1
  /\ channel' = Append(channel, r)
  /\ UNCHANGED <<caller, reply, ticket, sent, workerVars, open, cancelFlag,
                 spawned, releasing>>

\* rerank() panics: unwinding drops the permit and then the reply channel.
\* One step, for nothing but the caller's await depends on the second drop.
TaskPanics(r) ==
  /\ r \in running
  /\ Answer(r, "lost")
  /\ running' = running \ {r}
  /\ permits' = permits + 1
  /\ UNCHANGED <<caller, channel, ticket, sent, workerVars, open, cancelFlag,
                 spawned, releasing>>

TaskReleases(r) ==
  /\ r \in releasing
  /\ releasing' = releasing \ {r}
  /\ permits' = permits + 1
  /\ UNCHANGED <<callerVars, workerVars, open, cancelFlag, spawned, running>>

-----------------------------------------------------------------------------
\* Every call was made and answered or given up, and nothing is left to do.
Quiescent ==
  /\ \A r \in Requests :
       caller[r] \in IF open THEN {"done", "abandoned"} ELSE {"idle", "done", "abandoned"}
  /\ channel = <<>>
  /\ worker \in {"recv", "exited"}
  /\ spawned \cup running \cup releasing = {}
  /\ UNCHANGED vars

CallerNext(r) == Submit(r) \/ Send(r) \/ Receive(r) \/ Abandon(r)
Worker == \/ Recv \/ RecvClosed \/ Supersede \/ DebounceElapsed \/ DebounceClosed
          \/ CheckCancelled \/ CheckPassed \/ Spawn
Task(r) == TaskBegins(r) \/ TaskAnswers(r) \/ TaskPanics(r) \/ TaskReleases(r)

Next ==
  \/ \E r \in Requests : CallerNext(r) \/ Task(r)
  \/ Cancel
  \/ Close
  \/ Worker
  \/ Quiescent

\* The runtime polls the worker and every ready task; the channel's semaphore
\* is fair to blocked senders; rerank() returns, which is a duty of the
\* inferencer (the engines are local computations or carry a deadline).
\* Nobody is obliged to submit, cancel, abandon or close.
Fairness ==
  /\ WF_vars(Worker)
  /\ \A r \in Requests : SF_vars(Send(r)) /\ WF_vars(Receive(r)) /\ WF_vars(Task(r))

Spec == Init /\ [][Next]_vars
FairSpec == Spec /\ Fairness

-----------------------------------------------------------------------------
(* Properties *)

Queued == {channel[i] : i \in DOMAIN channel}

\* The tasks that have not answered yet.
Unanswered == spawned \cup running

\* Every variable ranges over the values the code can give it; the worker
\* holds a request exactly between receiving it and settling its fate.
TypeOK ==
  /\ caller \in [Requests -> CallerStates]
  /\ reply \in [Requests -> Replies]
  /\ channel \in Seq(Requests)
  /\ open \in BOOLEAN
  /\ worker \in WorkerStates
  /\ current \in IF worker \in Holding THEN Requests ELSE {NoRequest}
  /\ cancelFlag \in BOOLEAN
  /\ permits \in Nat
  /\ spawned \in SUBSET Requests
  /\ running \in SUBSET Requests
  /\ releasing \in SUBSET Requests
  /\ ticket \in [Requests -> Nat]
  /\ sent \in Nat
  /\ lastSpawned \in Nat

\* Every permit is free or owned by exactly one live task, whatever way the
\* task ended, so max_concurrent bounds the inferences in flight and no
\* permit leaks.
PermitsConserved ==
  permits + Cardinality(spawned) + Cardinality(running) + Cardinality(releasing) = MaxConcurrent

\* A caller that awaits its reply is owed one by somebody: its request sits
\* in the channel, in the worker's hands or in a task, in one of them only.
EveryWaiterIsOwed ==
  \A r \in Requests :
    (caller[r] = "waiting" /\ reply[r] = "none") =>
      \/ r \in Queued \ (Unanswered \cup {current})
      \/ r = current /\ r \notin Queued \cup Unanswered
      \/ r \in Unanswered \ (Queued \cup {current})

\* Debouncing drops a request only in favour of one that entered the channel
\* after it: the latest input is never the one thrown away.
LatestIsNeverDebounced ==
  \A r \in Requests : reply[r] = "debounced" => ticket[r] < sent

\* No live caller is ever told "pipeline closed" (lines 95-99): the pipeline
\* can only close under requests whose callers have given up.
ClosedReachesNobody ==
  \A r \in Requests : reply[r] = "closed" => caller[r] = "abandoned"

\* The requests that entered the channel before r and have no answer yet.
Passed(r) == {q \in Requests : ticket[q] \in 1 .. ticket[r] - 1 /\ reply[q] = "none"}

\* The queue is in order up to the permits: a task that calls the inferencer (line
\* 128) leaves behind it fewer than max_concurrent earlier requests that have no answer
\* yet, whatever was debounced, cancelled or panicked meanwhile and whichever task the
\* runtime polls first.  With one permit nothing is overtaken at all.
BoundedOvertaking ==
  [][\A r \in running' \ running : Cardinality(Passed(r)) < MaxConcurrent]_vars

\* Nobody waits for somebody who waits for him: whoever has not got his answer can
\* take a step himself, or the worker or a task can; the worker never stands before
\* permits that nobody holds, nor a sender before a channel that nobody drains.
NobodyIsStuck ==
  \A r \in Requests :
    caller[r] \in {"sending", "waiting"} =>
      \/ caller[r] = "sending" /\ Len(channel) < BufferSize
      \/ caller[r] = "waiting" /\ reply[r] # "none"
      \/ worker = "recv" /\ channel # <<>>
      \/ worker \in {"debounce", "check"}
      \/ worker = "acquire" /\ permits > 0
      \/ spawned \cup running \cup releasing # {}

\* The steps that can still be taken: for each request those from where it stands to
\* its answer and the return of its permit, and the worker's last.
CallersWork ==
  9 * Cardinality({r \in Requests : caller[r] = "sending"})
    + Cardinality({r \in Requests : caller[r] = "waiting"})
WorkersWork ==
  7 * Len(channel)
    + [debounce |-> 7, check |-> 6, acquire |-> 5, recv |-> 1, exited |-> 0][worker]
TasksWork == 3 * Cardinality(spawned) + 2 * Cardinality(running) + Cardinality(releasing)
WorkLeft == CallersWork + WorkersWork + TasksWork

\* Windows that start again, cancels, refusals and panics cannot go round in
\* circles: only a new call makes work, and every other step that moves anything
\* uses some up, so that after the last call the pipeline comes to rest.
OnlyCallsMakeWork ==
  [][\/ \E r \in Requests : caller[r] = "idle" /\ caller'[r] = "sending"
     \/ UNCHANGED <<caller, channel, worker, spawned, running, releasing>>
     \/ WorkLeft' \in 0 .. WorkLeft - 1]_vars

\* Every call of submit returns unless its caller drops it.
EveryCallReturns ==
  \A r \in Requests :
    caller[r] = "sending" ~> caller[r] \in {"done", "abandoned"}

\* The refinement mapping to InferenceService: where a call stands, what it
\* returned, which requests were given to the inferencer, whose task is alive.
Status ==
  [r \in Requests |->
     IF caller[r] = "idle" THEN "new"
     ELSE IF caller[r] \in {"sending", "waiting"} THEN "pending"
     ELSE IF caller[r] = "done" THEN "returned"
     ELSE "abandoned"]
Result    == [r \in Requests |-> IF caller[r] = "done" THEN reply[r] ELSE "none"]
Served    == {r \in Requests : r \in running \/ reply[r] \in InferenceReplies}
Executing == running \cup releasing
Refusals  == {"debounced", "cancelled"}

Service == INSTANCE InferenceService WITH
  status <- Status, result <- Result, served <- Served, executing <- Executing

\* The pipeline implements the service it promises; "pipeline closed" (lines 95-99) is
\* no answer of the service: it goes to callers that have given up.
ImplementsService == Service!Spec
=============================================================================
