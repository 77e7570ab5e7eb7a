----------------------------- MODULE RerankQueue -----------------------------
(***************************************************************************)
(* crates/llmime-core/src/rerank/rerank_queue.rs: the coalescing queue     *)
(* between the typing thread and the background rerank worker.             *)
(*                                                                         *)
(* enqueue() merges a request into the pending batch, or pushes the        *)
(* pending batch out and starts another; each call also spawns a timer     *)
(* task that pushes the batch of its generation out once no call has       *)
(* touched it for the batch window.  A pushed batch is in the hands of a   *)
(* task until its try_send, which drops it when the channel is full or     *)
(* closed.                                                                 *)
(*                                                                         *)
(* Time: a timer sleeps for a whole window after the update its call made. *)
(* When it wakes and no later update came, the window has elapsed; when    *)
(* one came, it has elapsed only if the timer woke late enough.            *)
(***************************************************************************)
EXTENDS RerankBatch

CONSTANTS
  Calls,            \* the calls of enqueue() ever made
  Event,            \* per call, its tokens and text: [recent, buffer]
  ChannelCapacity,  \* RerankConfig.channel_capacity
  ZeroWindow        \* TRUE when RerankConfig.batch_window_ms is zero

ASSUME EventAssumption ==
  \A c \in Calls : Event[c].recent \in Seq([start : Nat, end : Nat, low : BOOLEAN])
ASSUME CapacityAssumption   == ChannelCapacity \in Nat
ASSUME ZeroWindowAssumption == ZeroWindow \in BOOLEAN

VARIABLES
  pending,         \* CoalesceState.pending, with history of its members
  nextGeneration,  \* CoalesceState.next_generation
  timers,          \* sleeping delayed-flush tasks
  pushed,          \* batches held by a task that will try_send them
  channel,         \* the mpsc channel, oldest batch first
  receiverOpen,    \* the Receiver still exists
  called,          \* history: calls of enqueue made so far
  updates,         \* history: number of updates of `pending`, its clock
  received,        \* history: batches the worker has taken
  dropped          \* history: batches whose try_send failed

vars == <<pending, nextGeneration, timers, pushed, channel, receiverOpen,
          called, updates, received, dropped>>

\* state.pending is None.
NoBatch == [members |-> {}]

Capacity == IF ChannelCapacity > 1 THEN ChannelCapacity ELSE 1

Request(c) == [tokens |-> Targets(Event[c].recent), context |-> Event[c].buffer]

Init ==
  /\ pending = NoBatch
  /\ nextGeneration = 0
  /\ timers = {}
  /\ pushed = {}
  /\ channel = <<>>
  /\ receiverOpen = TRUE
  /\ called = {}
  /\ updates = 0
  /\ received = {}
  /\ dropped = {}

\* Nothing in the event is worth reranking: enqueue returns at once.
EnqueueNothing(c) ==
  /\ c \notin called
  /\ Targets(Event[c].recent) = {}
  /\ called' = called \cup {c}
  /\ UNCHANGED <<pending, nextGeneration, timers, pushed, channel, receiverOpen,
                 updates, received, dropped>>

\* The event has something to rerank.
Arrives(c) == c \notin called /\ Targets(Event[c].recent) # {}

\* What every effective call does besides setting `pending` under the lock:
\* its timer is spawned with the generation it left in place.
StartTimer(c) ==
  /\ called' = called \cup {c}
  /\ updates' = updates + 1
  /\ timers' = timers \cup {[generation |-> pending'.generation, update |-> updates + 1]}
  /\ UNCHANGED <<channel, receiverOpen, received, dropped>>

FreshBatch(c) ==
  [request |-> Request(c), members |-> {c},
   generation |-> nextGeneration, update |-> updates + 1]

\* No batch is pending: the request starts one.
EnqueueFirst(c) ==
  /\ Arrives(c)
  /\ pending = NoBatch
  /\ pending' = FreshBatch(c)
  /\ nextGeneration' = nextGeneration + 1
  /\ StartTimer(c)
  /\ UNCHANGED pushed

\* Fault: a merged call relies on the timer of the call it merged with.
EnqueueMerged_NoTimer(c) ==
  /\ Arrives(c)
  /\ pending # NoBatch
  /\ CanCoalesce(pending.request, Request(c))
  /\ pending' = [pending EXCEPT !.request = Merge(@, Request(c)),
                                !.members = @ \cup {c},
                                !.update = updates + 1]
  /\ called' = called \cup {c}
  /\ updates' = updates + 1
  /\ UNCHANGED <<nextGeneration, timers, pushed, channel, receiverOpen, received, dropped>>

\* The request is merged into the pending batch, which keeps its generation.
EnqueueMerged(c) ==
  /\ Arrives(c)
  /\ pending # NoBatch
  /\ CanCoalesce(pending.request, Request(c))
  /\ pending' = [pending EXCEPT !.request = Merge(@, Request(c)),
                                !.members = @ \cup {c},
                                !.update = updates + 1]
  /\ StartTimer(c)
  /\ UNCHANGED <<nextGeneration, pushed>>

\* The request is elsewhere in the text: the pending batch is handed to a
\* spawned task and the request starts a new one.
EnqueueReplacing(c) ==
  /\ Arrives(c)
  /\ pending # NoBatch
  /\ ~CanCoalesce(pending.request, Request(c))
  /\ pushed' = pushed \cup {pending}
  /\ pending' = FreshBatch(c)
  /\ nextGeneration' = nextGeneration + 1
  /\ StartTimer(c)

\* Fault: a batch quiet for exactly one window does not count as quiet.
WindowElapsed_Strict(t) == IF ZeroWindow THEN {TRUE} ELSE BOOLEAN

WindowElapsed(t) == IF ZeroWindow \/ pending.update = t.update THEN {TRUE} ELSE BOOLEAN

\* Fault: the batch is copied out of `pending` instead of taken.
TimerFires_Copies(t) ==
  /\ t \in timers
  /\ timers' = timers \ {t}
  /\ pushed' = IF pending # NoBatch /\ pending.generation = t.generation
               THEN pushed \cup {pending} ELSE pushed
  /\ UNCHANGED <<pending, nextGeneration, channel, receiverOpen, called, updates,
                 received, dropped>>

\* The timer wakes: it takes the batch of its own generation if that has been
\* quiet for a window, and nothing otherwise.
TimerFires(t) ==
  /\ t \in timers
  /\ timers' = timers \ {t}
  /\ IF pending # NoBatch /\ pending.generation = t.generation
     THEN \E elapsed \in WindowElapsed(t) :
            /\ pushed' = IF elapsed THEN pushed \cup {pending} ELSE pushed
            /\ pending' = IF elapsed THEN NoBatch ELSE pending
     ELSE UNCHANGED <<pushed, pending>>
  /\ UNCHANGED <<nextGeneration, channel, receiverOpen, called, updates, received, dropped>>

\* Fault: a batch that finds the channel full is tried again.
TrySend_Retries(b) ==
  /\ b \in pushed
  /\ IF receiverOpen /\ Len(channel) < Capacity
     THEN channel' = Append(channel, b) /\ pushed' = pushed \ {b} /\ UNCHANGED dropped
     ELSE dropped' = dropped \cup {b} /\ UNCHANGED <<channel, pushed>>
  /\ UNCHANGED <<pending, nextGeneration, timers, receiverOpen, called, updates, received>>

\* try_send of a batch, in the order the tasks happen to run; its result is
\* ignored.
TrySend(b) ==
  /\ b \in pushed
  /\ pushed' = pushed \ {b}
  /\ IF receiverOpen /\ Len(channel) < Capacity
     THEN channel' = Append(channel, b) /\ UNCHANGED dropped
     ELSE dropped' = dropped \cup {b} /\ UNCHANGED channel
  /\ UNCHANGED <<pending, nextGeneration, timers, receiverOpen, called, updates, received>>

\* The worker at the other end takes a batch.
Receive ==
  /\ receiverOpen
  /\ channel # <<>>
  /\ received' = received \cup {Head(channel)}
  /\ channel' = Tail(channel)
  /\ UNCHANGED <<pending, nextGeneration, timers, pushed, receiverOpen, called, updates, dropped>>

\* The worker goes away; what the channel held is dropped with it.
CloseReceiver ==
  /\ receiverOpen
  /\ receiverOpen' = FALSE
  /\ dropped' = dropped \cup Range(channel)
  /\ channel' = <<>>
  /\ UNCHANGED <<pending, nextGeneration, timers, pushed, called, updates, received>>

Enqueue(c) == EnqueueNothing(c) \/ EnqueueFirst(c) \/ EnqueueMerged(c) \/ EnqueueReplacing(c)

Next ==
  \/ \E c \in Calls : Enqueue(c)
  \/ \E t \in timers : TimerFires(t)
  \/ \E b \in pushed : TrySend(b)
  \/ Receive
  \/ CloseReceiver

\* The runtime wakes every timer and runs every spawned task.
Fairness ==
  /\ WF_vars(\E t \in timers : TimerFires(t))
  /\ WF_vars(\E b \in pushed : TrySend(b))

Spec == Init /\ [][Next]_vars
FairSpec == Spec /\ Fairness

-----------------------------------------------------------------------------
(* Properties *)

Pending == IF pending = NoBatch THEN {} ELSE {pending}
Effective == {c \in called : Targets(Event[c].recent) # {}}

\* Batches are numbered below next_generation, timers belong to a generation
\* that exists, and the channel stays within its capacity.
TypeOK ==
  /\ nextGeneration \in Nat
  /\ updates \in Nat
  /\ called \subseteq Calls
  /\ receiverOpen \in BOOLEAN
  /\ Len(channel) <= Capacity
  /\ \A t \in timers : t.generation \in 0 .. nextGeneration - 1 /\ t.update \in 1 .. updates
  /\ \A b \in Pending \cup pushed \cup Range(channel) \cup received \cup dropped :
       /\ b.generation \in 0 .. nextGeneration - 1
       /\ b.update \in 1 .. updates
       /\ b.members # {} /\ b.members \subseteq called

\* Every effective call of enqueue is accounted for exactly once: its tokens
\* wait in the pending batch, or are in the hands of one task, or in one slot
\* of the channel, or were taken once, or were dropped once.
EveryCallOnce ==
  \A c \in Effective :
    LET In(batches) == Cardinality({b \in batches : c \in b.members})
    IN  In(Pending) + In(pushed) + In(received) + In(dropped)
          + Cardinality({i \in DOMAIN channel : c \in channel[i].members}) = 1

\* A pending batch is never orphaned: the timer of the call that touched it
\* last is still asleep, and that timer is bound to find the window elapsed.
PendingHasTimer ==
  pending # NoBatch =>
    [generation |-> pending.generation, update |-> pending.update] \in timers

\* A batch holds tokens of its own calls only, no more than the window, and
\* gives up a token only when its calls brought more than the window holds.
BatchesAreWindows ==
  \A b \in Pending \cup pushed \cup received \cup dropped :
    LET brought == UNION {Targets(Event[c].recent) : c \in b.members}
    IN  /\ b.request.tokens \subseteq brought
        /\ b.request.tokens # {} /\ Cardinality(b.request.tokens) <= WindowSize
        /\ Cardinality(brought) <= WindowSize => b.request.tokens = brought

\* Typing on cannot hold a call's tokens back for ever: every effective call
\* leaves the queue, into the channel or dropped at its door.
EveryCallLeavesQueue ==
  \A c \in Calls :
    c \in Effective ~>
      \A b \in Pending \cup pushed : c \notin b.members

\* The refinement mapping to RerankService: where a call stands, and what the
\* worker was handed.
Holds(batches, c) == \E b \in batches : c \in b.members
Status ==
  [c \in Calls |->
     IF c \notin called THEN "new"
     ELSE IF Targets(Event[c].recent) = {} THEN "nothing"
     ELSE IF Holds(received, c) THEN "served"
     ELSE IF Holds(dropped, c) THEN "lost"
     ELSE "waiting"]
Handed == {[calls |-> b.members, tokens |-> b.request.tokens] : b \in received}

Service == INSTANCE RerankService WITH
  status <- Status, requests <- Handed, Brings <- [c \in Calls |-> Targets(Event[c].recent)]

\* Whatever calls are merged, replaced and timed out, whatever tasks overtake each
\* other and whatever the channel refuses, a call waits, is served or lost once and
\* for all, and a request is a window of the tokens of those it serves.
ImplementsService == Service!Spec
=============================================================================
