------------------------- MODULE RerankQueueProofs -------------------------
(***************************************************************************)
(* Proofs about the rerank queue, for any calls, tokens, window, gap and   *)
(* channel: a pending batch always has its timer, every call's tokens are  *)
(* in exactly one place, a batch is a window of its calls' tokens, and the *)
(* queue implements RerankService.  The run rerank_queue checks the first, *)
(* the second and the last, which shows the third of what is received; it  *)
(* alone shows that every call leaves the queue.                           *)
(***************************************************************************)
EXTENDS RerankQueue, DataLemmas

-----------------------------------------------------------------------------
(***************************************************************************)
(* The timer of the pending batch.                                         *)
(***************************************************************************)

\* A pending batch is a record of four fields; None has only the first.
PendingShape ==
  pending # NoBatch =>
    pending = [request |-> pending.request, members |-> pending.members,
               generation |-> pending.generation, update |-> pending.update]

TimerInv == PendingShape /\ PendingHasTimer

\* Merging into the pending batch changes its request, members and update.
LEMMA MergedBatch ==
  ASSUME NEW c, PendingShape, EnqueueMerged(c)
  PROVE  pending' = [request |-> Merge(pending.request, Request(c)),
                     members |-> pending.members \cup {c},
                     generation |-> pending.generation, update |-> updates + 1]
BY DEF PendingShape, EnqueueMerged

\* None is no batch of any call.
LEMMA NoneIsEmpty == NoBatch.members = {}
BY DEF NoBatch

\* A pending batch is never orphaned: whatever is merged into it and however
\* the timers of earlier calls wake, the timer of the last call is asleep.
THEOREM PendingBatchHasTimer == Spec => []PendingHasTimer
<1>1. Init => TimerInv
  BY DEF Init, TimerInv, PendingShape, PendingHasTimer
<1>2. TimerInv /\ [Next]_vars => TimerInv'
  <2> SUFFICES ASSUME TimerInv, [Next]_vars PROVE TimerInv' OBVIOUS
  <2> USE DEF TimerInv
  <2>1. ASSUME UNCHANGED <<pending, timers>> PROVE TimerInv'
    BY <2>1 DEF PendingShape, PendingHasTimer
  <2>2. ASSUME NEW c \in Calls, Enqueue(c) PROVE TimerInv'
    <3>1. CASE EnqueueNothing(c) BY <2>1, <3>1 DEF EnqueueNothing
    <3>2. CASE EnqueueMerged(c)
      <4>1. pending' = [request |-> Merge(pending.request, Request(c)),
                        members |-> pending.members \cup {c},
                        generation |-> pending.generation, update |-> updates + 1]
        BY <3>2, MergedBatch
      <4>2. timers' = timers \cup {[generation |-> pending'.generation, update |-> updates + 1]}
        BY <3>2 DEF EnqueueMerged, StartTimer
      <4> QED BY <4>1, <4>2 DEF PendingShape, PendingHasTimer
    <3>3. CASE EnqueueFirst(c) \/ EnqueueReplacing(c)
      <4>1. pending' = FreshBatch(c)
        BY <3>3 DEF EnqueueFirst, EnqueueReplacing
      <4>2. timers' = timers \cup {[generation |-> pending'.generation, update |-> updates + 1]}
        BY <3>3 DEF EnqueueFirst, EnqueueReplacing, StartTimer
      <4> QED BY <4>1, <4>2 DEF FreshBatch, PendingShape, PendingHasTimer
    <3> QED BY <2>2, <3>1, <3>2, <3>3 DEF Enqueue
  <2>3. ASSUME NEW t \in timers, TimerFires(t) PROVE TimerInv'
    <3>1. CASE pending' = NoBatch BY <3>1 DEF PendingShape, PendingHasTimer
    <3>2. CASE pending' = pending /\ pending # NoBatch
      <4>1. t # [generation |-> pending.generation, update |-> pending.update]
        <5> SUFFICES ASSUME t = [generation |-> pending.generation, update |-> pending.update]
                     PROVE  pending' = NoBatch
          BY <3>2
        <5>1. t.generation = pending.generation /\ pending.update = t.update OBVIOUS
        <5>2. WindowElapsed(t) = {TRUE} BY <5>1 DEF WindowElapsed
        <5> QED BY <2>3, <3>2, <5>1, <5>2 DEF TimerFires
      <4>2. timers' = timers \ {t} BY <2>3 DEF TimerFires
      <4> QED BY <3>2, <4>1, <4>2 DEF PendingShape, PendingHasTimer
    <3>3. pending' \in {pending, NoBatch} BY <2>3 DEF TimerFires
    <3> QED BY <3>1, <3>2, <3>3
  <2>4. ASSUME NEW b \in pushed, TrySend(b) PROVE TimerInv' BY <2>1, <2>4 DEF TrySend
  <2>5. CASE Receive BY <2>1, <2>5 DEF Receive
  <2>6. CASE CloseReceiver BY <2>1, <2>6 DEF CloseReceiver
  <2>7. CASE UNCHANGED vars BY <2>1, <2>7 DEF vars
  <2> QED BY <2>2, <2>3, <2>4, <2>5, <2>6, <2>7 DEF Next
<1>3. TimerInv => PendingHasTimer BY DEF TimerInv
<1> QED BY <1>1, <1>2, <1>3, PTL DEF Spec
-----------------------------------------------------------------------------
(***************************************************************************)
(* Every call in one place.  A batch moves from one place to another and   *)
(* its calls with it; a call is in no other batch there, and in no batch   *)
(* of another place.                                                       *)
(***************************************************************************)

\* No more than one batch of X has call c.
Sole(X, c) == \A b1, b2 \in X : c \in b1.members /\ c \in b2.members => b1 = b2

\* A slot of the channel has call c, and only one has.
InChannel(c) == \E i \in DOMAIN channel : c \in channel[i].members
SoleInChannel(c) ==
  \A i, j \in DOMAIN channel : c \in channel[i].members /\ c \in channel[j].members => i = j

InPending(c) == c \in pending.members

\* At most one batch has call c, and one has if the call had tokens to rerank.
HeldOnce(c) ==
  /\ Sole(pushed, c) /\ Sole(received, c) /\ Sole(dropped, c) /\ SoleInChannel(c)
  /\ InPending(c) => ~Holds(pushed, c) /\ ~Holds(received, c) /\ ~Holds(dropped, c) /\ ~InChannel(c)
  /\ Holds(pushed, c) => ~Holds(received, c) /\ ~Holds(dropped, c) /\ ~InChannel(c)
  /\ InChannel(c) => ~Holds(received, c) /\ ~Holds(dropped, c)
  /\ ~(Holds(received, c) /\ Holds(dropped, c))
  /\ c \in Effective
       <=> InPending(c) \/ Holds(pushed, c) \/ InChannel(c) \/ Holds(received, c) \/ Holds(dropped, c)

OnceInv ==
  /\ PendingShape
  /\ channel \in Seq(Range(channel))
  /\ called \subseteq Calls
  /\ \A c \in Calls : HeldOnce(c)

\* The channel with a batch more, and with one less.
LEMMA ChannelGrows ==
  ASSUME NEW s, s \in Seq(Range(s)), NEW b
  PROVE  /\ Append(s, b) \in Seq(Range(Append(s, b)))
         /\ DOMAIN s = 1 .. Len(s) /\ DOMAIN Append(s, b) = 1 .. Len(s) + 1 /\ Len(s) \in Nat
         /\ \A i \in 1 .. Len(s) : Append(s, b)[i] = s[i]
         /\ Append(s, b)[Len(s) + 1] = b
<1> DEFINE S == Range(s) \cup {b}
<1>1. s \in Seq(S)
  <2>1. \A i \in 1 .. Len(s) : s[i] \in S BY DEF Range
  <2> QED BY <2>1
<1>2. b \in S OBVIOUS
<1> HIDE DEF S
<1>3. /\ Append(s, b) \in Seq(S) /\ Len(Append(s, b)) = Len(s) + 1
      /\ DOMAIN s = 1 .. Len(s) /\ DOMAIN Append(s, b) = 1 .. Len(s) + 1 /\ Len(s) \in Nat
      /\ \A i \in 1 .. Len(s) : Append(s, b)[i] = s[i]
      /\ Append(s, b)[Len(s) + 1] = b
  BY <1>1, <1>2
<1>4. Append(s, b) \in Seq(Range(Append(s, b)))
  <2> DEFINE a == Append(s, b)
  <2>1. a \in Seq(S) BY <1>3
  <2> HIDE DEF a
  <2>2. \A i \in DOMAIN a : a[i] \in Range(a) BY DEF Range
  <2>3. a \in Seq(Range(a)) BY <2>1, <2>2
  <2> QED BY <2>3 DEF a
<1> QED BY <1>3, <1>4

LEMMA ChannelShrinks ==
  ASSUME NEW s, s \in Seq(Range(s)), s # <<>>
  PROVE  /\ Tail(s) \in Seq(Range(Tail(s)))
         /\ DOMAIN s = 1 .. Len(s) /\ DOMAIN Tail(s) = 1 .. Len(s) - 1 /\ Len(s) \in Nat \ {0}
         /\ \A i \in 1 .. Len(s) - 1 : Tail(s)[i] = s[i + 1]
         /\ Head(s) = s[1]
<1> DEFINE S == Range(s)
<1>1. s \in Seq(S) OBVIOUS
<1> HIDE DEF S
<1>2. /\ Tail(s) \in Seq(S)
      /\ DOMAIN s = 1 .. Len(s) /\ DOMAIN Tail(s) = 1 .. Len(s) - 1 /\ Len(s) \in Nat \ {0}
      /\ \A i \in 1 .. Len(s) - 1 : Tail(s)[i] = s[i + 1]
      /\ Head(s) = s[1]
  BY <1>1
<1>3. Tail(s) \in Seq(Range(Tail(s)))
  <2> DEFINE a == Tail(s)
  <2>1. a \in Seq(S) BY <1>2
  <2> HIDE DEF a
  <2>2. \A i \in DOMAIN a : a[i] \in Range(a) BY DEF Range
  <2>3. a \in Seq(Range(a)) BY <2>1, <2>2
  <2> QED BY <2>3 DEF a
<1> QED BY <1>2, <1>3

\* The state's batches are where they were.
LEMMA NothingMoves ==
  ASSUME OnceInv, UNCHANGED <<pending, pushed, channel, received, dropped>>,
         called' \subseteq Calls, Effective' = Effective
  PROVE  OnceInv'
BY DEF OnceInv, PendingShape, HeldOnce, Sole, Holds, SoleInChannel, InChannel, InPending

LEMMA OnceInitially == Init => OnceInv
<1> SUFFICES ASSUME Init PROVE OnceInv OBVIOUS
<1>1. PendingShape BY DEF Init, PendingShape
<1>2. channel \in Seq(Range(channel)) /\ called \subseteq Calls BY DEF Init
<1>3. ASSUME NEW c \in Calls PROVE HeldOnce(c)
  <2>1. ~InPending(c) BY NoneIsEmpty DEF Init, InPending
  <2>2. ~Holds(pushed, c) /\ ~Holds(received, c) /\ ~Holds(dropped, c) /\ ~InChannel(c)
    BY DEF Init, Holds, InChannel
  <2>3. Sole(pushed, c) /\ Sole(received, c) /\ Sole(dropped, c) /\ SoleInChannel(c)
    BY DEF Init, Sole, SoleInChannel
  <2>4. c \notin Effective BY DEF Init, Effective
  <2> QED BY <2>1, <2>2, <2>3, <2>4 DEF HeldOnce
<1> QED BY <1>1, <1>2, <1>3 DEF OnceInv

\* A call is new: it is in no batch, and is in the pending one afterwards.
LEMMA EnqueueKeepsOnce ==
  ASSUME OnceInv, NEW c \in Calls, Enqueue(c)
  PROVE  OnceInv'
<1>1. CASE EnqueueNothing(c)
  <2>1. Effective' = Effective BY <1>1 DEF EnqueueNothing, Effective
  <2> QED BY <1>1, <2>1, NothingMoves DEF EnqueueNothing, OnceInv
<1>2. CASE EnqueueFirst(c) \/ EnqueueMerged(c) \/ EnqueueReplacing(c)
  <2>1. /\ Arrives(c) /\ called' = called \cup {c}
        /\ UNCHANGED <<channel, received, dropped>>
    BY <1>2 DEF EnqueueFirst, EnqueueMerged, EnqueueReplacing, StartTimer
  <2>2. PendingShape'
    <3>1. CASE EnqueueMerged(c) BY <3>1, MergedBatch DEF OnceInv, PendingShape
    <3>2. CASE EnqueueFirst(c) \/ EnqueueReplacing(c)
      BY <3>2 DEF EnqueueFirst, EnqueueReplacing, FreshBatch, PendingShape
    <3> QED BY <1>2, <3>1, <3>2
  <2>3. Effective' = Effective \cup {c}
    BY <2>1 DEF Effective, Arrives
  <2>4. c \notin Effective BY <2>1 DEF Effective, Arrives
  <2>5. \/ pending'.members = pending.members \cup {c} /\ pushed' = pushed
        \/ pending'.members = {c} /\ pushed' = pushed \cup {pending}
    <3>1. CASE EnqueueMerged(c) BY <3>1, MergedBatch DEF OnceInv, EnqueueMerged
    <3>2. CASE EnqueueFirst(c) BY <3>2, NoneIsEmpty DEF EnqueueFirst, FreshBatch
    <3>3. CASE EnqueueReplacing(c) BY <3>3 DEF EnqueueReplacing, FreshBatch
    <3> QED BY <1>2, <3>1, <3>2, <3>3
  <2>6. ASSUME NEW d \in Calls PROVE HeldOnce(d)'
    <3>1. HeldOnce(d) BY DEF OnceInv
    <3>2. UNCHANGED <<InChannel(d), SoleInChannel(d), Holds(received, d), Sole(received, d),
                      Holds(dropped, d), Sole(dropped, d)>>
      BY <2>1 DEF InChannel, SoleInChannel, Holds, Sole
    <3>3. CASE d = c
      <4>1. /\ ~InPending(c) /\ ~Holds(pushed, c) /\ ~InChannel(c)
            /\ ~Holds(received, c) /\ ~Holds(dropped, c)
        BY <2>4, <3>1, <3>3 DEF HeldOnce
      <4>2. InPending(c)' /\ ~Holds(pushed, c)' /\ Sole(pushed, c)'
        BY <2>5, <4>1 DEF InPending, Holds, Sole
      <4> QED BY <2>3, <3>1, <3>2, <3>3, <4>1, <4>2 DEF HeldOnce
    <3>4. CASE d # c
      <4>1. CASE pending'.members = pending.members \cup {c} /\ pushed' = pushed
        <5>1. UNCHANGED <<InPending(d), Holds(pushed, d), Sole(pushed, d)>>
          BY <3>4, <4>1 DEF InPending, Holds, Sole
        <5> QED BY <2>3, <3>1, <3>2, <3>4, <5>1 DEF HeldOnce
      <4>2. CASE pending'.members = {c} /\ pushed' = pushed \cup {pending}
        <5>1. ~InPending(d)' /\ (Holds(pushed, d)' <=> Holds(pushed, d) \/ InPending(d))
          BY <3>4, <4>2 DEF InPending, Holds
        <5>2. Sole(pushed, d)'
          BY <3>1, <4>2 DEF HeldOnce, Sole, Holds, InPending
        <5> QED BY <2>3, <3>1, <3>2, <3>4, <5>1, <5>2 DEF HeldOnce
      <4> QED BY <2>5, <4>1, <4>2
    <3> QED BY <3>3, <3>4
  <2> QED BY <2>1, <2>2, <2>6 DEF OnceInv
<1> QED BY <1>1, <1>2 DEF Enqueue

\* A timer leaves the pending batch or moves it to the pushed ones.
LEMMA TimerKeepsOnce ==
  ASSUME OnceInv, NEW t \in timers, TimerFires(t)
  PROVE  OnceInv'
<1>1. UNCHANGED <<channel, called, received, dropped>> /\ Effective' = Effective
  BY DEF TimerFires, Effective
<1>2. CASE UNCHANGED <<pending, pushed>>
  BY <1>1, <1>2, NothingMoves DEF OnceInv
<1>3. CASE pending' = NoBatch /\ pushed' = pushed \cup {pending}
  <2>1. PendingShape' BY <1>3 DEF PendingShape
  <2>2. ASSUME NEW d \in Calls PROVE HeldOnce(d)'
    <3>1. HeldOnce(d) BY DEF OnceInv
    <3>2. UNCHANGED <<InChannel(d), SoleInChannel(d), Holds(received, d), Sole(received, d),
                      Holds(dropped, d), Sole(dropped, d)>>
      BY <1>1 DEF InChannel, SoleInChannel, Holds, Sole
    <3>3. ~InPending(d)' /\ (Holds(pushed, d)' <=> Holds(pushed, d) \/ InPending(d))
      BY <1>3, NoneIsEmpty DEF InPending, Holds
    <3>4. Sole(pushed, d)'
      BY <1>3, <3>1 DEF HeldOnce, Sole, Holds, InPending
    <3> QED BY <1>1, <3>1, <3>2, <3>3, <3>4 DEF HeldOnce
  <2> QED BY <1>1, <2>1, <2>2 DEF OnceInv
<1> QED BY <1>2, <1>3 DEF TimerFires

\* A pushed batch goes behind the channel's or to the dropped ones.
LEMMA TrySendKeepsOnce ==
  ASSUME OnceInv, NEW b \in pushed, TrySend(b)
  PROVE  OnceInv'
<1>1. /\ UNCHANGED <<pending, called, received>> /\ Effective' = Effective
      /\ pushed' = pushed \ {b} /\ PendingShape'
  BY DEF TrySend, Effective, OnceInv, PendingShape
<1>2. ASSUME NEW d \in Calls
      PROVE  /\ HeldOnce(d)
             /\ UNCHANGED <<InPending(d), Holds(received, d), Sole(received, d)>>
             /\ Sole(pushed, d)'
             /\ d \in b.members => Holds(pushed, d) /\ ~Holds(pushed, d)'
             /\ d \notin b.members => (Holds(pushed, d)' <=> Holds(pushed, d))
  BY <1>1 DEF OnceInv, HeldOnce, InPending, Holds, Sole
<1>3. CASE channel' = Append(channel, b) /\ dropped' = dropped
  <2>1. /\ channel' \in Seq(Range(channel'))
        /\ DOMAIN channel = 1 .. Len(channel) /\ DOMAIN channel' = 1 .. Len(channel) + 1 /\ Len(channel) \in Nat
        /\ \A i \in 1 .. Len(channel) : channel'[i] = channel[i]
        /\ channel'[Len(channel) + 1] = b
    BY <1>3, ChannelGrows DEF OnceInv
  <2>2. ASSUME NEW d \in Calls PROVE HeldOnce(d)'
    <3>1. Holds(dropped, d)' <=> Holds(dropped, d) BY <1>3 DEF Holds
    <3>2. Sole(dropped, d)' <=> Sole(dropped, d) BY <1>3 DEF Sole
    <3>3. InChannel(d)' <=> InChannel(d) \/ d \in b.members
      BY <2>1 DEF InChannel
    <3>4. SoleInChannel(d)'
      BY <1>2, <2>1 DEF HeldOnce, SoleInChannel, InChannel
    <3> QED BY <1>1, <1>2, <3>1, <3>2, <3>3, <3>4 DEF HeldOnce
  <2> QED BY <1>1, <2>1, <2>2 DEF OnceInv
<1>4. CASE dropped' = dropped \cup {b} /\ channel' = channel
  <2>1. ASSUME NEW d \in Calls PROVE HeldOnce(d)'
    <3>1. (InChannel(d)' <=> InChannel(d)) /\ (SoleInChannel(d)' <=> SoleInChannel(d))
      BY <1>4 DEF InChannel, SoleInChannel
    <3>2. Holds(dropped, d)' <=> Holds(dropped, d) \/ d \in b.members BY <1>4 DEF Holds
    <3>3. Sole(dropped, d)' BY <1>2, <1>4 DEF HeldOnce, Sole, Holds
    <3> QED BY <1>1, <1>2, <3>1, <3>2, <3>3 DEF HeldOnce
  <2> QED BY <1>1, <1>4, <2>1 DEF OnceInv
<1> QED BY <1>3, <1>4 DEF TrySend

\* The first batch of the channel goes to the received ones.
LEMMA ReceiveKeepsOnce ==
  ASSUME OnceInv, Receive
  PROVE  OnceInv'
<1>1. /\ UNCHANGED <<pending, pushed, called, dropped>> /\ Effective' = Effective /\ PendingShape'
      /\ received' = received \cup {Head(channel)} /\ channel' = Tail(channel)
  BY DEF Receive, Effective, OnceInv, PendingShape
<1>2. /\ channel' \in Seq(Range(channel'))
      /\ DOMAIN channel = 1 .. Len(channel) /\ DOMAIN channel' = 1 .. Len(channel) - 1
      /\ Len(channel) \in Nat \ {0}
      /\ \A i \in 1 .. Len(channel) - 1 : channel'[i] = channel[i + 1]
      /\ Head(channel) = channel[1]
  BY <1>1, ChannelShrinks DEF OnceInv, Receive
<1>3. ASSUME NEW d \in Calls PROVE HeldOnce(d)'
  <2>1. /\ HeldOnce(d)
        /\ UNCHANGED <<InPending(d), Holds(pushed, d), Sole(pushed, d), Holds(dropped, d), Sole(dropped, d)>>
    BY <1>1 DEF OnceInv, InPending, Holds, Sole
  <2>2. SoleInChannel(d)' BY <1>2, <2>1 DEF HeldOnce, SoleInChannel
  <2>3. InChannel(d) <=> InChannel(d)' \/ d \in Head(channel).members
    <3>1. ASSUME NEW i \in DOMAIN channel, d \in channel[i].members
          PROVE  InChannel(d)' \/ d \in Head(channel).members
      <4>1. CASE i = 1 BY <1>2, <3>1, <4>1
      <4>2. CASE i # 1
        <5>1. i - 1 \in DOMAIN channel' /\ channel'[i - 1] = channel[i] BY <1>2, <4>2
        <5> QED BY <3>1, <5>1 DEF InChannel
      <4> QED BY <4>1, <4>2
    <3>2. InChannel(d)' => InChannel(d)
      <4>1. ASSUME NEW i \in DOMAIN channel', d \in channel'[i].members PROVE InChannel(d)
        <5>1. i + 1 \in DOMAIN channel /\ channel'[i] = channel[i + 1] BY <1>2
        <5> QED BY <4>1, <5>1 DEF InChannel
      <4> QED BY <4>1 DEF InChannel
    <3>3. d \in Head(channel).members => InChannel(d) BY <1>2 DEF InChannel
    <3> QED BY <3>1, <3>2, <3>3 DEF InChannel
  <2>4. d \in Head(channel).members => ~InChannel(d)'
    <3> SUFFICES ASSUME d \in channel[1].members, NEW i \in DOMAIN channel', d \in channel'[i].members
                 PROVE  FALSE
      BY <1>2 DEF InChannel
    <3>1. /\ i + 1 \in DOMAIN channel /\ channel'[i] = channel[i + 1] /\ 1 \in DOMAIN channel
          /\ i + 1 # 1
      BY <1>2
    <3> QED BY <2>1, <3>1 DEF HeldOnce, SoleInChannel
  <2>5. Holds(received, d)' <=> Holds(received, d) \/ d \in Head(channel).members
    BY <1>1 DEF Holds
  <2>6. Sole(received, d)'
    BY <1>1, <2>1, <2>3 DEF HeldOnce, Sole, Holds
  <2> QED BY <1>1, <2>1, <2>2, <2>3, <2>4, <2>5, <2>6 DEF HeldOnce
<1> QED BY <1>1, <1>2, <1>3 DEF OnceInv

\* All batches of the channel go to the dropped ones.
LEMMA CloseKeepsOnce ==
  ASSUME OnceInv, CloseReceiver
  PROVE  OnceInv'
<1>1. /\ UNCHANGED <<pending, pushed, called, received>> /\ Effective' = Effective /\ PendingShape'
      /\ dropped' = dropped \cup Range(channel) /\ channel' = <<>>
  BY DEF CloseReceiver, Effective, OnceInv, PendingShape
<1>2. channel' \in Seq(Range(channel')) BY <1>1
<1>3. ASSUME NEW d \in Calls PROVE HeldOnce(d)'
  <2>1. /\ HeldOnce(d)
        /\ UNCHANGED <<InPending(d), Holds(pushed, d), Sole(pushed, d), Holds(received, d), Sole(received, d)>>
    BY <1>1 DEF OnceInv, InPending, Holds, Sole
  <2>2. ~InChannel(d)' /\ SoleInChannel(d)' BY <1>1 DEF InChannel, SoleInChannel
  <2>3. Holds(dropped, d)' <=> Holds(dropped, d) \/ InChannel(d)
    BY <1>1 DEF Holds, InChannel, Range
  <2>4. Sole(dropped, d)'
    BY <1>1, <2>1 DEF HeldOnce, Sole, SoleInChannel, Holds, InChannel, Range
  <2> QED BY <1>1, <2>1, <2>2, <2>3, <2>4 DEF HeldOnce
<1> QED BY <1>1, <1>2, <1>3 DEF OnceInv

\* How many batches of a set have a call that at most one of them has.
LEMMA HoldersCounted ==
  ASSUME NEW X, NEW c, Sole(X, c)
  PROVE  Cardinality({b \in X : c \in b.members}) = IF Holds(X, c) THEN 1 ELSE 0
<1> DEFINE H == {b \in X : c \in b.members}
<1>1. CASE Holds(X, c)
  <2>1. PICK b \in X : c \in b.members BY <1>1 DEF Holds
  <2>2. H = {b} BY <2>1 DEF Sole
  <2> QED BY <1>1, <2>2, FS_Singleton
<1>2. CASE ~Holds(X, c)
  <2>1. H = {} BY <1>2 DEF Holds
  <2> QED BY <1>2, <2>1, FS_EmptySet
<1> QED BY <1>1, <1>2

LEMMA SlotsCounted ==
  ASSUME NEW c, SoleInChannel(c)
  PROVE  Cardinality({i \in DOMAIN channel : c \in channel[i].members}) = IF InChannel(c) THEN 1 ELSE 0
<1> DEFINE H == {i \in DOMAIN channel : c \in channel[i].members}
<1>1. CASE InChannel(c)
  <2>1. PICK i \in DOMAIN channel : c \in channel[i].members BY <1>1 DEF InChannel
  <2>2. H = {i} BY <2>1 DEF SoleInChannel
  <2> QED BY <1>1, <2>2, FS_Singleton
<1>2. CASE ~InChannel(c)
  <2>1. H = {} BY <1>2 DEF InChannel
  <2> QED BY <1>2, <2>1, FS_EmptySet
<1> QED BY <1>1, <1>2

\* A call held once is counted once.
LEMMA HeldOnceIsCounted == OnceInv => EveryCallOnce
<1> SUFFICES ASSUME OnceInv, NEW c \in Effective
             PROVE  Cardinality({b \in Pending : c \in b.members})
                      + Cardinality({b \in pushed : c \in b.members})
                      + Cardinality({b \in received : c \in b.members})
                      + Cardinality({b \in dropped : c \in b.members})
                      + Cardinality({i \in DOMAIN channel : c \in channel[i].members}) = 1
  BY DEF EveryCallOnce
<1>1. HeldOnce(c) BY DEF OnceInv, Effective
<1>2. Sole(Pending, c) BY DEF Sole, Pending
<1>3. Holds(Pending, c) <=> InPending(c) BY NoneIsEmpty DEF Holds, Pending, InPending
<1> DEFINE One(p) == IF p THEN 1 ELSE 0
<1>4. /\ Cardinality({b \in Pending : c \in b.members}) = One(InPending(c))
      /\ Cardinality({b \in pushed : c \in b.members}) = One(Holds(pushed, c))
      /\ Cardinality({b \in received : c \in b.members}) = One(Holds(received, c))
      /\ Cardinality({b \in dropped : c \in b.members}) = One(Holds(dropped, c))
      /\ Cardinality({i \in DOMAIN channel : c \in channel[i].members}) = One(InChannel(c))
  <2>1. Cardinality({b \in Pending : c \in b.members}) = One(InPending(c))
    BY <1>2, <1>3, HoldersCounted
  <2>2. Cardinality({b \in pushed : c \in b.members}) = One(Holds(pushed, c))
    BY <1>1, HoldersCounted DEF HeldOnce
  <2>3. Cardinality({b \in received : c \in b.members}) = One(Holds(received, c))
    BY <1>1, HoldersCounted DEF HeldOnce
  <2>4. Cardinality({b \in dropped : c \in b.members}) = One(Holds(dropped, c))
    BY <1>1, HoldersCounted DEF HeldOnce
  <2>5. Cardinality({i \in DOMAIN channel : c \in channel[i].members}) = One(InChannel(c))
    BY <1>1, SlotsCounted DEF HeldOnce
  <2> QED BY <2>1, <2>2, <2>3, <2>4, <2>5
<1>5. One(InPending(c)) + One(Holds(pushed, c)) + One(Holds(received, c))
        + One(Holds(dropped, c)) + One(InChannel(c)) = 1
  BY <1>1 DEF HeldOnce
<1> HIDE DEF One
<1> QED BY <1>4, <1>5

LEMMA OnceInvHolds == Spec => []OnceInv
<1>1. OnceInv /\ [Next]_vars => OnceInv'
  <2> SUFFICES ASSUME OnceInv, [Next]_vars PROVE OnceInv' OBVIOUS
  <2>1. CASE UNCHANGED vars
    BY <2>1, NothingMoves DEF vars, OnceInv, Effective
  <2> QED BY <2>1, EnqueueKeepsOnce, TimerKeepsOnce, TrySendKeepsOnce, ReceiveKeepsOnce, CloseKeepsOnce DEF Next
<1> QED BY <1>1, OnceInitially, PTL DEF Spec

\* Merged, replaced, flushed, sent, received or dropped: the tokens of a call
\* are in exactly one place, and in one batch there.
THEOREM CallsAreHeldOnce == Spec => []EveryCallOnce
BY OnceInvHolds, HeldOnceIsCounted, PTL
-----------------------------------------------------------------------------
(***************************************************************************)
(* What a batch holds.                                                     *)
(***************************************************************************)

\* The spans a token can have.
Spans == [start : Nat, end : Nat]

\* An event's targets are at most a window, and a window of none has none.
LEMMA TargetsFitWindow ==
  ASSUME NEW c \in Calls
  PROVE  LET T == Targets(Event[c].recent)
         IN  /\ T \subseteq Spans /\ IsFiniteSet(T) /\ Cardinality(T) <= WindowSize
             /\ T # {} => WindowSize \in Nat \ {0}
<1> DEFINE r == Event[c].recent
           I == {j \in DOMAIN r : j > Len(r) - WindowSize /\ r[j].low}
           J == Len(r) - WindowSize + 1 .. Len(r)
           T == Targets(r)
           f == [i \in I |-> [start |-> r[i].start, end |-> r[i].end]]
<1>1. r \in Seq([start : Nat, end : Nat, low : BOOLEAN]) /\ WindowSize \in Nat
  BY EventAssumption, WindowSizeAssumption
<1> HIDE DEF r
<1>2. Len(r) \in Nat /\ DOMAIN r = 1 .. Len(r) BY <1>1
<1>3. I \subseteq J BY <1>1, <1>2
<1>4. IsFiniteSet(J) /\ Cardinality(J) = WindowSize
  <2> DEFINE a == Len(r) - WindowSize + 1
             b == Len(r)
  <2>1. a \in Int /\ b \in Int /\ b - a + 1 = WindowSize /\ (a > b => WindowSize = 0)
    BY <1>1, <1>2
  <2> HIDE DEF a, b
  <2>2. IsFiniteSet(a .. b) /\ Cardinality(a .. b) = WindowSize BY <2>1, FS_Interval
  <2> QED BY <2>2 DEF a, b
<1>5. IsFiniteSet(I) /\ Cardinality(I) <= WindowSize BY <1>3, <1>4, FS_Subset
<1>6. T = {f[i] : i \in I} BY DEF Targets
<1>7. f \in Surjection(I, T) BY <1>6 DEF Surjection
<1>8. IsFiniteSet(T) /\ Cardinality(T) <= Cardinality(I) BY <1>5, <1>7, FS_Surjection
<1>9. T \subseteq Spans
  <2> SUFFICES ASSUME NEW i \in I PROVE f[i] \in Spans BY <1>6
  <2>1. i \in 1 .. Len(r) BY <1>2
  <2>2. r[i] \in [start : Nat, end : Nat, low : BOOLEAN]
    <3> DEFINE X == [start : Nat, end : Nat, low : BOOLEAN]
    <3>1. r \in Seq(X) BY <1>1
    <3> HIDE DEF X, I
    <3>2. r[i] \in X BY <2>1, <3>1
    <3> QED BY <3>2 DEF X
  <2> QED BY <2>2 DEF Spans
<1>10. Cardinality(T) \in Nat /\ Cardinality(I) \in Nat BY <1>5, <1>8, FS_CardinalityType
<1>11. ASSUME T # {}, WindowSize = 0 PROVE FALSE
  <2>1. Cardinality(T) = 0 BY <1>1, <1>5, <1>8, <1>10, <1>11
  <2> QED BY <1>8, <1>11, <2>1, FS_EmptySet
<1> QED BY <1>1, <1>5, <1>8, <1>9, <1>10, <1>11 DEF r

\* Spans are ordered by their start, then by their end.
LEMMA SpansAreOrdered ==
  ASSUME NEW S \in SUBSET Spans
  PROVE  Orders({p \in Spans \X Spans : Before(p[1], p[2])}, S)
BY DEF Orders, Before, Spans

\* A saturating difference.
LEMMA LongerThanNone == \A x \in Int : Max({0, x}) \in Nat
BY DEF Max

\* The tightest window is a window of the tokens.
LEMMA TightestWindowIsWindow ==
  ASSUME NEW S \in SUBSET Spans, IsFiniteSet(S),
         WindowSize \in Nat \ {0}, Cardinality(S) > WindowSize
  PROVE  /\ TightestWindow(S) \subseteq S /\ TightestWindow(S) # {}
         /\ Cardinality(TightestWindow(S)) <= WindowSize
<1> DEFINE n == Cardinality(S)
           R == {p \in Spans \X Spans : Before(p[1], p[2])}
           sorted == InOrder(S, Before)
           starts == 1 .. n - WindowSize + 1
           span(i) == Max({0, sorted[i + WindowSize - 1].end - sorted[i].start})
           tight == {i \in starts : \A j \in starts : span(i) <= span(j)}
           best == Min(tight)
           W == best .. best + WindowSize - 1
<1>1. n \in Nat BY FS_CardinalityType
<1>2. sorted \in [1 .. n -> S]
  <2>1. ASSUME NEW k \in 1 .. n PROVE sorted[k] \in S
    <3>1. k - 1 \in 0 .. n - 1 BY <1>1
    <3>2. PICK e \in S : Cardinality(Below(R, S, e)) = k - 1
      <4>1. Orders(R, S) BY SpansAreOrdered
      <4> HIDE DEF R
      <4> QED BY <3>1, <4>1, PlacesAreTaken
    <3>3. Below(R, S, e) = {d \in S : Before(d, e)} BY DEF Below
    <3> QED BY <3>2, <3>3 DEF InOrder
  <2>2. sorted = [k \in 1 .. n |-> sorted[k]] BY DEF InOrder
  <2> HIDE DEF sorted
  <2> QED BY <2>1, <2>2
<1> HIDE DEF sorted
<1>3. ASSUME NEW i \in starts PROVE span(i) \in Nat
  <2>1. i \in 1 .. n /\ i + WindowSize - 1 \in 1 .. n BY <1>1
  <2>2. sorted[i + WindowSize - 1].end - sorted[i].start \in Int BY <1>2, <2>1 DEF Spans
  <2> QED BY <2>2, LongerThanNone
<1>4. best \in starts
  <2> DEFINE lengths == {span(i) : i \in starts}
  <2> HIDE DEF span
  <2>1. lengths \in SUBSET Nat /\ lengths # {}
    <3>1. 1 \in starts BY <1>1
    <3> QED BY <1>3, <3>1
  <2>2. PICK m \in lengths : \A k \in lengths : m <= k BY <2>1, LeastOf
  <2>3. PICK i \in starts : span(i) = m BY <2>2
  <2>4. i \in tight BY <2>2, <2>3
  <2>5. tight \in SUBSET Nat BY <1>1
  <2>6. PICK b \in tight : \A k \in tight : b <= k BY <2>4, <2>5, LeastOf
  <2>7. best \in tight
    <3> HIDE DEF tight
    <3> QED BY <2>6 DEF Min
  <2> QED BY <2>7
<1>5. TightestWindow(S) = {sorted[i] : i \in W} BY DEF TightestWindow, sorted
<1> HIDE DEF best
<1>6. W \subseteq 1 .. n /\ best \in W BY <1>1, <1>4
<1>7. IsFiniteSet(W) /\ Cardinality(W) = WindowSize
  <2>1. best \in Int /\ best + WindowSize - 1 \in Int BY <1>1, <1>4
  <2> DEFINE b == best + WindowSize - 1
  <2>2. b \in Int /\ b - best + 1 = WindowSize /\ ~(best > b) BY <1>1, <1>4
  <2> HIDE DEF b
  <2>3. IsFiniteSet(best .. b) /\ Cardinality(best .. b) = WindowSize BY <2>1, <2>2, FS_Interval
  <2> QED BY <2>3 DEF b
<1> DEFINE f == [i \in W |-> sorted[i]]
<1>8. f \in Surjection(W, TightestWindow(S)) BY <1>5 DEF Surjection
<1>9. Cardinality(TightestWindow(S)) <= Cardinality(W) BY <1>7, <1>8, FS_Surjection
<1> QED BY <1>2, <1>5, <1>6, <1>7, <1>9

\* What the calls of a batch brought, and what is left of it.
Brought(b) == UNION {Targets(Event[c].recent) : c \in b.members}

IsWindow(b) ==
  /\ b.members \subseteq Calls
  /\ Brought(b) \subseteq Spans /\ IsFiniteSet(Brought(b))
  /\ b.request.tokens \subseteq Brought(b)
  /\ b.request.tokens # {} /\ Cardinality(b.request.tokens) <= WindowSize
  /\ Cardinality(Brought(b)) <= WindowSize => b.request.tokens = Brought(b)

\* The batch of one call.
LEMMA FreshIsWindow ==
  ASSUME NEW c \in Calls, Arrives(c)
  PROVE  IsWindow(FreshBatch(c))
<1>1. Brought(FreshBatch(c)) = Targets(Event[c].recent)
  BY DEF Brought, FreshBatch
<1>2. FreshBatch(c).request.tokens = Targets(Event[c].recent)
  BY DEF FreshBatch, Request
<1>3. FreshBatch(c).members \subseteq Calls BY DEF FreshBatch
<1> QED BY <1>1, <1>2, <1>3, TargetsFitWindow DEF Arrives, IsWindow

\* The batch of one call more.
LEMMA MergedIsWindow ==
  ASSUME NEW c \in Calls, Arrives(c), NEW b, IsWindow(b), NEW m, m.members = b.members \cup {c},
         m.request = Merge(b.request, Request(c))
  PROVE  IsWindow(m)
<1> DEFINE T == Targets(Event[c].recent)
           all == b.request.tokens \cup T
<1>1. T # {} /\ T \subseteq Spans /\ IsFiniteSet(T) /\ WindowSize \in Nat \ {0}
  BY TargetsFitWindow DEF Arrives
<1>2. Brought(m) = Brought(b) \cup T BY DEF Brought
<1>3. m.request.tokens = IF Cardinality(all) > WindowSize THEN TightestWindow(all) ELSE all
  BY DEF Merge, Request
<1> HIDE DEF T
<1>4. /\ Brought(m) \subseteq Spans /\ IsFiniteSet(Brought(m))
      /\ all \subseteq Brought(m) /\ all # {} /\ IsFiniteSet(all)
      /\ Brought(b) \subseteq Brought(m)
  <2>1. IsFiniteSet(Brought(m))
    <3>1. IsFiniteSet(Brought(b)) BY DEF IsWindow
    <3>2. IsFiniteSet(Brought(b) \cup T) BY <1>1, <3>1, FS_Union
    <3> QED BY <1>2, <3>2
  <2>2. all \subseteq Brought(m) BY <1>2 DEF IsWindow
  <2> QED BY <1>1, <1>2, <2>1, <2>2, FS_Subset DEF IsWindow
<1>5. /\ Cardinality(all) <= Cardinality(Brought(m))
      /\ Cardinality(Brought(b)) <= Cardinality(Brought(m))
      /\ Cardinality(all) \in Nat /\ Cardinality(Brought(m)) \in Nat /\ Cardinality(Brought(b)) \in Nat
  BY <1>4, FS_Subset, FS_CardinalityType DEF IsWindow
<1>6. CASE Cardinality(all) > WindowSize
  <2>1. /\ TightestWindow(all) \subseteq all /\ TightestWindow(all) # {}
        /\ Cardinality(TightestWindow(all)) <= WindowSize
    BY <1>1, <1>4, <1>6, TightestWindowIsWindow
  <2>2. ~(Cardinality(Brought(m)) <= WindowSize) BY <1>1, <1>5, <1>6
  <2> HIDE DEF all
  <2> QED BY <1>3, <1>4, <1>6, <2>1, <2>2 DEF IsWindow
<1>7. CASE ~(Cardinality(all) > WindowSize)
  <2>1. m.request.tokens = all /\ Cardinality(all) <= WindowSize BY <1>1, <1>3, <1>5, <1>7
  <2>2. ASSUME Cardinality(Brought(m)) <= WindowSize PROVE all = Brought(m)
    <3>1. Cardinality(Brought(b)) <= WindowSize BY <1>1, <1>5, <2>2
    <3> QED BY <1>2, <3>1 DEF IsWindow
  <2> HIDE DEF all
  <2> QED BY <1>4, <2>1, <2>2 DEF IsWindow
<1> QED BY <1>6, <1>7

\* The batches there are, wherever they are.
Batches == Pending \cup pushed \cup Range(channel) \cup received \cup dropped

WindowInv ==
  /\ PendingShape
  /\ channel \in Seq(Range(channel))
  /\ \A b \in Batches : IsWindow(b)

\* What a call does to the pending batch leaves it a window.
LEMMA EnqueueKeepsWindows ==
  ASSUME WindowInv, NEW c \in Calls, Enqueue(c)
  PROVE  WindowInv'
<1>1. CASE EnqueueNothing(c)
  BY <1>1 DEF EnqueueNothing, WindowInv, PendingShape, Batches, Pending, IsWindow, Brought
<1>2. CASE EnqueueFirst(c) \/ EnqueueMerged(c) \/ EnqueueReplacing(c)
  <2>1. /\ Arrives(c) /\ UNCHANGED <<channel, received, dropped>>
        /\ pushed' \subseteq pushed \cup Pending
    BY <1>2 DEF EnqueueFirst, EnqueueMerged, EnqueueReplacing, StartTimer, Pending
  <2>2. PendingShape' /\ IsWindow(pending')
    <3>1. CASE EnqueueMerged(c)
      <4>1. /\ PendingShape' /\ pending'.members = pending.members \cup {c}
            /\ pending'.request = Merge(pending.request, Request(c))
        BY <3>1, MergedBatch DEF WindowInv, PendingShape
      <4>2. IsWindow(pending) BY <3>1 DEF EnqueueMerged, WindowInv, Batches, Pending
      <4> QED BY <2>1, <4>1, <4>2, MergedIsWindow
    <3>2. CASE EnqueueFirst(c) \/ EnqueueReplacing(c)
      <4>1. pending' = FreshBatch(c) BY <3>2 DEF EnqueueFirst, EnqueueReplacing
      <4>2. PendingShape' BY <4>1 DEF FreshBatch, PendingShape
      <4> QED BY <2>1, <4>1, <4>2, FreshIsWindow
    <3> QED BY <1>2, <3>1, <3>2
  <2>3. Batches' \subseteq Batches \cup {pending'} BY <2>1 DEF Batches, Pending
  <2> QED BY <2>1, <2>2, <2>3 DEF WindowInv, IsWindow, Brought
<1> QED BY <1>1, <1>2 DEF Enqueue

\* Whatever else happens only moves batches about.
LEMMA MovesKeepWindows ==
  ASSUME WindowInv, [Next]_vars, \A c \in Calls : ~Enqueue(c)
  PROVE  WindowInv'
<1> SUFFICES PendingShape' /\ channel' \in Seq(Range(channel')) /\ Batches' \subseteq Batches
  BY DEF WindowInv, IsWindow, Brought
<1>1. ASSUME NEW t \in timers, TimerFires(t)
      PROVE  PendingShape' /\ channel' \in Seq(Range(channel')) /\ Batches' \subseteq Batches
  BY <1>1 DEF TimerFires, WindowInv, PendingShape, Batches, Pending
<1>2. ASSUME NEW b \in pushed, TrySend(b)
      PROVE  PendingShape' /\ channel' \in Seq(Range(channel')) /\ Batches' \subseteq Batches
  <2>1. channel' \in Seq(Range(channel')) /\ Range(channel') \subseteq Range(channel) \cup {b}
    <3>1. CASE channel' = channel BY <3>1 DEF WindowInv
    <3>2. CASE channel' = Append(channel, b) BY <3>2, ChannelGrows DEF WindowInv, Range
    <3> QED BY <1>2, <3>1, <3>2 DEF TrySend
  <2>2. /\ UNCHANGED <<pending, received>> /\ pushed' \subseteq pushed
        /\ dropped' \subseteq dropped \cup {b}
    BY <1>2 DEF TrySend
  <2> QED BY <2>1, <2>2 DEF WindowInv, PendingShape, Batches, Pending
<1>3. ASSUME Receive
      PROVE  PendingShape' /\ channel' \in Seq(Range(channel')) /\ Batches' \subseteq Batches
  <2>1. /\ channel' \in Seq(Range(channel')) /\ Range(channel') \subseteq Range(channel)
        /\ Head(channel) \in Range(channel)
    BY <1>3, ChannelShrinks DEF Receive, WindowInv, Range
  <2> QED BY <1>3, <2>1 DEF Receive, WindowInv, PendingShape, Batches, Pending
<1>4. ASSUME CloseReceiver
      PROVE  PendingShape' /\ channel' \in Seq(Range(channel')) /\ Batches' \subseteq Batches
  BY <1>4 DEF CloseReceiver, WindowInv, PendingShape, Batches, Pending, Range
<1>5. CASE UNCHANGED vars
  BY <1>5 DEF vars, WindowInv, PendingShape, Batches, Pending
<1> QED BY <1>1, <1>2, <1>3, <1>4, <1>5 DEF Next

LEMMA WindowInvHolds == Spec => []WindowInv
<1>1. Init => WindowInv
  BY DEF Init, WindowInv, PendingShape, Batches, Pending, Range
<1>2. WindowInv /\ [Next]_vars => WindowInv'
  BY EnqueueKeepsWindows, MovesKeepWindows
<1> QED BY <1>1, <1>2, PTL DEF Spec

\* However calls are merged, cut down and flushed, a batch holds tokens of its
\* own calls, no more than the window, and all of them if the window does.
THEOREM BatchesStayWindows == Spec => []BatchesAreWindows
<1>1. WindowInv => BatchesAreWindows
  BY DEF WindowInv, Batches, IsWindow, Brought, BatchesAreWindows
<1> QED BY <1>1, WindowInvHolds, PTL

-----------------------------------------------------------------------------
(***************************************************************************)
(* The queue implements RerankService.  Calls arrive; the worker takes a   *)
(* batch and serves its calls; a full or closed channel loses some.        *)
(* Everything else moves batches where the service does not look.          *)
(***************************************************************************)

QueueInv == OnceInv /\ WindowInv

LEMMA ServiceCardinality == \A S : Service!Cardinality(S) = Cardinality(S)
BY DEF Cardinality, Service!Cardinality

\* A batch that was neither received nor dropped has calls, and these wait.
LEMMA HeldCallsWait ==
  ASSUME QueueInv, NEW b \in pushed \cup Range(channel)
  PROVE  b.members # {} /\ b.members \in SUBSET Service!Waiting
<1>1. IsWindow(b) BY DEF QueueInv, WindowInv, Batches
<1>2. b.members # {} BY <1>1 DEF IsWindow, Brought
<1>3. ASSUME NEW c \in b.members PROVE c \in Service!Waiting
  <2>1. c \in Calls /\ HeldOnce(c) BY <1>1 DEF IsWindow, QueueInv, OnceInv
  <2>2. Holds(pushed, c) \/ InChannel(c) BY DEF Holds, InChannel, Range
  <2>3. c \in Effective /\ ~Holds(received, c) /\ ~Holds(dropped, c) BY <2>1, <2>2 DEF HeldOnce
  <2> QED BY <2>1, <2>3 DEF Service!Waiting, Status, Effective
<1> QED BY <1>2, <1>3

LEMMA ArrivalIsArrival ==
  ASSUME QueueInv, NEW c \in Calls, Enqueue(c)
  PROVE  Service!Arrive(c)
<1>1. c \notin called /\ called' = called \cup {c} /\ UNCHANGED <<received, dropped>>
  BY DEF Enqueue, EnqueueNothing, EnqueueFirst, EnqueueMerged, EnqueueReplacing, Arrives, StartTimer
<1>2. ~Holds(received, c) /\ ~Holds(dropped, c)
  BY <1>1 DEF QueueInv, OnceInv, HeldOnce, Effective
<1>3. Status[c] = "new" BY <1>1 DEF Status
<1>4. Status' = [d \in Calls |->
        IF d \in {c} THEN IF Targets(Event[c].recent) = {} THEN "nothing" ELSE "waiting" ELSE Status[d]]
  BY <1>1, <1>2 DEF Status, Holds
<1>5. UNCHANGED Handed BY <1>1 DEF Handed
<1> QED BY <1>3, <1>4, <1>5 DEF Service!Arrive, Service!Becomes

LEMMA ReceivingServes ==
  ASSUME QueueInv, Receive
  PROVE  \E group \in SUBSET Service!Waiting : group # {} /\ Service!Serve(group)
<1> DEFINE b == Head(channel)
<1>1. /\ b \in Range(channel) /\ received' = received \cup {b} /\ UNCHANGED <<called, dropped>>
  BY ChannelShrinks DEF Receive, QueueInv, OnceInv, Range
<1> HIDE DEF b
<1>2. b.members # {} /\ b.members \in SUBSET Service!Waiting BY <1>1, HeldCallsWait
<1>3. IsWindow(b) BY <1>1 DEF QueueInv, WindowInv, Batches
<1>4. Service!Becomes(b.members, "served")
  <2>1. ASSUME NEW c \in Calls
        PROVE  Status'[c] = IF c \in b.members THEN "served" ELSE Status[c]
    <3>1. Holds(received, c)' <=> Holds(received, c) \/ c \in b.members BY <1>1 DEF Holds
    <3>2. c \in b.members => Status[c] = "waiting" BY <1>2 DEF Service!Waiting
    <3> QED BY <1>1, <3>1, <3>2 DEF Status, Holds
  <2>2. Status' = [c \in Calls |-> Status'[c]] BY DEF Status
  <2> QED BY <2>1, <2>2 DEF Service!Becomes
<1>5. Handed' = Handed \cup {[calls |-> b.members, tokens |-> b.request.tokens]}
  BY <1>1 DEF Handed
<1>6. b.request.tokens \in Service!Windows(Brought(b))
  <2> DEFINE kept == b.request.tokens
             all == Brought(b)
  <2>1. kept \in SUBSET all /\ kept # {} /\ Cardinality(kept) <= WindowSize
        /\ (Cardinality(all) <= WindowSize => kept = all)
    BY <1>3 DEF IsWindow
  <2> HIDE DEF kept, all
  <2>2. kept \in Service!Windows(all) BY <2>1, ServiceCardinality DEF Service!Windows
  <2> QED BY <2>2 DEF kept, all
<1>7. Brought(b) = UNION {[d \in Calls |-> Targets(Event[d].recent)][c] : c \in b.members}
  BY <1>3 DEF IsWindow, Brought
<1> QED BY <1>2, <1>4, <1>5, <1>6, <1>7 DEF Service!Serve

\* Batches are dropped: their calls are lost, if there are any.
LEMMA DroppingLoses ==
  ASSUME QueueInv, NEW lost \in SUBSET (pushed \cup Range(channel)), dropped' = dropped \cup lost,
         UNCHANGED <<called, received>>
  PROVE  \/ \E group \in SUBSET Service!Waiting : group # {} /\ Service!Lose(group)
         \/ UNCHANGED <<Status, Handed>>
<1> DEFINE group == UNION {b.members : b \in lost}
<1>1. group \in SUBSET Service!Waiting BY HeldCallsWait
<1>2. UNCHANGED Handed BY DEF Handed
<1>3. ASSUME NEW c \in Calls
      PROVE  Status'[c] = IF c \in group THEN "lost" ELSE Status[c]
  <2>1. Holds(dropped, c)' <=> Holds(dropped, c) \/ c \in group BY DEF Holds
  <2>2. c \in group => Status[c] = "waiting" BY <1>1 DEF Service!Waiting
  <2> HIDE DEF group
  <2> QED BY <2>1, <2>2 DEF Status, Holds
<1>4. /\ Status = [c \in Calls |-> Status[c]]
      /\ Status' = [c \in Calls |-> Status'[c]]
  BY DEF Status
<1> HIDE DEF group
<1>5. CASE group = {} BY <1>2, <1>3, <1>4, <1>5
<1>6. CASE group # {} BY <1>1, <1>2, <1>3, <1>4, <1>6 DEF Service!Lose, Service!Becomes
<1> QED BY <1>5, <1>6

\* Where calls stand changes with three variables only.
LEMMA NothingToSee ==
  ASSUME UNCHANGED <<called, received, dropped>>
  PROVE  UNCHANGED <<Status, Handed>>
BY DEF Status, Handed, Holds

LEMMA QueueStepIsServiceStep ==
  ASSUME QueueInv, [Next]_vars
  PROVE  [Service!Next]_(Service!vars)
<1>1. ASSUME NEW c \in Calls, Enqueue(c) PROVE Service!Next
  BY <1>1, ArrivalIsArrival DEF Service!Next
<1>2. ASSUME NEW t \in timers, TimerFires(t) PROVE UNCHANGED Service!vars
  BY <1>2, NothingToSee DEF TimerFires, Service!vars
<1>3. ASSUME NEW b \in pushed, TrySend(b) PROVE [Service!Next]_(Service!vars)
  <2>1. CASE UNCHANGED dropped
    BY <1>3, <2>1, NothingToSee DEF TrySend, Service!vars
  <2>2. CASE dropped' = dropped \cup {b}
    BY <1>3, <2>2, DroppingLoses DEF TrySend, Service!Next, Service!vars
  <2> QED BY <1>3, <2>1, <2>2 DEF TrySend
<1>4. CASE Receive BY <1>4, ReceivingServes DEF Service!Next
<1>5. CASE CloseReceiver
  BY <1>5, DroppingLoses DEF CloseReceiver, Service!Next, Service!vars
<1>6. CASE UNCHANGED vars
  BY <1>6, NothingToSee DEF vars, Service!vars
<1> QED BY <1>1, <1>2, <1>3, <1>4, <1>5, <1>6 DEF Next

\* Whatever calls are merged, replaced and timed out, whatever tasks overtake each
\* other and whatever the channel refuses, a call waits, is served or lost once and
\* for all, and a request is a window of the tokens of those it serves.
THEOREM QueueImplementsService == Spec => ImplementsService
<1>1. Init => Service!Init
  BY DEF Init, Status, Handed, Service!Init
<1>2. QueueInv /\ [Next]_vars => [Service!Next]_(Service!vars)
  BY QueueStepIsServiceStep
<1>3. Spec => []QueueInv
  BY OnceInvHolds, WindowInvHolds, PTL DEF QueueInv
<1> QED BY <1>1, <1>2, <1>3, PTL DEF Spec, ImplementsService, Service!Spec
=============================================================================
