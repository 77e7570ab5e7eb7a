----------------------------- MODULE RerankBatch -----------------------------
(***************************************************************************)
(* The pure part of crates/llmime-core/src/rerank/rerank_queue.rs: which   *)
(* tokens of a boundary event are worth reranking, when two requests may   *)
(* be coalesced, and what their merge keeps.                               *)
(*                                                                         *)
(* A token is its span, [start, end]; `==` on tokens ignores confidence,   *)
(* and tokens with one span but different surfaces are not told apart.     *)
(* A request is [tokens: a set of tokens, context: a sequence of           *)
(* characters].                                                            *)
(***************************************************************************)
EXTENDS Sequences, SequencesExt, FiniteSetsExt, Sorting

CONSTANTS
  WindowSize,  \* RerankConfig.window_size
  CharGap      \* RerankConfig.coalesce_char_gap

ASSUME WindowSizeAssumption == WindowSize \in Nat
ASSUME CharGapAssumption == CharGap \in Nat

\* The low-confidence tokens among the last WindowSize of an event; an event's
\* tokens come in text order, each [start, end, low].
Targets(recent) ==
  LET skipped == Len(recent) - WindowSize
  IN  {[start |-> recent[i].start, end |-> recent[i].end] :
         i \in {j \in DOMAIN recent : j > skipped /\ recent[j].low}}

SameNeighborhood(left, right) ==
  \/ left = right
  \/ /\ Len(left) <= Len(right) + CharGap /\ Len(right) <= Len(left) + CharGap
     /\ IsPrefix(left, right) \/ IsPrefix(right, left)

SpanStart(tokens) == Min({t.start : t \in tokens})
SpanEnd(tokens)   == Max({t.end : t \in tokens})

\* A request always has a token: enqueue returns early without one.
CanCoalesce(existing, incoming) ==
  /\ SameNeighborhood(existing.context, incoming.context)
  /\ SpanStart(existing.tokens) <= SpanEnd(incoming.tokens) + CharGap
  /\ SpanStart(incoming.tokens) <= SpanEnd(existing.tokens) + CharGap

Before(t, u) == t.start < u.start \/ (t.start = u.start /\ t.end < u.end)

\* The first of the tightest windows of WindowSize tokens, in text order.
TightestWindow(tokens) ==
  LET sorted  == InOrder(tokens, Before)
      starts  == 1 .. Cardinality(tokens) - WindowSize + 1
      span(i) == Max({0, sorted[i + WindowSize - 1].end - sorted[i].start})
      best    == Min({i \in starts : \A j \in starts : span(i) <= span(j)})
  IN  {sorted[i] : i \in best .. best + WindowSize - 1}

\* Fault: the merge is not cut down to the window.
Merge_Uncut(existing, incoming) ==
  [tokens  |-> existing.tokens \cup incoming.tokens,
   context |-> IF Len(incoming.context) >= Len(existing.context)
               THEN incoming.context ELSE existing.context]

Merge(existing, incoming) ==
  LET all == existing.tokens \cup incoming.tokens
  IN  [tokens  |-> IF Cardinality(all) > WindowSize THEN TightestWindow(all) ELSE all,
       context |-> IF /\ SameNeighborhood(existing.context, incoming.context)
                      /\ Len(incoming.context) >= Len(existing.context)
                   THEN incoming.context ELSE existing.context]
=============================================================================
