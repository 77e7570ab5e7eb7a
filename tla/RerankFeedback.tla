--------------------------- MODULE RerankFeedback ---------------------------
(***************************************************************************)
(* What the user sees of a rerank, in crates/llmime-core/src/rerank:       *)
(* streaming_boundary.rs announces the tokens that typing has completed,   *)
(* update_gate.rs decides whether a result replaces what is displayed, and *)
(* animation_scheduler.rs whether it is highlighted.  The host plays the   *)
(* animations and reports their ends, possibly late.                       *)
(* Confidences are integers, in hundredths; the code's f32::EPSILON only   *)
(* makes its comparisons those of the exact numbers.                       *)
(***************************************************************************)
EXTENDS Integers, Sequences, SequencesExt

CONSTANTS
  Surfaces,                  \* of tokens: sequences of characters
  Deltas,                    \* differences of confidence
  MinDelta, HighlightDelta,  \* DEFAULT_MIN_..., DEFAULT_HIGHLIGHT_CONFIDENCE_DELTA
  MaxTokens,                 \* bound: tokens of a text
  MaxAnimations              \* bound: animations started

\* A token is at least one character long.
ASSUME SurfacesAssumption == \A s \in Surfaces : Len(s) \in Nat \ {0}
ASSUME DeltasAssumption == Deltas \subseteq Int /\ MinDelta \in Nat /\ HighlightDelta \in Nat

VARIABLES
  prevTokens,     \* the detector's prev_tokens, as surfaces
  told,           \* history: per position, the token last announced to start there
  reducedMotion,
  active,         \* active_animation_id; 0 for None
  nextId,         \* next_animation_id
  playing,        \* host: animations running on the screen
  ended           \* host: animations that came to their end, not yet reported

detectorVars == <<prevTokens, told>>
animationVars == <<reducedMotion, active, nextId, playing, ended>>
feedbackVars == <<detectorVars, animationVars>>

FeedbackInit ==
  /\ prevTokens = <<>> /\ told = [position \in {} |-> <<>>]
  /\ reducedMotion \in BOOLEAN
  /\ active = 0 /\ nextId = 1
  /\ playing = {} /\ ended = {}

-----------------------------------------------------------------------------
(* streaming_boundary.rs *)

\* tokenize_with_positions: where the i-th token starts, after the lengths of
\* those before it.
Start(tokens, i) == SumFunctionOnSet([j \in DOMAIN tokens |-> Len(tokens[j])], 1 .. i - 1)

\* All but the last token, which the next input may still change.
ConfirmedTokens(tokens) == IF tokens = <<>> THEN <<>> ELSE Front(tokens)

\* common_prefix_len.
CommonPrefix(a, b) == Max({n \in 0 .. Min({Len(a), Len(b)}) : \A j \in 1 .. n : a[j] = b[j]})

\* The host hears of the tokens after the first n.
Announce(tokens, n) ==
  LET news == {i \in DOMAIN tokens : i > n}
      starts == {Start(tokens, i) : i \in news}
  IN told' = [p \in DOMAIN told \cup starts |->
                IF p \in starts THEN tokens[CHOOSE i \in news : Start(tokens, i) = p] ELSE told[p]]

\* Fault: the tail of the last input counts as announced.
Feed_FromTail(tokens) ==
  /\ Announce(ConfirmedTokens(tokens), CommonPrefix(prevTokens, ConfirmedTokens(tokens)))
  /\ prevTokens' = tokens
  /\ UNCHANGED animationVars

\* feed: what is confirmed beyond the common prefix with the last input is
\* announced.  A tokenizer that fails leaves everything as it is.
Feed(tokens) ==
  /\ Announce(ConfirmedTokens(tokens), CommonPrefix(ConfirmedTokens(prevTokens), ConfirmedTokens(tokens)))
  /\ prevTokens' = tokens
  /\ UNCHANGED animationVars

\* reset.
Reset ==
  /\ prevTokens' = <<>>
  /\ UNCHANGED <<told, animationVars>>

-----------------------------------------------------------------------------
(* update_gate.rs and animation_scheduler.rs *)

\* should_apply_update, for surfaces of one length or of two.
ShouldApply(sameLength, delta) == sameLength /\ delta >= 0 /\ delta >= MinDelta

\* feedback_for_delta.
Feedback(delta) ==
  CASE delta < MinDelta -> "none"
    [] delta >= MinDelta /\ (reducedMotion \/ delta < HighlightDelta) -> "silent"
    [] OTHER -> "highlight"

\* Fault: the animation before is not cancelled.
Start_Beside(id) == playing' = playing \cup {id}

\* AnimationCommand::Start with cancel_previous, carried out by the host.
StartAnimation(id) == playing' = (playing \ {active}) \cup {id}

\* plan_for_delta, for a result that passed the gate.
PlanForDelta(delta) ==
  /\ ShouldApply(TRUE, delta)
  /\ IF Feedback(delta) = "highlight"
     THEN /\ nextId <= MaxAnimations
          /\ StartAnimation(nextId)
          /\ active' = nextId
          /\ nextId' = nextId + 1
     ELSE UNCHANGED <<playing, active, nextId>>
  /\ UNCHANGED <<detectorVars, reducedMotion, ended>>

SetReducedMotion ==
  /\ reducedMotion' = ~reducedMotion
  /\ UNCHANGED <<detectorVars, active, nextId, playing, ended>>

\* cancel_active: AnimationCommand::Cancel.
CancelActive ==
  /\ playing' = playing \ {active}
  /\ active' = 0
  /\ UNCHANGED <<detectorVars, reducedMotion, nextId, ended>>

\* An animation comes to its end on the screen.
AnimationEnds(id) ==
  /\ id \in playing
  /\ playing' = playing \ {id}
  /\ ended' = ended \cup {id}
  /\ UNCHANGED <<detectorVars, reducedMotion, active, nextId>>

\* Fault: whatever has ended, nothing is active any more.
Complete_Any(id) ==
  /\ id \in ended
  /\ ended' = ended \ {id}
  /\ active' = 0
  /\ UNCHANGED <<detectorVars, reducedMotion, nextId, playing>>

\* complete: the report may come after another animation has started.
Complete(id) ==
  /\ id \in ended
  /\ ended' = ended \ {id}
  /\ active' = IF active = id THEN 0 ELSE active
  /\ UNCHANGED <<detectorVars, reducedMotion, nextId, playing>>

FeedbackNext ==
  \/ \E n \in 0 .. MaxTokens : \E tokens \in [1 .. n -> Surfaces] : Feed(tokens)
  \/ Reset
  \/ \E d \in Deltas : PlanForDelta(d)
  \/ SetReducedMotion
  \/ CancelActive
  \/ \E id \in playing : AnimationEnds(id)
  \/ \E id \in ended : Complete(id)

-----------------------------------------------------------------------------
(* Properties *)

\* However the text was rewritten in between, the host's last news of a position
\* is the token that is confirmed there: none is missed, none is out of date.
HostKnowsBoundaries ==
  LET now == ConfirmedTokens(prevTokens)
  IN \A i \in DOMAIN now : Start(now, i) \in DOMAIN told /\ told[Start(now, i)] = now[i]

\* At most one highlight runs, and the scheduler knows it, so that the next one
\* or cancel_active ends it; an animation it knows is running or its end is
\* about to be reported, so that it is not thought to run for ever.
RunningHighlightIsActive ==
  /\ playing \subseteq {active}
  /\ active # 0 => active \in playing \cup ended
=============================================================================
