----------------------------- MODULE Selection -----------------------------
(***************************************************************************)
(* The three state machines that turn selection changes into rerank        *)
(* requests after a debounce delay:                                        *)
(*   "trigger"  crates/llmime-core/src/rerank/selection_trigger.rs         *)
(*   "watcher"  crates/llmime-imk/src/selection_watcher.rs    (macOS)      *)
(*   "sink"     crates/llmime-tsf/src/selection_sink.rs       (Windows)    *)
(* They differ in when they remember a selection, and so in what they      *)
(* forget.  The host reports every change of the user's selection and of   *)
(* the composition state, and polls.                                       *)
(***************************************************************************)
EXTENDS Integers

CONSTANTS
  Variants,    \* which of the three are considered
  Ranges,      \* non-empty selections with text
  NoRange,     \* an empty selection, nothing remembered, nothing pending
  Delay,       \* CONFIRM_DELAY, DEFAULT_DEBOUNCE
  MaxTime      \* bound: the clock

ASSUME VariantsAssumption == Variants \subseteq {"trigger", "watcher", "sink"}
ASSUME NoRangeAssumption == NoRange \notin Ranges
ASSUME TimeAssumption == Delay \in Nat /\ MaxTime \in Nat

VARIABLES
  variant,      \* which state machine this behaviour is about
  composing,    \* in_composition, is_composing
  last,         \* last_emitted, last_selection
  pending,      \* the range of `pending`, or NoRange
  since,        \* pending.since; 0 when nothing is pending
  now,          \* Instant::now()
  selection,    \* history: what the user has selected
  report,       \* history: the report of `selection` not yet answered by an emission
  emission      \* history: what the last step returned to the host, and to which call

selVars == <<variant, composing, last, pending, since, now, selection, report, emission>>

Emit(r, call) == emission' = [range |-> r, call |-> call]
EmitNothing == Emit(NoRange, "none")

\* No report, or one the state machine does not consider; and one that an
\* emission has answered.
NoReport == [at |-> -1, known |-> FALSE]
Answered == [at |-> -1, known |-> TRUE]

SelInit ==
  /\ variant \in Variants
  /\ composing = FALSE
  /\ last = NoRange
  /\ pending = NoRange
  /\ since = 0
  /\ now = 0
  /\ selection = NoRange
  /\ report = NoReport
  /\ emission = [range |-> NoRange, call |-> "none"]

\* Fault: the window's end is stored in `since`.
Pend_UntilEnd(r) == pending' = r /\ since' = IF r = NoRange THEN 0 ELSE now + Delay

\* Sets or clears the pending selection.
Pend(r) == pending' = r /\ since' = IF r = NoRange THEN 0 ELSE now

Tick ==
  /\ now < MaxTime
  /\ now' = now + 1
  /\ EmitNothing
  /\ UNCHANGED <<variant, composing, last, pending, since, selection, report>>

-----------------------------------------------------------------------------
\* Fault: a selection made before the composition survives it.
SetComposition_KeepsPending(active) ==
  /\ composing' = active
  /\ report' = NoReport
  /\ EmitNothing
  /\ UNCHANGED <<variant, last, pending, since, now, selection>>

\* set_composition, set_composing: a starting composition discards what is
\* pending.
SetComposition(active) ==
  /\ composing' = active
  /\ IF active THEN Pend(NoRange) ELSE UNCHANGED <<pending, since>>
  /\ report' = NoReport
  /\ EmitNothing
  /\ UNCHANGED <<variant, last, now, selection>>

\* The early return of on_selection_change; only the trigger asks for modifiers.
Suppressed(held) == composing \/ held

\* What on_selection_change remembers: the watcher every range it sees, the
\* others nothing yet.
LastSeen(r) == IF variant = "watcher" /\ ~composing /\ r # NoRange THEN r ELSE last

\* What a poll that emits remembers.
LastEmitted == IF variant = "watcher" THEN last ELSE pending

\* Fault: a selection that follows another inside the window does not restart it.
SelectionChange_KeepsFirst(r, held) ==
  /\ selection' = r
  /\ EmitNothing
  /\ report' = IF Suppressed(held) \/ r = NoRange THEN NoReport
               ELSE [at |-> now, known |-> r = last]
  /\ IF Suppressed(held) \/ (r # NoRange /\ (r = last \/ pending # NoRange))
     THEN UNCHANGED <<pending, since>> ELSE Pend(r)
  /\ last' = LastSeen(r)
  /\ UNCHANGED <<variant, composing, now>>

\* on_selection_change.  The watcher remembers a selection when it sees it,
\* the others when they emit it.
SelectionChange(r, held) ==
  /\ selection' = r
  /\ EmitNothing
  /\ report' = IF Suppressed(held) \/ r = NoRange THEN NoReport
               ELSE [at |-> now, known |-> r = last]
  /\ IF Suppressed(held) \/ (r # NoRange /\ r = last)
     THEN UNCHANGED <<pending, since>> ELSE Pend(r)
  /\ last' = LastSeen(r)
  /\ UNCHANGED <<variant, composing, now>>

\* poll, poll_confirmed_at.
Poll ==
  /\ IF pending # NoRange /\ now - since >= Delay
     THEN /\ Emit(pending, "poll")
          /\ last' = LastEmitted
          /\ Pend(NoRange)
          /\ report' = Answered
     ELSE Emit(NoRange, "poll") /\ UNCHANGED <<last, pending, since, report>>
  /\ UNCHANGED <<variant, composing, now, selection>>

\* force_reevaluate, on_shortcut_reevaluate: the shortcut emits at once.
ForceReevaluate ==
  /\ selection # NoRange
  /\ Emit(selection, "shortcut")
  /\ last' = selection
  /\ Pend(NoRange)
  /\ report' = Answered
  /\ UNCHANGED <<variant, composing, now, selection>>

SelNext ==
  \/ Tick
  \/ \E active \in BOOLEAN : SetComposition(active)
  \/ \E r \in Ranges \cup {NoRange}, held \in BOOLEAN :
       (held => variant = "trigger") /\ SelectionChange(r, held)
  \/ Poll
  \/ ForceReevaluate

SelSpec == SelInit /\ [][SelNext]_selVars

-----------------------------------------------------------------------------
(* Properties *)

Confirmed == emission.range # NoRange /\ emission.call = "poll"

\* Windows started in the past; nothing else is remembered than selections.
SelTypeOK ==
  /\ variant \in Variants
  /\ composing \in BOOLEAN
  /\ {last, pending, selection} \subseteq Ranges \cup {NoRange}
  /\ since \in 0 .. now /\ now \in 0 .. MaxTime
  /\ report.at \in -1 .. now
  /\ emission \in [range : Ranges \cup {NoRange}, call : {"none", "poll", "shortcut"}]

\* A composition that starts inside the window takes the selection with it:
\* until it ends, nothing but the shortcut emits.
SilentWhileComposing == composing => ~Confirmed

\* A selection the state machine has not just seen before is emitted by the
\* first poll after it was held for the delay, whatever came before it.
HeldSelectionIsEmitted ==
  [][Poll /\ report.at >= 0 /\ ~report.known /\ now - report.at >= Delay
       => emission'.range = selection]_selVars

\* On macOS what is emitted is what the user has selected at that moment.
WatcherEmitsTheSelected ==
  variant = "watcher" /\ Confirmed => emission.range = selection
=============================================================================
