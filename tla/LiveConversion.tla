--------------------------- MODULE LiveConversion ---------------------------
(***************************************************************************)
(* crates/llmime-core/src/ux/live_conversion.rs on top of AsyncPipeline,   *)
(* as the macOS and Windows adapters (imk_adapter.rs, tsf_adapter.rs) call *)
(* it: a key handler checks consent, submits the input and blocks until a  *)
(* reply comes; another thread may cancel, and the consent file may change *)
(* at any time.                                                            *)
(***************************************************************************)
EXTENDS AsyncPipeline

CONSTANT MaxCancels   \* bound: calls of cancel_pending

ASSUME MaxCancelsAssumption == MaxCancels \in Nat

VARIABLES
  consented,  \* what ConsentManager.is_consented() would answer now
  handler,    \* on_input_change per input: "new", "consented" or "refused"
  cancels,    \* history: calls of cancel_pending
  targeted,   \* history: requests in the debounce window when cancel came
  submitted   \* history: requests submitted by the time of some cancel

liveVars == <<consented, handler, cancels, targeted, submitted>>
allVars == <<vars, liveVars>>

LiveInit ==
  /\ Init
  /\ consented \in BOOLEAN
  /\ handler = [r \in Requests |-> "new"]
  /\ cancels = 0
  /\ targeted = {}
  /\ submitted = {}

\* on_input_change: the consent check; a refusal returns ConsentRequired.
CheckConsent(r) ==
  /\ open
  /\ handler[r] = "new"
  /\ handler' = [handler EXCEPT ![r] = IF consented THEN "consented" ELSE "refused"]
  /\ UNCHANGED <<vars, consented, cancels, targeted, submitted>>

\* on_input_change: the submit that follows a passed check.
SubmitInput(r) ==
  /\ handler[r] = "consented"
  /\ Submit(r)
  /\ UNCHANGED liveVars

\* The request the worker holds in, or has just taken out of, the window.
InWindow == IF worker = "debounce" \/ (Debounce /\ worker = "check") THEN {current} ELSE {}

CancelPending ==
  /\ cancels < MaxCancels
  /\ Cancel
  /\ cancels' = cancels + 1
  /\ targeted' = targeted \cup InWindow
  /\ submitted' = submitted \cup {r \in Requests : caller[r] # "idle"}
  /\ UNCHANGED <<consented, handler>>

\* The user gives or revokes consent, in this process or another.
ConsentChanges ==
  /\ consented' = ~consented
  /\ UNCHANGED <<vars, handler, cancels, targeted, submitted>>

LiveNext ==
  \/ \E r \in Requests :
       \/ CheckConsent(r)
       \/ SubmitInput(r)
       \/ (Send(r) \/ Receive(r) \/ Abandon(r) \/ Task(r)) /\ UNCHANGED liveVars
  \/ CancelPending
  \/ ConsentChanges
  \/ (Close \/ Worker) /\ UNCHANGED liveVars

LiveSpec == LiveInit /\ [][LiveNext]_allVars

-----------------------------------------------------------------------------
(* Properties *)

\* A cancel that arrives while a request waits in its debounce window does
\* stop that request: it is cancelled or superseded, and no task is spawned for it.
CancelStopsItsTarget ==
  \A r \in targeted : r \notin Unanswered /\ reply[r] \notin InferenceReplies

\* async_pipeline.rs:57: cancel() concerns "the request currently waiting in
\* the debounce window".  In particular an input submitted only after every
\* cancel is not cancelled.
CancelSparesLaterInput ==
  \A r \in Requests : reply[r] = "cancelled" => r \in submitted
=============================================================================
