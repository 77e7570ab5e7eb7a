--------------------------- MODULE CloudInference ---------------------------
(***************************************************************************)
(* A FallbackChain (crates/llmime-core/src/inference/fallback_chain.rs)    *)
(* whose primary is a WorkersAIInferencer (workers_ai.rs) that was given a *)
(* consent manager and a cost guard, and whose fallback is the local       *)
(* n-gram model: consent check, cost check, retry loop, timeouts and cost  *)
(* record (consent.rs, cost_guard.rs, retry.rs, cost_monitor.rs).          *)
(*                                                                         *)
(* Each client makes one rerank call after another; clients share the      *)
(* monitor.  A call runs from await point to await point; the chain's      *)
(* timeout drops it at any of them.  One unit of cost is the price of one  *)
(* request.  Time is a fact per call: its deadline has passed or not.      *)
(***************************************************************************)
EXTENDS Integers, FiniteSets

CONSTANTS
  Clients,     \* who calls the chain concurrently
  MaxRetries,  \* RetryConfig.max_retries
  HourLimit,   \* cost_limit_hour, in units
  DayLimit,    \* cost_limit_day, in units
  MaxCalls     \* bound: calls made in all

ASSUME ClientsAssumption == IsFiniteSet(Clients)
ASSUME MaxRetriesAssumption == MaxRetries \in Nat
ASSUME LimitsAssumption == HourLimit \in Nat /\ DayLimit \in Nat
ASSUME MaxCallsAssumption == MaxCalls \in Nat

VARIABLES
  consented,   \* what is_consented() would answer now
  stage,       \* where each client's call stands
  attempts,    \* requests sent by the current call of each client
  expired,     \* the inferencer's own deadline has passed
  dayCost,     \* CostMonitor.cost_per_req_today
  hourCost,    \* CostMonitor.cost_per_req_hour
  calls,       \* history: calls made
  billed,      \* history: requests the service has served since the hour's reset
  charges,     \* history: requests the service has charged the current call of each client for
  delivered,   \* history: calls that returned the cloud's answer
  crashed      \* history: calls that ended in a panic

vars == <<consented, stage, attempts, expired, dayCost, hourCost, calls, billed, charges,
          delivered, crashed>>
costVars == <<dayCost, hourCost, billed, charges, delivered, crashed>>

Init ==
  /\ consented \in BOOLEAN
  /\ stage = [c \in Clients |-> "idle"]
  /\ attempts = [c \in Clients |-> 0]
  /\ expired = [c \in Clients |-> FALSE]
  /\ dayCost = 0 /\ hourCost = 0
  /\ charges = [c \in Clients |-> 0]
  /\ calls = 0 /\ billed = 0 /\ delivered = 0 /\ crashed = 0

Goto(c, next) == stage' = [stage EXCEPT ![c] = next]

\* Everything but the stage of one client stays.
Moves(c, from, to) ==
  /\ stage[c] = from
  /\ Goto(c, to)
  /\ UNCHANGED <<consented, attempts, expired, calls, costVars>>

-----------------------------------------------------------------------------
(* Before the first await: consent, cost cap, nothing to rank *)

\* A call has returned, or its task is gone with a panic; there may be another.
Ended == {"idle", "panicked"}

Call(c) ==
  /\ stage[c] \in Ended
  /\ calls < MaxCalls
  /\ calls' = calls + 1
  /\ Goto(c, "consent")
  /\ attempts' = [attempts EXCEPT ![c] = 0]
  /\ expired' = [expired EXCEPT ![c] = FALSE]
  /\ charges' = [charges EXCEPT ![c] = 0]
  /\ UNCHANGED <<consented, dayCost, hourCost, billed, delivered, crashed>>

\* Fault: nobody asks for consent.
CheckConsent_Skipped(c) == Moves(c, "consent", "day")

\* ConsentRequired is an error like any other to the chain: it falls back.
CheckConsent(c) == Moves(c, "consent", IF ~consented THEN "fallback" ELSE "day")

\* The guard loads the two counters one after the other; a cap is exceeded
\* only above its limit.
CheckDay(c) == Moves(c, "day", IF dayCost > DayLimit THEN "fallback" ELSE "hour")

\* Fault: the hourly cap is compared with the daily counter's limit.
CheckHour_AgainstDay(c) ==
  Moves(c, "hour", IF hourCost > DayLimit THEN "fallback" ELSE "attempt")

CheckHour(c) == Moves(c, "hour", IF hourCost > HourLimit THEN "fallback" ELSE "attempt")

\* An empty candidate list is returned as it came.
NothingToRank(c) == stage[c] = "attempt" /\ attempts[c] = 0 /\ Moves(c, "attempt", "idle")

-----------------------------------------------------------------------------
(* with_retry and call_workers_ai_once *)

\* The await points of a call.
Awaiting == {"sending", "body", "errorBody", "backoff"}

\* The inferencer's deadline passes, whatever the call is waiting for.
DeadlinePasses(c) ==
  /\ stage[c] \in {"attempt"} \cup Awaiting
  /\ ~expired[c]
  /\ expired' = [expired EXCEPT ![c] = TRUE]
  /\ UNCHANGED <<consented, stage, attempts, calls, costVars>>

\* Fault: the attempts are not counted.
Attempt_Uncounted(c) ==
  /\ stage[c] = "attempt"
  /\ ~expired[c]
  /\ Goto(c, "sending")
  /\ UNCHANGED <<consented, attempts, expired, calls, costVars>>

Attempt(c) ==
  /\ stage[c] = "attempt"
  /\ ~expired[c]
  /\ Goto(c, "sending")
  /\ attempts' = [attempts EXCEPT ![c] = @ + 1]
  /\ UNCHANGED <<consented, expired, calls, costVars>>

NoTimeLeft(c) == expired[c] /\ Moves(c, "attempt", "fallback")

\* What with_retry does with a retryable error: give up when the retries are
\* used up or the backoff would outlast the deadline, else sleep.
\* Fault: one retry too many.
RetryFrom_OneMore(c, from) ==
  \/ Moves(c, from, "fallback")
  \/ attempts[c] <= MaxRetries + 1 /\ ~expired[c] /\ Moves(c, from, "backoff")

RetryFrom(c, from) ==
  \/ Moves(c, from, "fallback")
  \/ attempts[c] <= MaxRetries /\ ~expired[c] /\ Moves(c, from, "backoff")

\* The service charges for the request in flight, or does not.
Charge(c, amount) ==
  /\ billed' = billed + amount
  /\ charges' = [charges EXCEPT ![c] = @ + amount]
  /\ UNCHANGED <<consented, attempts, expired, calls, hourCost, delivered, crashed>>

\* The send is given up, before or after the service took note of it.
Dropped(c) ==
  /\ Goto(c, "fallback")
  /\ \E amount \in {0, 1} : Charge(c, amount)
  /\ UNCHANGED dayCost

\* The connection fails: that is retried when it could not be made, and final
\* when it broke later.  (The socket's own timeout, retryable too, is 30 s and
\* so never comes before the deadline.)
SendFails(c) == RetryFrom(c, "sending") \/ (stage[c] = "sending" /\ Dropped(c))

\* Fault: the cost is recorded with the response's headers.
Accepted_Records(c) ==
  /\ stage[c] = "sending"
  /\ Goto(c, "body")
  /\ Charge(c, 1)
  /\ dayCost' = dayCost + 1

\* The service accepts the request, which it charges for; its body is to come.
Accepted(c) ==
  /\ stage[c] = "sending"
  /\ Goto(c, "body")
  /\ Charge(c, 1)
  /\ UNCHANGED dayCost

\* The request is refused, by the service or by a gateway before it: a 502 or 504 may
\* follow a request that was served and charged for.  The error's body is read before
\* anything else.
Refused(c) ==
  /\ stage[c] = "sending"
  /\ Goto(c, "errorBody")
  /\ \E amount \in {0, 1} : Charge(c, amount)
  /\ UNCHANGED dayCost

\* A retryable status (429, 502, 503, 504) sends the request again, charged or not.
ErrorBodyRead(c) == RetryFrom(c, "errorBody")

SendTimesOut(c) == stage[c] = "sending" /\ expired[c] /\ Dropped(c)

BackoffOver(c) == Moves(c, "backoff", "attempt")

\* Fault: a body that cannot be read or parsed counts as retryable.
BodyRead_Retries(c) == Moves(c, "body", "recordDay") \/ RetryFrom(c, "body")

\* The body arrives, well-formed or not; no deadline applies to it.
BodyRead(c) == Moves(c, "body", "recordDay") \/ Moves(c, "body", "fallback")

-----------------------------------------------------------------------------
(* CostMonitor::record, whose two additions are not one step; then the answer is
   read, which is no await point either *)

RecordDay(c) ==
  /\ stage[c] = "recordDay"
  /\ dayCost' = dayCost + 1
  /\ Goto(c, "recordHour")
  /\ UNCHANGED <<consented, attempts, expired, calls, hourCost, billed, charges, delivered, crashed>>

RecordHour(c) ==
  /\ stage[c] = "recordHour"
  /\ hourCost' = hourCost + 1
  /\ Goto(c, "parse")
  /\ UNCHANGED <<consented, attempts, expired, calls, dayCost, billed, charges, delivered, crashed>>

\* The candidates come back, the one the answer names first.
Deliver(c) ==
  /\ stage[c] = "parse"
  /\ delivered' = delivered + 1
  /\ Goto(c, "idle")
  /\ UNCHANGED <<consented, attempts, expired, calls, dayCost, hourCost, billed, charges, crashed>>

\* parse_best_index cuts from the first opening to the last closing brace and panics
\* when they come in the other order; nothing catches it, the chain's fallback neither.
ParsePanics(c) ==
  /\ stage[c] = "parse"
  /\ crashed' = crashed + 1
  /\ Goto(c, "panicked")
  /\ UNCHANGED <<consented, attempts, expired, calls, dayCost, hourCost, billed, charges, delivered>>

-----------------------------------------------------------------------------
(* FallbackChain *)

\* Fault: the timeout is put around the send only.
ChainElapses_SendOnly(c) == stage[c] = "sending" /\ Dropped(c)

\* The chain's timeout drops the primary's future at an await point.
ChainElapses(c) ==
  \/ stage[c] = "sending" /\ Dropped(c)
  \/ stage[c] \in Awaiting \ {"sending"} /\ Moves(c, stage[c], "fallback")

\* The n-gram model answers without awaiting; if it fails too, the candidates
\* are returned as they came.
Fallback(c) == Moves(c, "fallback", "idle")

-----------------------------------------------------------------------------
\* The user gives or revokes consent.
ConsentChanges ==
  /\ consented' = ~consented
  /\ UNCHANGED <<stage, attempts, expired, calls, costVars>>

\* CostMonitor::reset_hour.
ResetHour ==
  /\ hourCost' = 0
  /\ billed' = 0
  /\ UNCHANGED <<consented, stage, attempts, expired, calls, dayCost, charges, delivered, crashed>>

\* Steps of the process itself.
Local(c) ==
  \/ CheckConsent(c) \/ CheckDay(c) \/ CheckHour(c) \/ NothingToRank(c)
  \/ Attempt(c) \/ NoTimeLeft(c) \/ BackoffOver(c)
  \/ RecordDay(c) \/ RecordHour(c) \/ Deliver(c) \/ ParsePanics(c) \/ Fallback(c)

\* What the service and the network may or may not do.
Remote(c) == SendFails(c) \/ Accepted(c) \/ Refused(c) \/ ErrorBodyRead(c) \/ BodyRead(c)

Timer(c) == ChainElapses(c) \/ SendTimesOut(c) \/ DeadlinePasses(c)

Next ==
  \/ \E c \in Clients : Call(c) \/ Local(c) \/ Remote(c) \/ Timer(c)
  \/ ConsentChanges
  \/ ResetHour

\* The process runs and the chain's timer fires; the service owes nothing.
Fairness == \A c \in Clients : WF_vars(Local(c)) /\ WF_vars(ChainElapses(c))

Spec == Init /\ [][Next]_vars
FairSpec == Spec /\ Fairness

-----------------------------------------------------------------------------
(* Properties *)

Checks == {"consent", "day", "hour"}
Recording == {"recordDay", "recordHour"}
Stages == Ended \cup {"attempt", "parse", "fallback"} \cup Checks \cup Awaiting \cup Recording

\* A call sends at most one request and MaxRetries repeats.
TypeOK ==
  /\ consented \in BOOLEAN
  /\ stage \in [Clients -> Stages]
  /\ attempts \in [Clients -> 0 .. MaxRetries + 1]
  /\ expired \in [Clients -> BOOLEAN]
  /\ charges \in [Clients -> 0 .. MaxRetries + 1]
  /\ {dayCost, hourCost, calls, billed, delivered, crashed} \subseteq Nat

\* Calls the guard has let through and that may still be recorded.
ClearedByHour == {c \in Clients : stage[c] \in {"attempt"} \cup Awaiting \cup Recording}
ClearedByDay  == {c \in Clients : stage[c] \in {"hour", "attempt", "recordDay"} \cup Awaiting}

\* The guard checks before the call and records after it, without a lock: the
\* recorded cost overshoots a cap, but by one request per client at most.
OvershootBounded ==
  /\ hourCost + Cardinality(ClearedByHour) <= HourLimit + Cardinality(Clients)
  /\ dayCost + Cardinality(ClearedByDay) <= DayLimit + Cardinality(Clients)

\* The monitor records exactly the calls whose answer was read in full: each of them
\* has delivered that answer, has died of it in parse_best_index, or is about to.  A
\* retried, dropped or timed out call leaves no trace in it.
RecordedIsAccountedFor ==
  dayCost = delivered + crashed + Cardinality({c \in Clients : stage[c] \in {"recordHour", "parse"}})

\* NF-030, NF-031: whatever the service does or fails to do, a rerank call ends, by
\* returning or, for an answer that cannot be cut, in a panic; a body that never ends
\* is cut off by the chain.
EveryCallEnds == \A c \in Clients : stage[c] = "consent" ~> stage[c] \in Ended

\* The steps that a call can still take: those of the tries that are left, those
\* from its stage to the next try or to the end, and the passing of its deadline.
Rank ==
  [consent |-> 8, day |-> 7, hour |-> 6, sending |-> 8, errorBody |-> 7, backoff |-> 6,
   attempt |-> 5, body |-> 4, recordDay |-> 3, recordHour |-> 2, parse |-> 1, fallback |-> 1,
   idle |-> 0, panicked |-> 0]

StepsLeft(c) ==
  4 * (MaxRetries + 1 - attempts[c]) + Rank[stage[c]] + IF expired[c] THEN 0 ELSE 1

\* No answer of the service and no sequence of refusals, retries, timeouts and
\* changes of consent keeps a call going: each of its steps brings it nearer to
\* its end, which is 4 * (MaxRetries + 1) + 9 steps away at most.
EveryStepBringsTheEnd ==
  [][\A c \in Clients :
       stage[c] \notin Ended /\ <<stage[c], attempts[c], expired[c]>>' # <<stage[c], attempts[c], expired[c]>>
       => StepsLeft(c)' \in 0 .. StepsLeft(c) - 1]_vars

\* The refinement mapping to MeteredService: what a stage means to those who pay.
Meaning ==
  [idle |-> "idle", consent |-> "asking", day |-> "agreed", hour |-> "agreed",
   attempt |-> "admitted", sending |-> "admitted", errorBody |-> "admitted", backoff |-> "admitted",
   body |-> "charged", recordDay |-> "charged", recordHour |-> "charged", parse |-> "recorded",
   fallback |-> "local", panicked |-> "idle"]

Phase == [c \in Clients |-> Meaning[stage[c]]]

Metered == INSTANCE MeteredService WITH
  Limit <- HourLimit, Tries <- MaxRetries + 1, phase <- Phase, meter <- hourCost

\* However clients race, retry and are timed out, none asks the cloud without consent
\* and room under the cap; a call is charged for its tries at most, one that timed out
\* at a gateway included, and for none after an accepted one; and what the monitor
\* records was charged for, and is delivered unless its answer makes the parser panic.
ImplementsMeteredService == Metered!Spec

\* config.toml.sample:11: cost_limit_hour "rejects requests when exceeded".
\* Read with all the slack concurrency needs: a call made while no other is
\* under way is not let through once the service has been paid above the cap.
CapRejectsWhenExceeded ==
  [][\A c \in Clients :
       /\ stage[c] = "hour" /\ stage'[c] = "attempt"
       /\ \A d \in Clients \ {c} : stage[d] \in Ended
       => billed <= HourLimit]_vars
=============================================================================
