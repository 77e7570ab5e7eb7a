-------------------------- MODULE InferenceService --------------------------
(***************************************************************************)
(* What AsyncPipeline promises its callers, without queue, window, worker  *)
(* or permits: a call returns at most once; its request reaches the        *)
(* inferencer at most once and never more than MaxConcurrent at a time; a  *)
(* result of the inferencer is returned only for a request it was given,   *)
(* and a request that was refused is never given to it.                    *)
(***************************************************************************)
EXTENDS Integers, FiniteSets

CONSTANTS Requests, MaxConcurrent, InferenceReplies, Refusals

VARIABLES
  status,     \* per call: "new", "pending", "returned" or "abandoned"
  result,     \* per call: what it returned, or "none"
  served,     \* requests given to the inferencer so far
  executing   \* requests whose task is alive

vars == <<status, result, served, executing>>

Init ==
  /\ status = [r \in Requests |-> "new"]
  /\ result = [r \in Requests |-> "none"]
  /\ served = {}
  /\ executing = {}

Call(r) ==
  /\ status[r] = "new"
  /\ status' = [status EXCEPT ![r] = "pending"]
  /\ UNCHANGED <<result, served, executing>>

GiveUp(r) ==
  /\ status[r] = "pending"
  /\ status' = [status EXCEPT ![r] = "abandoned"]
  /\ UNCHANGED <<result, served, executing>>

\* A request may be executed although its caller gave up, never after it
\* returned.
Begin(r) ==
  /\ status[r] \in {"pending", "abandoned"}
  /\ r \notin served
  /\ Cardinality(executing) < MaxConcurrent
  /\ served' = served \cup {r}
  /\ executing' = executing \cup {r}
  /\ UNCHANGED <<status, result>>

Finish(r) ==
  /\ r \in executing
  /\ executing' = executing \ {r}
  /\ UNCHANGED <<status, result, served>>

Return(r) ==
  /\ status[r] = "pending"
  /\ status' = [status EXCEPT ![r] = "returned"]
  /\ \E outcome \in IF r \in served THEN InferenceReplies ELSE Refusals :
       result' = [result EXCEPT ![r] = outcome]
  /\ UNCHANGED <<served, executing>>

Next == \E r \in Requests : Call(r) \/ GiveUp(r) \/ Begin(r) \/ Finish(r) \/ Return(r)

Spec == Init /\ [][Next]_vars
=============================================================================
