--------------------------- MODULE RerankService ---------------------------
(***************************************************************************)
(* What RerankQueue promises the typing thread before it and the worker    *)
(* behind it, without batches, timers, tasks or a channel: a call that has *)
(* something to rerank waits until it is served or lost, and is never      *)
(* either again; those who are served together are served by one request,  *)
(* which is a window of the tokens they brought.                           *)
(***************************************************************************)
EXTENDS Integers, FiniteSets

CONSTANTS Calls, Brings, WindowSize

VARIABLES
  status,     \* per call: "new", "nothing", "waiting", "served" or "lost"
  requests    \* handed to the worker so far: [calls, tokens]

vars == <<status, requests>>

Init ==
  /\ status = [c \in Calls |-> "new"]
  /\ requests = {}

Waiting == {c \in Calls : status[c] = "waiting"}

Becomes(group, fate) == status' = [c \in Calls |-> IF c \in group THEN fate ELSE status[c]]

Arrive(c) ==
  /\ status[c] = "new"
  /\ Becomes({c}, IF Brings[c] = {} THEN "nothing" ELSE "waiting")
  /\ UNCHANGED requests

\* Some of the tokens are left out only if there are too many.
Windows(tokens) ==
  {window \in SUBSET tokens :
     /\ window # {} /\ Cardinality(window) <= WindowSize
     /\ Cardinality(tokens) <= WindowSize => window = tokens}

Serve(group) ==
  /\ Becomes(group, "served")
  /\ \E window \in Windows(UNION {Brings[c] : c \in group}) :
       requests' = requests \cup {[calls |-> group, tokens |-> window]}

Lose(group) == Becomes(group, "lost") /\ UNCHANGED requests

Next ==
  \/ \E c \in Calls : Arrive(c)
  \/ \E group \in SUBSET Waiting : group # {} /\ (Serve(group) \/ Lose(group))

Spec == Init /\ [][Next]_vars
=============================================================================
