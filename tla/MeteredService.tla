--------------------------- MODULE MeteredService ---------------------------
(***************************************************************************)
(* What CloudInference promises those who pay for the cloud, without       *)
(* stages, backoffs, deadlines or the order of the records: nothing is     *)
(* asked of the cloud before consent was found in this call and the meter  *)
(* at its limit or below; a call is charged once per try at most, and no   *)
(* more once a try was accepted; the meter counts accepted calls only, and *)
(* a call that it counts is delivered or lost to a crash.                  *)
(***************************************************************************)
EXTENDS Integers

CONSTANTS Clients, Limit, Tries

VARIABLES
  consented,  \* consent is given now
  phase,      \* per client: "idle", "asking", "agreed", "admitted", "charged", "recorded" or "local"
  meter,      \* recorded since the hour's reset
  charges,    \* per client: what the cloud charged for its latest call
  delivered,  \* answers of the cloud returned so far
  crashed     \* recorded answers that were lost to a crash

vars == <<consented, phase, meter, charges, delivered, crashed>>

Init ==
  /\ consented \in BOOLEAN
  /\ phase = [c \in Clients |-> "idle"]
  /\ charges = [c \in Clients |-> 0]
  /\ meter = 0 /\ delivered = 0 /\ crashed = 0

Becomes(c, from, to) == phase[c] \in from /\ phase' = [phase EXCEPT ![c] = to]

Ask(c) ==
  /\ Becomes(c, {"idle"}, "asking")
  /\ charges' = [charges EXCEPT ![c] = 0]
  /\ UNCHANGED <<consented, meter, delivered, crashed>>

\* Steps of one client that touch no counter.
Agree(c)   == consented /\ Becomes(c, {"asking"}, "agreed")
Admit(c)   == meter <= Limit /\ Becomes(c, {"agreed"}, "admitted")
GiveUp(c)  == Becomes(c, {"asking", "agreed", "admitted", "charged"}, "local")
Return(c)  == Becomes(c, {"admitted", "local"}, "idle")

Unmetered(c) ==
  /\ Agree(c) \/ Admit(c) \/ GiveUp(c) \/ Return(c)
  /\ UNCHANGED <<consented, meter, charges, delivered, crashed>>

\* The cloud charges for an accepted try; it may also charge for one that it then
\* refuses, or that nobody waits for any more.
Charge(c) ==
  /\ Becomes(c, {"admitted"}, "charged") \/ Becomes(c, {"admitted"}, "admitted")
       \/ Becomes(c, {"admitted"}, "local")
  /\ charges[c] < Tries
  /\ charges' = [charges EXCEPT ![c] = @ + 1]
  /\ UNCHANGED <<consented, meter, delivered, crashed>>

Record(c) ==
  /\ Becomes(c, {"charged"}, "recorded")
  /\ meter' = meter + 1
  /\ UNCHANGED <<consented, charges, delivered, crashed>>

Deliver(c) ==
  /\ Becomes(c, {"recorded"}, "idle")
  /\ delivered' = delivered + 1
  /\ UNCHANGED <<consented, meter, charges, crashed>>

Crash(c) ==
  /\ Becomes(c, {"recorded"}, "idle")
  /\ crashed' = crashed + 1
  /\ UNCHANGED <<consented, meter, charges, delivered>>

ConsentChanges ==
  consented' = ~consented /\ UNCHANGED <<phase, meter, charges, delivered, crashed>>

NewHour == meter' = 0 /\ UNCHANGED <<consented, phase, charges, delivered, crashed>>

Next ==
  \/ \E c \in Clients : Ask(c) \/ Unmetered(c) \/ Charge(c) \/ Record(c) \/ Deliver(c) \/ Crash(c)
  \/ ConsentChanges \/ NewHour

Spec == Init /\ [][Next]_vars
=============================================================================
