------------------------ MODULE CloudInferenceProofs ------------------------
(***************************************************************************)
(* Proofs about CloudInference for any clients, limits and retry counts:   *)
(* the type invariant with the bound on attempts, the bound on what        *)
(* concurrency adds to a cost cap, the agreement of monitor and answers,   *)
(* the length of a call, and the refinement of MeteredService.  The run    *)
(* cloud_inference checks what a user can observe of these, and alone that *)
(* every call ends.                                                        *)
(***************************************************************************)
EXTENDS CloudInference, FiniteSetTheorems, TLAPS

(***************************************************************************)
(* The type invariant.  Its bound on attempts is inductive only together   *)
(* with the check of RetryFrom: whoever may still send has a try left.     *)
(* The service charges for requests that were sent, each of them once.     *)
(***************************************************************************)
BeforeSending == Checks \cup {"attempt", "backoff"}

TryLeft == \A c \in Clients : stage[c] \in BeforeSending => attempts[c] <= MaxRetries

ChargesFit ==
  \A c \in Clients :
    charges[c] <= attempts[c] /\ (stage[c] = "sending" => charges[c] < attempts[c])

TypeInv == TypeOK /\ TryLeft /\ ChargesFit

\* Moving one client to a known stage keeps the type invariant when the move
\* leads before sending only from there or with a try left.
LEMMA MovesKeepType ==
  ASSUME TypeInv, NEW c \in Clients, NEW from, NEW to \in Stages \ {"sending"}, Moves(c, from, to),
         to \in BeforeSending => attempts[c] <= MaxRetries
  PROVE  TypeInv'
<1>1. /\ stage' = [stage EXCEPT ![c] = to]
      /\ UNCHANGED <<consented, attempts, expired, calls, costVars>>
  BY DEF Moves, Goto
<1>2. TypeOK' BY <1>1 DEF TypeInv, TypeOK, costVars
<1>3. TryLeft' BY <1>1 DEF TypeInv, TypeOK, TryLeft
<1>4. ChargesFit'
  <2>1. charges \in [Clients -> 0 .. MaxRetries + 1] /\ attempts \in [Clients -> 0 .. MaxRetries + 1]
    BY DEF TypeInv, TypeOK
  <2> QED BY <1>1, <2>1, MaxRetriesAssumption DEF TypeInv, TypeOK, ChargesFit, costVars
<1> QED BY <1>2, <1>3, <1>4 DEF TypeInv

\* The service's charge for the request in flight is the try's first.
LEMMA ChargesKeepType ==
  ASSUME TypeInv, NEW c \in Clients, NEW to \in Stages \ (BeforeSending \cup {"sending"}),
         stage[c] = "sending", Goto(c, to), NEW amount \in {0, 1}, Charge(c, amount),
         UNCHANGED dayCost
  PROVE  TypeInv'
<1>1. /\ stage' = [stage EXCEPT ![c] = to] /\ charges' = [charges EXCEPT ![c] = @ + amount]
      /\ billed' = billed + amount
      /\ UNCHANGED <<consented, attempts, expired, calls, dayCost, hourCost, delivered, crashed>>
  BY DEF Goto, Charge
<1>2. /\ charges \in [Clients -> 0 .. MaxRetries + 1] /\ attempts \in [Clients -> 0 .. MaxRetries + 1]
      /\ charges[c] < attempts[c]
  BY DEF TypeInv, TypeOK, ChargesFit
<1>3. charges[c] + amount \in 0 .. MaxRetries + 1 /\ charges[c] + amount <= attempts[c]
  BY <1>2, MaxRetriesAssumption
<1>4. TypeOK' BY <1>1, <1>2, <1>3 DEF TypeInv, TypeOK
<1>5. TryLeft' BY <1>1 DEF TypeInv, TypeOK, TryLeft
<1>6. ChargesFit'
  <2>1. charges'[c] <= attempts'[c] /\ stage'[c] # "sending" BY <1>1, <1>2, <1>3 DEF TypeInv, TypeOK
  <2>2. \A d \in Clients \ {c} :
          stage'[d] = stage[d] /\ charges'[d] = charges[d] /\ attempts'[d] = attempts[d]
    BY <1>1, <1>2 DEF TypeInv, TypeOK
  <2> QED BY <2>1, <2>2 DEF TypeInv, ChargesFit
<1> QED BY <1>4, <1>5, <1>6 DEF TypeInv

\* A repeated request leaves the types as they are.
LEMMA RetryKeepsType ==
  ASSUME TypeInv, NEW c \in Clients, NEW from, RetryFrom(c, from)
  PROVE  TypeInv'
<1>1. /\ {"fallback", "backoff"} \subseteq Stages \ {"sending"}
      /\ "fallback" \notin BeforeSending
  BY DEF Stages, Awaiting, BeforeSending, Checks
<1>2. CASE Moves(c, from, "fallback") BY <1>1, <1>2, MovesKeepType
<1>3. CASE attempts[c] <= MaxRetries /\ Moves(c, from, "backoff") BY <1>1, <1>3, MovesKeepType
<1> QED BY <1>2, <1>3 DEF RetryFrom

\* Checks, retries and requests of the process itself.
LEMMA LocalKeepsType ==
  ASSUME TypeInv, NEW c \in Clients, Local(c)
  PROVE  TypeInv'
<1> USE MaxRetriesAssumption
<1>1. {"idle", "consent", "day", "hour", "attempt", "fallback"} \subseteq Stages \ {"sending"}
  BY DEF Stages, Checks, Ended
<1>2. {"idle", "fallback"} \cap BeforeSending = {} BY DEF BeforeSending, Checks
<1>3. stage[c] \in {"consent", "day", "hour", "attempt", "backoff"} => attempts[c] <= MaxRetries
  BY DEF TypeInv, TryLeft, BeforeSending, Checks
<1>4. CASE CheckConsent(c)
  BY <1>1, <1>2, <1>3, <1>4, MovesKeepType DEF CheckConsent, Moves
<1>5. CASE CheckDay(c)
  BY <1>1, <1>2, <1>3, <1>5, MovesKeepType DEF CheckDay, Moves
<1>6. CASE CheckHour(c)
  BY <1>1, <1>2, <1>3, <1>6, MovesKeepType DEF CheckHour, Moves
<1>7. CASE NothingToRank(c) BY <1>1, <1>2, <1>7, MovesKeepType DEF NothingToRank
<1>8. CASE Attempt(c)
  <2>1. "sending" \in Stages /\ "sending" \notin BeforeSending
    BY DEF Stages, Awaiting, BeforeSending, Checks
  <2>2. attempts[c] \in 0 .. MaxRetries BY <1>3, <1>8 DEF Attempt, TypeInv, TypeOK
  <2>3. TypeOK' /\ TryLeft'
    BY <1>8, <2>1, <2>2 DEF Attempt, Goto, TypeInv, TypeOK, TryLeft, costVars
  <2>4. ChargesFit'
    <3>1. /\ stage' = [stage EXCEPT ![c] = "sending"] /\ charges' = charges
          /\ attempts' = [attempts EXCEPT ![c] = @ + 1]
      BY <1>8 DEF Attempt, Goto, costVars
    <3>2. charges[c] <= attempts[c] /\ charges[c] \in Nat BY DEF TypeInv, TypeOK, ChargesFit
    <3>3. charges'[c] < attempts'[c] BY <2>2, <3>1, <3>2 DEF TypeInv, TypeOK
    <3>4. charges'[c] <= attempts'[c] BY <2>2, <3>1, <3>2 DEF TypeInv, TypeOK
    <3>5. \A d \in Clients \ {c} :
            stage'[d] = stage[d] /\ charges'[d] = charges[d] /\ attempts'[d] = attempts[d]
      BY <3>1 DEF TypeInv, TypeOK
    <3> QED BY <3>3, <3>4, <3>5 DEF TypeInv, ChargesFit
  <2> QED BY <2>3, <2>4 DEF TypeInv
<1>9. CASE NoTimeLeft(c) BY <1>1, <1>2, <1>9, MovesKeepType DEF NoTimeLeft
<1>10. CASE BackoffOver(c)
  BY <1>1, <1>3, <1>10, MovesKeepType DEF BackoffOver, Moves
<1>11. ASSUME NEW to \in {"recordHour", "parse", "idle", "panicked"}, Goto(c, to),
              UNCHANGED <<consented, attempts, expired, calls, billed, charges>>,
              {dayCost', hourCost', delivered', crashed'} \subseteq Nat
       PROVE  TypeInv'
  <2>1. to \in Stages \ (BeforeSending \cup {"sending"})
    BY DEF Stages, Recording, Ended, BeforeSending, Checks
  <2> QED BY <1>11, <2>1 DEF Goto, TypeInv, TypeOK, TryLeft, ChargesFit
<1>12. CASE RecordDay(c) \/ RecordHour(c) \/ Deliver(c) \/ ParsePanics(c)
  BY <1>11, <1>12 DEF RecordDay, RecordHour, Deliver, ParsePanics, TypeInv, TypeOK
<1>13. CASE Fallback(c) BY <1>1, <1>2, <1>13, MovesKeepType DEF Fallback
<1> QED BY <1>4, <1>5, <1>6, <1>7, <1>8, <1>9, <1>10, <1>12, <1>13 DEF Local

\* So does a request that is dropped.
LEMMA DroppedKeepsType ==
  ASSUME TypeInv, NEW c \in Clients, stage[c] = "sending", Dropped(c)
  PROVE  TypeInv'
<1>1. "fallback" \in Stages \ (BeforeSending \cup {"sending"}) BY DEF Stages, BeforeSending, Checks
<1> QED BY <1>1, ChargesKeepType DEF Dropped

\* Answers, failures and timeouts.
LEMMA RemoteKeepsType ==
  ASSUME TypeInv, NEW c \in Clients, Remote(c) \/ Timer(c)
  PROVE  TypeInv'
<1>1. {"body", "errorBody", "recordDay", "fallback"} \subseteq Stages \ {"sending"}
  BY DEF Stages, Awaiting, Recording
<1>2. {"body", "errorBody", "recordDay", "fallback"} \cap BeforeSending = {}
  BY DEF BeforeSending, Checks
<1>3. CASE SendFails(c) BY <1>3, RetryKeepsType, DroppedKeepsType DEF SendFails
<1>4. CASE Accepted(c)
  BY <1>1, <1>2, <1>4, ChargesKeepType DEF Accepted
<1>5. CASE Refused(c) BY <1>1, <1>2, <1>5, ChargesKeepType DEF Refused
<1>6. CASE ErrorBodyRead(c) BY <1>6, RetryKeepsType DEF ErrorBodyRead
<1>7. CASE BodyRead(c) BY <1>1, <1>2, <1>7, MovesKeepType DEF BodyRead
<1>8. CASE ChainElapses(c)
  BY <1>1, <1>2, <1>8, MovesKeepType, DroppedKeepsType DEF ChainElapses
<1>9. CASE SendTimesOut(c) BY <1>9, DroppedKeepsType DEF SendTimesOut
<1>10. CASE DeadlinePasses(c)
  BY <1>10 DEF DeadlinePasses, TypeInv, TypeOK, TryLeft, ChargesFit, costVars
<1> QED BY <1>3, <1>4, <1>5, <1>6, <1>7, <1>8, <1>9, <1>10 DEF Remote, Timer

\* Whatever runs, whoever may still send has a try left.
LEMMA TypeInvHolds == Spec => []TypeInv
<1>1. Init => TypeInv
  BY MaxRetriesAssumption
     DEF Init, TypeInv, TypeOK, TryLeft, ChargesFit, Stages, Ended, BeforeSending, Checks
<1>2. TypeInv /\ [Next]_vars => TypeInv'
  <2> SUFFICES ASSUME TypeInv, [Next]_vars PROVE TypeInv' OBVIOUS
  <2>1. ASSUME NEW c \in Clients, Call(c) PROVE TypeInv'
    BY <2>1, MaxRetriesAssumption
       DEF Call, Goto, TypeInv, TypeOK, TryLeft, ChargesFit, Stages, Checks
  <2>2. ASSUME NEW c \in Clients, Local(c) PROVE TypeInv' BY <2>2, LocalKeepsType
  <2>3. ASSUME NEW c \in Clients, Remote(c) \/ Timer(c) PROVE TypeInv' BY <2>3, RemoteKeepsType
  <2>4. CASE ConsentChanges BY <2>4 DEF ConsentChanges, TypeInv, TypeOK, TryLeft, ChargesFit, costVars
  <2>5. CASE ResetHour BY <2>5 DEF ResetHour, TypeInv, TypeOK, TryLeft, ChargesFit
  <2>6. CASE UNCHANGED vars BY <2>6 DEF vars, costVars, TypeInv, TypeOK, TryLeft, ChargesFit
  <2> QED BY <2>1, <2>2, <2>3, <2>4, <2>5, <2>6 DEF Next
<1> QED BY <1>1, <1>2, PTL DEF Spec

\* A call sends at most one request and MaxRetries repeats, whatever the
\* service answers and whenever the deadline passes (retry.rs).
THEOREM CloudTypeCorrect == Spec => []TypeOK
<1>1. TypeInv => TypeOK BY DEF TypeInv
<1> QED BY <1>1, TypeInvHolds, PTL

-----------------------------------------------------------------------------
(***************************************************************************)
(* The counts.  Each invariant relates a counter to the number of clients  *)
(* in certain stages; Count says how that number changes when one client   *)
(* moves, and the invariants are preserved because every way into those    *)
(* stages passes a check and every way out of Recording adds to a counter. *)
(***************************************************************************)
At(S) == {c \in Clients : stage[c] \in S}

HourStages == {"attempt"} \cup Awaiting \cup Recording
DayStages == {"hour", "attempt", "recordDay"} \cup Awaiting

HourBounded == hourCost + Cardinality(At(HourStages)) <= HourLimit + Cardinality(Clients)
DayBounded == dayCost + Cardinality(At(DayStages)) <= DayLimit + Cardinality(Clients)
ReadStages == {"recordHour", "parse"}
Recorded == dayCost = delivered + crashed + Cardinality(At(ReadStages))

CostInv == HourBounded /\ DayBounded /\ Recorded

\* The clients at some stages are finitely many, and no more than there are.
LEMMA AtIsCounted ==
  ASSUME NEW S
  PROVE  /\ IsFiniteSet(At(S)) /\ Cardinality(At(S)) \in Nat
         /\ Cardinality(Clients) \in Nat
         /\ Cardinality(At(S)) <= Cardinality(Clients)
BY ClientsAssumption, FS_Subset, FS_CardinalityType DEF At

\* A client that goes to another stage changes a count by one at most.
LEMMA Count ==
  ASSUME TypeOK, NEW c \in Clients, NEW to, Goto(c, to), NEW S
  PROVE  /\ Cardinality(At(S)') \in Nat
         /\ stage[c] \in S /\ to \in S => Cardinality(At(S)') = Cardinality(At(S))
         /\ stage[c] \notin S /\ to \notin S => Cardinality(At(S)') = Cardinality(At(S))
         /\ stage[c] \in S /\ to \notin S => Cardinality(At(S)') = Cardinality(At(S)) - 1
         /\ stage[c] \notin S /\ to \in S =>
              /\ Cardinality(At(S)') = Cardinality(At(S)) + 1
              /\ Cardinality(At(S)') <= Cardinality(Clients)
<1>1. stage' = [stage EXCEPT ![c] = to] /\ stage \in [Clients -> Stages] BY DEF Goto, TypeOK
<1>2. At(S)' = IF to \in S THEN At(S) \cup {c} ELSE At(S) \ {c} BY <1>1 DEF At
<1>3. c \in At(S) <=> stage[c] \in S BY DEF At
<1>4. IsFiniteSet(At(S)) /\ Cardinality(At(S)) \in Nat BY AtIsCounted
<1>5. to \in S /\ stage[c] \in S => At(S)' = At(S) BY <1>2, <1>3
<1>6. to \notin S /\ stage[c] \notin S => At(S)' = At(S) BY <1>2, <1>3
<1>7. ASSUME to \notin S, stage[c] \in S PROVE Cardinality(At(S)') = Cardinality(At(S)) - 1
  BY <1>2, <1>3, <1>4, <1>7, FS_RemoveElement
<1>8. ASSUME to \in S, stage[c] \notin S
      PROVE  /\ Cardinality(At(S)') = Cardinality(At(S)) + 1
             /\ Cardinality(At(S)') <= Cardinality(Clients)
  <2>1. Cardinality(At(S) \cup {c}) = Cardinality(At(S)) + 1
    BY <1>3, <1>4, <1>8, FS_AddElement
  <2>2. At(S) \cup {c} \subseteq Clients BY DEF At
  <2>3. Cardinality(At(S) \cup {c}) <= Cardinality(Clients)
    BY <2>2, ClientsAssumption, FS_Subset
  <2> QED BY <1>2, <1>8, <2>1, <2>3
<1>9. Cardinality(At(S)') \in Nat
  <2>1. IsFiniteSet(At(S) \cup {c}) /\ IsFiniteSet(At(S) \ {c})
    BY <1>4, FS_AddElement, FS_RemoveElement
  <2> QED BY <1>2, <2>1, FS_CardinalityType
<1> QED BY <1>5, <1>6, <1>7, <1>8, <1>9

\* Moving a client without letting it through a check changes no count upwards.
LEMMA GotoKeepsCost ==
  ASSUME TypeOK, CostInv, NEW c \in Clients, NEW to, Goto(c, to),
         UNCHANGED <<dayCost, hourCost, delivered, crashed>>,
         to \in HourStages => stage[c] \in HourStages,
         to \in DayStages => stage[c] \in DayStages,
         stage[c] \notin ReadStages, to \notin ReadStages
  PROVE  CostInv'
<1>1. /\ Cardinality(At(HourStages)) \in Nat /\ Cardinality(At(DayStages)) \in Nat
      /\ Cardinality(At(ReadStages)) \in Nat /\ Cardinality(Clients) \in Nat
  BY AtIsCounted
<1>2. {dayCost, hourCost, delivered, crashed} \subseteq Nat BY DEF TypeOK
<1>3. Cardinality(At(HourStages)') <= Cardinality(At(HourStages)) BY <1>1, Count
<1>4. Cardinality(At(DayStages)') <= Cardinality(At(DayStages)) BY <1>1, Count
<1>5. Cardinality(At(ReadStages)') = Cardinality(At(ReadStages)) BY Count
<1>6. Cardinality(At(HourStages)') \in Nat /\ Cardinality(At(DayStages)') \in Nat
  BY Count
<1> QED
  BY <1>1, <1>2, <1>3, <1>4, <1>5, <1>6, LimitsAssumption
     DEF CostInv, HourBounded, DayBounded, Recorded

\* A step that moves no client and adds to no counter.
LEMMA StillKeepsCost ==
  ASSUME CostInv, UNCHANGED <<stage, dayCost, hourCost, delivered, crashed>>
  PROVE  CostInv'
BY DEF CostInv, HourBounded, DayBounded, Recorded, At

\* The two checks let a client in only below the limit.
LEMMA ChecksKeepCost ==
  ASSUME TypeOK, CostInv, NEW c \in Clients, CheckDay(c) \/ CheckHour(c)
  PROVE  CostInv'
<1> DEFINE hour == Cardinality(At(HourStages))
           day  == Cardinality(At(DayStages))
           rec  == Cardinality(At(ReadStages))
<1>1. /\ hour \in Nat /\ day \in Nat /\ rec \in Nat /\ Cardinality(Clients) \in Nat
      /\ {dayCost, hourCost, delivered, crashed} \subseteq Nat
  BY AtIsCounted DEF TypeOK
<1>2. CASE CheckDay(c) /\ dayCost > DayLimit
  BY <1>2, GotoKeepsCost DEF CheckDay, Moves, costVars, HourStages, DayStages, ReadStages, Awaiting, Recording
<1>3. CASE CheckHour(c) /\ hourCost > HourLimit
  BY <1>3, GotoKeepsCost DEF CheckHour, Moves, costVars, HourStages, DayStages, ReadStages, Awaiting, Recording
<1>4. CASE CheckDay(c) /\ ~(dayCost > DayLimit)
  <2>1. /\ stage[c] = "day" /\ Goto(c, "hour") /\ UNCHANGED <<dayCost, hourCost, delivered, crashed>>
        /\ dayCost <= DayLimit
    BY <1>1, <1>4, LimitsAssumption DEF CheckDay, Moves, costVars
  <2>2. "day" \notin HourStages \cup DayStages /\ "hour" \in DayStages \ HourStages
        /\ {"day", "hour"} \cap ReadStages = {}
    BY DEF HourStages, DayStages, ReadStages, Awaiting, Recording
  <2>3. hour' = hour /\ rec' = rec /\ day' = day + 1 /\ day' <= Cardinality(Clients)
    BY <2>1, <2>2, Count
  <2> QED BY <1>1, <2>1, <2>3, LimitsAssumption DEF CostInv, HourBounded, DayBounded, Recorded
<1>5. CASE CheckHour(c) /\ ~(hourCost > HourLimit)
  <2>1. /\ stage[c] = "hour" /\ Goto(c, "attempt") /\ UNCHANGED <<dayCost, hourCost, delivered, crashed>>
        /\ hourCost <= HourLimit
    BY <1>1, <1>5, LimitsAssumption DEF CheckHour, Moves, costVars
  <2>2. "hour" \in DayStages \ HourStages /\ "attempt" \in DayStages \cap HourStages
        /\ {"hour", "attempt"} \cap ReadStages = {}
    BY DEF HourStages, DayStages, ReadStages, Awaiting, Recording
  <2>3. day' = day /\ rec' = rec /\ hour' = hour + 1 /\ hour' <= Cardinality(Clients)
    BY <2>1, <2>2, Count
  <2> QED BY <1>1, <2>1, <2>3, LimitsAssumption DEF CostInv, HourBounded, DayBounded, Recorded
<1> QED BY <1>2, <1>3, <1>4, <1>5

\* CostMonitor::record takes a client out of the stages it counts for, and the end of
\* its call out of those whose answer was read.
LEMMA RecordKeepsCost ==
  ASSUME TypeOK, CostInv, NEW c \in Clients,
         RecordDay(c) \/ RecordHour(c) \/ Deliver(c) \/ ParsePanics(c)
  PROVE  CostInv'
<1> DEFINE hour == Cardinality(At(HourStages))
           day  == Cardinality(At(DayStages))
           rec  == Cardinality(At(ReadStages))
<1>1. /\ hour \in Nat /\ day \in Nat /\ rec \in Nat /\ Cardinality(Clients) \in Nat
      /\ {dayCost, hourCost, delivered, crashed} \subseteq Nat
  BY AtIsCounted DEF TypeOK
<1>2. /\ {"recordDay", "recordHour"} \subseteq HourStages
      /\ {"parse", "idle", "panicked"} \cap (HourStages \cup DayStages) = {}
      /\ "recordDay" \in DayStages /\ "recordHour" \notin DayStages
      /\ {"recordHour", "parse"} \subseteq ReadStages
      /\ {"recordDay", "idle", "panicked"} \cap ReadStages = {}
  BY DEF HourStages, DayStages, ReadStages, Awaiting, Recording
<1>3. CASE RecordDay(c)
  <2>1. /\ stage[c] = "recordDay" /\ Goto(c, "recordHour")
        /\ dayCost' = dayCost + 1 /\ UNCHANGED <<hourCost, delivered, crashed>>
    BY <1>3 DEF RecordDay
  <2>2. hour' = hour /\ day' = day - 1 /\ rec' = rec + 1 BY <1>2, <2>1, Count
  <2> QED BY <1>1, <2>1, <2>2, LimitsAssumption DEF CostInv, HourBounded, DayBounded, Recorded
<1>4. CASE RecordHour(c)
  <2>1. /\ stage[c] = "recordHour" /\ Goto(c, "parse")
        /\ hourCost' = hourCost + 1 /\ UNCHANGED <<dayCost, delivered, crashed>>
    BY <1>4 DEF RecordHour
  <2>2. hour' = hour - 1 /\ day' = day /\ rec' = rec BY <1>2, <2>1, Count
  <2> QED BY <1>1, <2>1, <2>2, LimitsAssumption DEF CostInv, HourBounded, DayBounded, Recorded
<1>5. CASE Deliver(c) \/ ParsePanics(c)
  <2>1. PICK to \in {"idle", "panicked"} : Goto(c, to)
    BY <1>5 DEF Deliver, ParsePanics
  <2>2. /\ stage[c] = "parse" /\ UNCHANGED <<dayCost, hourCost>>
        /\ delivered' + crashed' = delivered + crashed + 1
    BY <1>1, <1>5 DEF Deliver, ParsePanics
  <2>3. hour' = hour /\ day' = day /\ rec' = rec - 1 BY <1>2, <2>1, <2>2, Count
  <2>4. {delivered', crashed'} \subseteq Nat BY <1>1, <1>5 DEF Deliver, ParsePanics
  <2> QED BY <1>1, <2>2, <2>3, <2>4, LimitsAssumption DEF CostInv, HourBounded, DayBounded, Recorded
<1> QED BY <1>3, <1>4, <1>5

\* A step of one client keeps the bound of the cost.
LEMMA ClientKeepsCost ==
  ASSUME TypeOK, CostInv, NEW c \in Clients, Call(c) \/ Local(c) \/ Remote(c) \/ Timer(c)
  PROVE  CostInv'
<1> USE DEF HourStages, DayStages, ReadStages, Awaiting, Recording, costVars
<1>1. CASE Call(c) BY <1>1, GotoKeepsCost DEF Call, Ended
<1>2. CASE CheckDay(c) \/ CheckHour(c) BY <1>2, ChecksKeepCost
<1>3. CASE RecordDay(c) \/ RecordHour(c) \/ Deliver(c) \/ ParsePanics(c)
  BY <1>3, RecordKeepsCost
<1>4. CASE Attempt(c) BY <1>4, GotoKeepsCost DEF Attempt
<1>5. CASE Accepted(c) BY <1>5, GotoKeepsCost DEF Accepted, Charge
<1>6. CASE DeadlinePasses(c) BY <1>6, StillKeepsCost DEF DeadlinePasses
<1>7. ASSUME NEW from, NEW to, Moves(c, from, to), to \notin ReadStages, from \notin ReadStages,
             to \in HourStages => from \in HourStages,
             to \in DayStages => from \in DayStages
      PROVE  CostInv'
  BY <1>7, GotoKeepsCost DEF Moves
<1>8. CASE CheckConsent(c) BY <1>7, <1>8 DEF CheckConsent
<1>9. CASE NothingToRank(c) \/ NoTimeLeft(c) \/ BackoffOver(c) \/ Fallback(c)
  BY <1>7, <1>9 DEF NothingToRank, NoTimeLeft, BackoffOver, Fallback
<1>10. ASSUME NEW from \in {"sending", "errorBody"}, RetryFrom(c, from) PROVE CostInv'
  BY <1>7, <1>10 DEF RetryFrom
<1>11. CASE BodyRead(c) BY <1>7, <1>11 DEF BodyRead
<1>16. CASE Refused(c) BY <1>16, GotoKeepsCost DEF Refused, Charge
<1>12. ASSUME stage[c] = "sending", Dropped(c) PROVE CostInv'
  BY <1>12, GotoKeepsCost DEF Dropped, Charge
<1>13. CASE SendFails(c) \/ ErrorBodyRead(c) BY <1>10, <1>12, <1>13 DEF SendFails, ErrorBodyRead
<1>14. CASE SendTimesOut(c) BY <1>12, <1>14 DEF SendTimesOut
<1>15. CASE ChainElapses(c) BY <1>7, <1>12, <1>15 DEF ChainElapses
<1> QED
  BY <1>1, <1>2, <1>3, <1>4, <1>5, <1>6, <1>8, <1>9, <1>11, <1>13, <1>14, <1>15, <1>16
     DEF Local, Remote, Timer

\* The bound of the cost holds always.
LEMMA CostInvIsInvariant == Spec => []CostInv
<1>1. Init => CostInv
  <2> SUFFICES ASSUME Init PROVE CostInv OBVIOUS
  <2>1. At(HourStages) = {} /\ At(DayStages) = {} /\ At(ReadStages) = {}
    BY DEF Init, At, HourStages, DayStages, ReadStages, Awaiting, Recording
  <2>2. Cardinality({}) = 0 BY FS_EmptySet
  <2>3. Cardinality(Clients) \in Nat BY AtIsCounted
  <2> QED
    BY <2>1, <2>2, <2>3, LimitsAssumption DEF Init, CostInv, HourBounded, DayBounded, Recorded
<1>2. TypeOK /\ CostInv /\ [Next]_vars => CostInv'
  <2> SUFFICES ASSUME TypeOK, CostInv, [Next]_vars PROVE CostInv' OBVIOUS
  <2>1. ASSUME NEW c \in Clients, Call(c) \/ Local(c) \/ Remote(c) \/ Timer(c) PROVE CostInv'
    BY <2>1, ClientKeepsCost
  <2>2. CASE ConsentChanges BY <2>2, StillKeepsCost DEF ConsentChanges, costVars
  <2>3. CASE ResetHour
    <3>1. hourCost' = 0 /\ UNCHANGED <<stage, dayCost, delivered, crashed>> BY <2>3 DEF ResetHour
    <3>2. At(HourStages)' = At(HourStages) /\ At(DayStages)' = At(DayStages)
          /\ At(ReadStages)' = At(ReadStages)
      BY <3>1 DEF At
    <3>3. /\ Cardinality(At(HourStages)) \in Nat /\ Cardinality(Clients) \in Nat
          /\ Cardinality(At(HourStages)) <= Cardinality(Clients)
      BY AtIsCounted
    <3> QED
      BY <3>1, <3>2, <3>3, LimitsAssumption DEF CostInv, HourBounded, DayBounded, Recorded
  <2>4. CASE UNCHANGED vars BY <2>4, StillKeepsCost DEF vars
  <2> QED BY <2>1, <2>2, <2>3, <2>4 DEF Next
<1> QED BY <1>1, <1>2, CloudTypeCorrect, PTL DEF Spec

\* However many clients race between the guard's check and the record, each
\* cap is overshot by one request per client at most (cost_guard.rs).
THEOREM OvershootIsBounded == Spec => []OvershootBounded
<1>1. CostInv => OvershootBounded
  BY DEF CostInv, HourBounded, DayBounded, At, HourStages, DayStages,
         OvershootBounded, ClearedByHour, ClearedByDay
<1> QED BY <1>1, CostInvIsInvariant, PTL

\* Whatever is retried, dropped or timed out, the monitor's daily counter is the
\* number of answers delivered and of answers that the parser panicked over
\* (workers_ai.rs records last but one).
THEOREM RecordsAreAccountedFor == Spec => []RecordedIsAccountedFor
<1>1. At(ReadStages) = {c \in Clients : stage[c] \in {"recordHour", "parse"}} BY DEF At, ReadStages
<1>2. CostInv => RecordedIsAccountedFor BY <1>1 DEF CostInv, Recorded, RecordedIsAccountedFor
<1> QED BY <1>2, CostInvIsInvariant, PTL

-----------------------------------------------------------------------------
(***************************************************************************)
(* The length of a call.  A step to a stage of higher rank is only the     *)
(* sending of a request, which uses up a try; whoever sends has one left.  *)
(***************************************************************************)

\* The steps that are left are a number, and no ranks are higher than 8.
LEMMA StepsLeftIsNumber ==
  ASSUME TypeInv, NEW c \in Clients
  PROVE  /\ StepsLeft(c) \in Nat
         /\ stage[c] \in Stages /\ attempts[c] \in 0 .. MaxRetries + 1
         /\ expired[c] \in BOOLEAN
<1>1. stage[c] \in Stages /\ attempts[c] \in 0 .. MaxRetries + 1 /\ expired[c] \in BOOLEAN
  BY DEF TypeInv, TypeOK
<1>2. Rank[stage[c]] \in 0 .. 8
  BY <1>1 DEF Rank, Stages, Ended, Checks, Awaiting, Recording
<1> QED BY <1>1, <1>2, MaxRetriesAssumption DEF StepsLeft

\* A step that keeps the tries and the deadline, to a lower rank, brings the end nearer.
LEMMA MovesBringTheEnd ==
  ASSUME TypeInv, NEW c \in Clients, NEW to \in Stages, Goto(c, to),
         UNCHANGED <<attempts, expired>>, Rank[to] < Rank[stage[c]]
  PROVE  StepsLeft(c)' \in 0 .. StepsLeft(c) - 1
<1>1. stage'[c] = to BY DEF Goto, TypeInv, TypeOK
<1>2. stage[c] \in Stages /\ attempts[c] \in 0 .. MaxRetries + 1 /\ expired[c] \in BOOLEAN
  BY StepsLeftIsNumber
<1>3. Rank[stage[c]] \in 0 .. 8 /\ Rank[to] \in 0 .. 8
  BY <1>2 DEF Rank, Stages, Ended, Checks, Awaiting, Recording
<1>4. StepsLeft(c)' = 4 * (MaxRetries + 1 - attempts[c]) + Rank[to] + IF expired[c] THEN 0 ELSE 1
  BY <1>1 DEF StepsLeft, Rank
<1> QED BY <1>2, <1>3, <1>4, MaxRetriesAssumption DEF StepsLeft

\* Sending uses up a try.
LEMMA AttemptsBringTheEnd ==
  ASSUME TypeInv, NEW c \in Clients, Attempt(c)
  PROVE  StepsLeft(c)' \in 0 .. StepsLeft(c) - 1
<1>1. /\ stage[c] = "attempt" /\ stage'[c] = "sending" /\ expired'[c] = expired[c]
      /\ attempts'[c] = attempts[c] + 1
  BY DEF Attempt, Goto, TypeInv, TypeOK
<1>2. attempts[c] \in 0 .. MaxRetries
  BY <1>1, StepsLeftIsNumber, MaxRetriesAssumption DEF TypeInv, TryLeft, BeforeSending
<1>3. Rank["attempt"] = 5 /\ Rank["sending"] = 8 BY DEF Rank
<1>4. expired[c] \in BOOLEAN BY StepsLeftIsNumber
<1>5. StepsLeft(c) = 4 * (MaxRetries + 1 - attempts[c]) + 5 + IF expired[c] THEN 0 ELSE 1
  BY <1>1, <1>3 DEF StepsLeft
<1>6. StepsLeft(c)' = 4 * (MaxRetries + 1 - (attempts[c] + 1)) + Rank["sending"] + IF expired[c] THEN 0 ELSE 1
  BY <1>1 DEF StepsLeft, Rank
<1> QED BY <1>2, <1>3, <1>4, <1>5, <1>6, MaxRetriesAssumption

\* The passing of the deadline is one of the steps that were left.
LEMMA DeadlinesBringTheEnd ==
  ASSUME TypeInv, NEW c \in Clients, DeadlinePasses(c)
  PROVE  StepsLeft(c)' \in 0 .. StepsLeft(c) - 1
<1>1. ~expired[c] /\ expired'[c] = TRUE /\ UNCHANGED <<stage, attempts>>
  BY DEF DeadlinePasses, TypeInv, TypeOK
<1>2. /\ StepsLeft(c) \in Nat /\ stage[c] \in Stages
      /\ attempts[c] \in 0 .. MaxRetries + 1
  BY StepsLeftIsNumber
<1>3. Rank[stage[c]] \in 0 .. 8
  BY <1>2 DEF Rank, Stages, Ended, Checks, Awaiting, Recording
<1>4. StepsLeft(c) = 4 * (MaxRetries + 1 - attempts[c]) + Rank[stage[c]] + 1
  BY <1>1 DEF StepsLeft
<1>5. StepsLeft(c)' = 4 * (MaxRetries + 1 - attempts[c]) + Rank[stage[c]] + 0
  BY <1>1 DEF StepsLeft, Rank
<1> QED BY <1>2, <1>3, <1>4, <1>5, MaxRetriesAssumption

\* Every step of a call is one of the three.
LEMMA StepsBringTheEnd ==
  ASSUME TypeInv, NEW c \in Clients, Local(c) \/ Remote(c) \/ Timer(c)
  PROVE  StepsLeft(c)' \in 0 .. StepsLeft(c) - 1
<1>1. {"idle", "day", "hour", "attempt", "sending", "errorBody", "backoff", "body",
       "recordDay", "recordHour", "parse", "panicked", "fallback"} \subseteq Stages
  BY DEF Stages, Ended, Checks, Awaiting, Recording
<1>2. ASSUME NEW from, NEW to \in Stages, Moves(c, from, to), Rank[to] < Rank[from]
      PROVE  StepsLeft(c)' \in 0 .. StepsLeft(c) - 1
  BY <1>2, MovesBringTheEnd DEF Moves
<1>3. CASE CheckConsent(c) \/ CheckDay(c) \/ CheckHour(c)
  BY <1>1, <1>2, <1>3 DEF CheckConsent, CheckDay, CheckHour, Rank
<1>4. CASE NothingToRank(c) \/ NoTimeLeft(c) \/ BackoffOver(c) \/ Fallback(c)
  BY <1>1, <1>2, <1>4 DEF NothingToRank, NoTimeLeft, BackoffOver, Fallback, Rank
<1>5. CASE Attempt(c) BY <1>5, AttemptsBringTheEnd
<1>6. CASE RecordDay(c) \/ RecordHour(c) \/ Deliver(c) \/ ParsePanics(c)
  BY <1>1, <1>6, MovesBringTheEnd DEF RecordDay, RecordHour, Deliver, ParsePanics, Rank
<1>7. CASE Accepted(c) \/ Refused(c) \/ (stage[c] = "sending" /\ Dropped(c))
  BY <1>1, <1>7, MovesBringTheEnd DEF Accepted, Refused, Dropped, Charge, Rank
<1>8. ASSUME NEW from \in {"sending", "errorBody"}, RetryFrom(c, from)
      PROVE  StepsLeft(c)' \in 0 .. StepsLeft(c) - 1
  BY <1>1, <1>2, <1>8 DEF RetryFrom, Rank
<1>9. CASE SendFails(c) \/ ErrorBodyRead(c) \/ SendTimesOut(c)
  BY <1>7, <1>8, <1>9 DEF SendFails, ErrorBodyRead, SendTimesOut
<1>10. CASE BodyRead(c) BY <1>1, <1>2, <1>10 DEF BodyRead, Rank
<1>11. CASE ChainElapses(c)
  BY <1>1, <1>2, <1>7, <1>11 DEF ChainElapses, Awaiting, Rank
<1>12. CASE DeadlinePasses(c) BY <1>12, DeadlinesBringTheEnd
<1> QED
  BY <1>3, <1>4, <1>5, <1>6, <1>7, <1>9, <1>10, <1>11, <1>12 DEF Local, Remote, Timer

\* A step of one client leaves the calls of the others where they are.
LEMMA OthersStay ==
  ASSUME TypeInv, NEW c \in Clients, NEW d \in Clients, d # c,
         Call(d) \/ Local(d) \/ Remote(d) \/ Timer(d)
  PROVE  <<stage[c], attempts[c], expired[c]>>' = <<stage[c], attempts[c], expired[c]>>
<1> USE DEF Goto, TypeInv, TypeOK, Moves, costVars
<1>1. CASE Call(d) BY <1>1 DEF Call
<1>2. ASSUME NEW from, NEW to, Moves(d, from, to)
      PROVE  <<stage[c], attempts[c], expired[c]>>' = <<stage[c], attempts[c], expired[c]>>
  BY <1>2
<1>3. ASSUME NEW to, Goto(d, to), UNCHANGED <<attempts, expired>>
      PROVE  <<stage[c], attempts[c], expired[c]>>' = <<stage[c], attempts[c], expired[c]>>
  BY <1>3
<1>4. CASE Local(d)
  BY <1>2, <1>3, <1>4 DEF Local, CheckConsent, CheckDay, CheckHour, NothingToRank, Attempt,
       NoTimeLeft, BackoffOver, RecordDay, RecordHour, Deliver, ParsePanics, Fallback
<1>5. CASE Remote(d)
  BY <1>2, <1>3, <1>5 DEF Remote, SendFails, RetryFrom, Accepted, Refused, ErrorBodyRead, BodyRead,
                          Dropped, Charge
<1>6. CASE Timer(d)
  BY <1>2, <1>3, <1>6 DEF Timer, ChainElapses, SendTimesOut, DeadlinePasses, Dropped, Charge
<1> QED BY <1>1, <1>4, <1>5, <1>6

\* No answer of the service and no sequence of refusals, retries, timeouts and
\* changes of consent keeps a call going: each of its steps brings it nearer to its
\* end (with_retry and the bodies, retry.rs and workers_ai.rs).
THEOREM CallsComeToTheirEnd == Spec => EveryStepBringsTheEnd
<1> DEFINE place(c) == <<stage[c], attempts[c], expired[c]>>
           nearer(c) == stage[c] \notin Ended /\ place(c)' # place(c)
                          => StepsLeft(c)' \in 0 .. StepsLeft(c) - 1
<1>1. TypeInv /\ [Next]_vars => \A c \in Clients : nearer(c)
  <2> SUFFICES ASSUME TypeInv, [Next]_vars, NEW c \in Clients PROVE nearer(c) OBVIOUS
  <2>1. ASSUME NEW d \in Clients, Call(d) \/ Local(d) \/ Remote(d) \/ Timer(d), d # c
        PROVE  nearer(c)
    BY <2>1, OthersStay
  <2>2. CASE Call(c) BY <2>2 DEF Call, Ended
  <2>3. CASE Local(c) \/ Remote(c) \/ Timer(c) BY <2>3, StepsBringTheEnd
  <2>4. CASE ConsentChanges \/ ResetHour \/ UNCHANGED vars
    BY <2>4 DEF ConsentChanges, ResetHour, vars
  <2> QED BY <2>1, <2>2, <2>3, <2>4 DEF Next
<1>2. TypeInv /\ [Next]_vars => [\A c \in Clients : nearer(c)]_vars BY <1>1
<1> QED BY <1>2, TypeInvHolds, PTL DEF Spec, EveryStepBringsTheEnd

-----------------------------------------------------------------------------
(***************************************************************************)
(* The refinement of MeteredService.  A step of a call changes the phase   *)
(* of its client to the meaning of its new stage.                          *)
(***************************************************************************)

\* Where a client goes is what its phase becomes.
LEMMA GotoBecomes ==
  ASSUME TypeOK, NEW c \in Clients, NEW to \in Stages, Goto(c, to)
  PROVE  /\ Phase[c] = Meaning[stage[c]]
         /\ Phase' = [Phase EXCEPT ![c] = Meaning[to]]
         /\ Meaning[to] = Phase[c] => Phase' = Phase
<1>1. Phase[c] = Meaning[stage[c]] BY DEF Phase
<1>2. Phase' = [Phase EXCEPT ![c] = Meaning[to]] BY DEF Phase, Meaning, Goto, TypeOK
<1>3. Meaning[to] = Phase[c] => Phase' = Phase BY <1>2 DEF Phase
<1> QED BY <1>1, <1>2, <1>3

\* A move between two stages of one meaning is nothing to who pays; one that gives
\* up or comes back is a step without a charge.
LEMMA MovesAreUnmetered ==
  ASSUME TypeOK, NEW c \in Clients, NEW from, NEW to \in Stages, Moves(c, from, to),
         \/ Meaning[to] = Meaning[from]
         \/ Meaning[to] = "local" /\ Meaning[from] \in {"asking", "agreed", "admitted", "charged"}
         \/ Meaning[to] = "idle" /\ Meaning[from] \in {"admitted", "local"}
  PROVE  [Metered!Next]_(Metered!vars)
<1>1. /\ Phase[c] = Meaning[from] /\ Phase' = [Phase EXCEPT ![c] = Meaning[to]]
      /\ Meaning[to] = Meaning[from] => Phase' = Phase
      /\ UNCHANGED <<consented, hourCost, charges, delivered, crashed>>
  BY GotoBecomes DEF Moves, costVars
<1>2. CASE Meaning[to] = Meaning[from] BY <1>1, <1>2 DEF Metered!vars
<1>3. CASE Meaning[to] = "local" /\ Meaning[from] \in {"asking", "agreed", "admitted", "charged"}
  BY <1>1, <1>3 DEF Metered!Next, Metered!Unmetered, Metered!GiveUp, Metered!Becomes
<1>4. CASE Meaning[to] = "idle" /\ Meaning[from] \in {"admitted", "local"}
  BY <1>1, <1>4 DEF Metered!Next, Metered!Unmetered, Metered!Return, Metered!Becomes
<1> QED BY <1>2, <1>3, <1>4

\* A call is asked, agreed to with consent, and admitted at the cap or below it.
LEMMA ChecksAdmit ==
  ASSUME TypeOK, NEW c \in Clients,
         Call(c) \/ CheckConsent(c) \/ CheckDay(c) \/ CheckHour(c)
  PROVE  [Metered!Next]_(Metered!vars)
<1> USE DEF Stages, Checks, Ended
<1>1. CASE Call(c)
  <2>1. Phase[c] = "idle" /\ Phase' = [Phase EXCEPT ![c] = "asking"]
    BY <1>1, GotoBecomes DEF Call, Meaning
  <2> QED
    BY <1>1, <2>1
       DEF Call, Metered!Next, Metered!Ask, Metered!Becomes
<1>2. CASE CheckConsent(c) /\ consented
  <2>1. Phase[c] = "asking" /\ Phase' = [Phase EXCEPT ![c] = "agreed"]
    BY <1>2, GotoBecomes DEF CheckConsent, Moves, Meaning
  <2> QED
    BY <1>2, <2>1
       DEF CheckConsent, Moves, costVars, Metered!Next, Metered!Unmetered, Metered!Agree, Metered!Becomes
<1>3. CASE CheckHour(c) /\ ~(hourCost > HourLimit)
  <2>1. Phase[c] = "agreed" /\ Phase' = [Phase EXCEPT ![c] = "admitted"]
    BY <1>3, GotoBecomes DEF CheckHour, Moves, Meaning
  <2>2. hourCost <= HourLimit BY <1>3, LimitsAssumption DEF TypeOK
  <2> QED
    BY <1>3, <2>1, <2>2
       DEF CheckHour, Moves, costVars, Metered!Next, Metered!Unmetered, Metered!Admit, Metered!Becomes
<1>4. CASE \/ CheckConsent(c) /\ ~consented
           \/ CheckDay(c)
           \/ CheckHour(c) /\ hourCost > HourLimit
  BY <1>4, MovesAreUnmetered DEF CheckConsent, CheckDay, CheckHour, Meaning
<1> QED BY <1>1, <1>2, <1>3, <1>4

\* The service charges for what it accepts, and for some of what is refused or dropped.
LEMMA ChargesAreTries ==
  ASSUME TypeInv, NEW c \in Clients,
         Accepted(c) \/ Refused(c) \/ (stage[c] = "sending" /\ Dropped(c))
  PROVE  [Metered!Next]_(Metered!vars)
<1> USE DEF Stages, Awaiting
<1>1. PICK amount \in {0, 1}, to \in {"body", "errorBody", "fallback"} :
        /\ stage[c] = "sending" /\ Goto(c, to) /\ Charge(c, amount)
        /\ to = "body" => amount = 1
  BY DEF Accepted, Refused, Dropped
<1>2. /\ Phase[c] = "admitted" /\ Phase' = [Phase EXCEPT ![c] = Meaning[to]]
      /\ Meaning[to] = Phase[c] => Phase' = Phase
  BY <1>1, GotoBecomes DEF Meaning, TypeInv
<1>3. /\ charges \in [Clients -> 0 .. MaxRetries + 1] /\ charges[c] < MaxRetries + 1
  BY <1>1, MaxRetriesAssumption DEF TypeInv, TypeOK, ChargesFit
<1>4. /\ charges' = [charges EXCEPT ![c] = @ + amount]
      /\ UNCHANGED <<consented, hourCost, delivered, crashed>>
  BY <1>1 DEF Charge
<1>5. CASE amount = 1
  <2>1. Meaning[to] \in {"charged", "admitted", "local"} BY DEF Meaning
  <2>2. Metered!Charge(c)
    BY <1>2, <1>3, <1>4, <1>5, <2>1 DEF Metered!Charge, Metered!Becomes
  <2> QED BY <2>2 DEF Metered!Next
<1>6. CASE amount = 0
  <2>1. charges' = charges BY <1>3, <1>4, <1>6
  <2>2. Meaning[to] = "admitted" \/ Meaning[to] = "local" BY <1>1, <1>6 DEF Meaning
  <2>3. CASE Meaning[to] = "admitted" BY <1>2, <1>4, <2>1, <2>3 DEF Metered!vars
  <2>4. CASE Meaning[to] = "local"
    BY <1>2, <1>4, <2>1, <2>4
       DEF Metered!Next, Metered!Unmetered, Metered!GiveUp, Metered!Becomes
  <2> QED BY <2>2, <2>3, <2>4
<1> QED BY <1>5, <1>6

\* What the monitor's second addition records is delivered or lost to the panic.
LEMMA RecordsAndDeliveries ==
  ASSUME TypeOK, NEW c \in Clients,
         RecordDay(c) \/ RecordHour(c) \/ Deliver(c) \/ ParsePanics(c)
  PROVE  [Metered!Next]_(Metered!vars)
<1> USE DEF Stages, Ended, Recording
<1>1. CASE RecordDay(c)
  <2>1. Phase' = Phase BY <1>1, GotoBecomes DEF RecordDay, Meaning
  <2> QED BY <1>1, <2>1 DEF RecordDay, Metered!vars
<1>2. CASE RecordHour(c)
  <2>1. Phase[c] = "charged" /\ Phase' = [Phase EXCEPT ![c] = "recorded"]
    BY <1>2, GotoBecomes DEF RecordHour, Meaning
  <2> QED BY <1>2, <2>1 DEF RecordHour, Metered!Next, Metered!Record, Metered!Becomes
<1>3. CASE Deliver(c)
  <2>1. Phase[c] = "recorded" /\ Phase' = [Phase EXCEPT ![c] = "idle"]
    BY <1>3, GotoBecomes DEF Deliver, Meaning
  <2> QED BY <1>3, <2>1 DEF Deliver, Metered!Next, Metered!Deliver, Metered!Becomes
<1>4. CASE ParsePanics(c)
  <2>1. Phase[c] = "recorded" /\ Phase' = [Phase EXCEPT ![c] = "idle"]
    BY <1>4, GotoBecomes DEF ParsePanics, Meaning
  <2> QED BY <1>4, <2>1 DEF ParsePanics, Metered!Next, Metered!Crash, Metered!Becomes
<1> QED BY <1>1, <1>2, <1>3, <1>4

\* Each step of a client is one of the service's steps or none.
LEMMA ClientStepIsMetered ==
  ASSUME TypeInv, NEW c \in Clients, Call(c) \/ Local(c) \/ Remote(c) \/ Timer(c)
  PROVE  [Metered!Next]_(Metered!vars)
<1> USE DEF TypeInv
<1>1. {"idle", "attempt", "sending", "errorBody", "backoff", "body", "recordDay", "fallback"}
        \subseteq Stages
  BY DEF Stages, Ended, Awaiting, Recording
<1>2. CASE Call(c) \/ CheckConsent(c) \/ CheckDay(c) \/ CheckHour(c) BY <1>2, ChecksAdmit
<1>3. CASE NothingToRank(c) \/ NoTimeLeft(c) \/ BackoffOver(c) \/ Fallback(c)
  BY <1>1, <1>3, MovesAreUnmetered DEF NothingToRank, NoTimeLeft, BackoffOver, Fallback, Meaning
<1>4. CASE Attempt(c)
  <2>1. Phase' = Phase BY <1>1, <1>4, GotoBecomes DEF Attempt, Meaning
  <2> QED BY <1>4, <2>1 DEF Attempt, costVars, Metered!vars
<1>5. CASE RecordDay(c) \/ RecordHour(c) \/ Deliver(c) \/ ParsePanics(c)
  BY <1>5, RecordsAndDeliveries
<1>11. CASE Accepted(c) \/ Refused(c) BY <1>11, ChargesAreTries
<1>6. ASSUME NEW from \in {"sending", "errorBody"}, RetryFrom(c, from)
      PROVE  [Metered!Next]_(Metered!vars)
  BY <1>1, <1>6, MovesAreUnmetered DEF RetryFrom, Meaning
<1>7. CASE SendFails(c) \/ ErrorBodyRead(c) \/ SendTimesOut(c)
  BY <1>6, <1>7, ChargesAreTries DEF SendFails, ErrorBodyRead, SendTimesOut
<1>8. CASE BodyRead(c)
  BY <1>1, <1>8, MovesAreUnmetered DEF BodyRead, Meaning
<1>9. CASE ChainElapses(c)
  BY <1>1, <1>9, MovesAreUnmetered, ChargesAreTries DEF ChainElapses, Awaiting, Meaning
<1>10. CASE DeadlinePasses(c)
  BY <1>10 DEF DeadlinePasses, costVars, Metered!vars, Phase
<1> QED
  BY <1>2, <1>3, <1>4, <1>5, <1>7, <1>8, <1>9, <1>10, <1>11 DEF Local, Remote, Timer

\* However clients race, retry and are timed out, none asks the cloud without consent
\* and room under the cap; a call is charged for its tries at most and for none after an
\* accepted one; and what the monitor records was charged for, and is delivered or lost
\* to the parser's panic (workers_ai.rs, retry.rs, cost_monitor.rs).
THEOREM CloudImplementsMeteredService == Spec => ImplementsMeteredService
<1>1. Init => Metered!Init BY DEF Init, Metered!Init, Phase, Meaning
<1>2. TypeInv /\ [Next]_vars => [Metered!Next]_(Metered!vars)
  <2> SUFFICES ASSUME TypeInv, [Next]_vars PROVE [Metered!Next]_(Metered!vars) OBVIOUS
  <2>1. ASSUME NEW c \in Clients, Call(c) \/ Local(c) \/ Remote(c) \/ Timer(c)
        PROVE  [Metered!Next]_(Metered!vars)
    BY <2>1, ClientStepIsMetered
  <2>2. CASE ConsentChanges
    BY <2>2 DEF ConsentChanges, costVars, Phase, Metered!Next, Metered!ConsentChanges
  <2>3. CASE ResetHour BY <2>3 DEF ResetHour, Phase, Metered!Next, Metered!NewHour
  <2>4. CASE UNCHANGED vars BY <2>4 DEF vars, Phase, Metered!vars
  <2> QED BY <2>1, <2>2, <2>3, <2>4 DEF Next
<1> QED
  BY <1>1, <1>2, TypeInvHolds, PTL DEF Spec, ImplementsMeteredService, Metered!Spec
=============================================================================
