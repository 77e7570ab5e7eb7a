--------------------------- MODULE FrontendProofs ---------------------------
(***************************************************************************)
(* Proofs about the parts that face the user, for any ranges, delays,      *)
(* clocks and answers: what the three selection debouncers emit and when,  *)
(* the sink and the edits of the Windows text store, the screen of macOS,  *)
(* and the boundaries and the highlights of a rerank.                      *)
(* TLC checks the same formulas in the run frontend.                       *)
(***************************************************************************)
EXTENDS Frontend, DataLemmas

-----------------------------------------------------------------------------
(***************************************************************************)
(* The debouncers.  Nothing is pending in a composition; what is pending   *)
(* on macOS is what is selected and was seen last, so that a report of it  *)
(* again changes nothing; and a selection that is reported and was not     *)
(* known is pending since its report.                                      *)
(***************************************************************************)
SelectionShape ==
  /\ {last, pending, selection} \subseteq Ranges \cup {NoRange}
  /\ emission.range \in Ranges \cup {NoRange}

QuietComposition == composing => pending = NoRange /\ ~Confirmed

WatcherFollows ==
  variant = "watcher" =>
    /\ pending # NoRange => pending = selection /\ pending = last
    /\ Confirmed => emission.range = selection

ReportedIsPending ==
  report.at >= 0 /\ ~report.known => pending = selection /\ since = report.at /\ selection # NoRange

SelectionInv == SelectionShape /\ QuietComposition /\ WatcherFollows /\ ReportedIsPending

\* Initially nothing is selected or pending.
LEMMA SelectionInitially == SelInit => SelectionInv
BY DEF SelInit, SelectionInv, SelectionShape, QuietComposition, WatcherFollows, ReportedIsPending, Confirmed, NoReport

\* A poll emits what is pending, or nothing.
LEMMA PollKeepsSelectionInv ==
  ASSUME SelectionInv, Poll
  PROVE  SelectionInv'
<1> USE DEF SelectionInv, SelectionShape, QuietComposition, WatcherFollows, ReportedIsPending, Confirmed, Poll, Emit
<1>1. CASE pending # NoRange /\ now - since >= Delay
  BY <1>1 DEF Pend, LastEmitted, Answered
<1>2. CASE ~(pending # NoRange /\ now - since >= Delay)
  BY <1>2
<1> QED BY <1>1, <1>2

\* A report of the host is taken, known or put off.
LEMMA ChangeKeepsSelectionInv ==
  ASSUME SelectionInv, NEW r \in Ranges \cup {NoRange}, NEW held \in BOOLEAN,
         held => variant = "trigger", SelectionChange(r, held)
  PROVE  SelectionInv'
<1> USE DEF SelectionInv, SelectionShape, QuietComposition, WatcherFollows, ReportedIsPending, Confirmed,
            SelectionChange, Suppressed, LastSeen, EmitNothing, Emit, Pend, NoReport
<1>1. CASE composing \/ held BY <1>1
<1>2. CASE ~(composing \/ held) /\ r # NoRange /\ r = last BY <1>2
<1>3. CASE ~(composing \/ held) /\ ~(r # NoRange /\ r = last) BY <1>3
<1> QED BY <1>1, <1>2, <1>3

\* The invariant holds, for each of the three debouncers.
THEOREM SelectionInvHolds == FrontendSpec => []SelectionInv
<1>1. FrontendInit => SelectionInv BY SelectionInitially DEF FrontendInit
<1>2. SelectionInv /\ [FrontendNext]_frontendVars => SelectionInv'
  <2> SUFFICES ASSUME SelectionInv, [FrontendNext]_frontendVars PROVE SelectionInv' OBVIOUS
  <2>1. CASE SelNext
    <3> USE DEF SelectionInv, SelectionShape, QuietComposition, WatcherFollows, ReportedIsPending, Confirmed,
                EmitNothing, Emit
    <3>1. CASE Tick BY <3>1 DEF Tick
    <3>2. ASSUME NEW reported \in BOOLEAN, SetComposition(reported) PROVE SelectionInv'
      BY <3>2 DEF SetComposition, Pend, NoReport
    <3>3. CASE ForceReevaluate BY <3>3 DEF ForceReevaluate, Pend, Answered
    <3> QED BY <2>1, <3>1, <3>2, <3>3, PollKeepsSelectionInv, ChangeKeepsSelectionInv DEF SelNext
  <2>2. CASE UNCHANGED selVars
    BY <2>2 DEF selVars, SelectionInv, SelectionShape, QuietComposition, WatcherFollows, ReportedIsPending, Confirmed
  <2> QED BY <2>1, <2>2 DEF FrontendNext, frontendVars
<1> QED BY <1>1, <1>2, PTL DEF FrontendSpec

\* Until a composition ends nothing but the shortcut emits.
THEOREM CompositionsAreSilent == FrontendSpec => []SilentWhileComposing
<1>1. SelectionInv => SilentWhileComposing BY DEF SelectionInv, QuietComposition, SilentWhileComposing
<1> QED BY <1>1, SelectionInvHolds, PTL

\* On macOS what is emitted is what the user has selected at that moment.
THEOREM WatcherIsCurrent == FrontendSpec => []WatcherEmitsTheSelected
<1>1. SelectionInv => WatcherEmitsTheSelected
  BY DEF SelectionInv, SelectionShape, WatcherFollows, WatcherEmitsTheSelected, Confirmed
<1> QED BY <1>1, SelectionInvHolds, PTL

\* The first poll after a new selection was held for the delay emits it.
THEOREM HeldSelectionsAreEmitted == FrontendSpec => HeldSelectionIsEmitted
<1> DEFINE Emits == Poll /\ report.at >= 0 /\ ~report.known /\ now - report.at >= Delay
                      => emission'.range = selection
<1>1. SelectionInv => Emits
  BY NoRangeAssumption DEF SelectionInv, SelectionShape, ReportedIsPending, Poll, Emit
<1>2. SelectionInv => [Emits]_selVars BY <1>1
<1> QED BY <1>2, SelectionInvHolds, PTL DEF HeldSelectionIsEmitted

-----------------------------------------------------------------------------
(***************************************************************************)
(* The sink of the Windows text store.  While OnLockGranted runs the store *)
(* has lent the sink that was advised last; then it has it again.          *)
(***************************************************************************)
SinkInv == ~meddled => advised = IF lent = 0 THEN sink ELSE lent

\* A sink survives every lock, also one whose callback fails.
THEOREM SinksSurvive == FrontendSpec => []SinkSurvivesLocks
<1>1. FrontendInit => SinkInv BY DEF FrontendInit, WinInit, SinkInv
<1>2. SinkInv /\ [FrontendNext]_frontendVars => SinkInv'
  <2> SUFFICES ASSUME SinkInv, [FrontendNext]_frontendVars PROVE SinkInv' OBVIOUS
  <2>1. CASE UNCHANGED sinkVars BY <2>1 DEF sinkVars, SinkInv
  <2>2. CASE WinNext
    <3>1. ASSUME NEW s \in {1, 2}, AdviseSink(s) PROVE SinkInv' BY <3>1 DEF AdviseSink, SinkInv
    <3>2. CASE UnadviseSink BY <3>2 DEF UnadviseSink, SinkInv
    <3>3. CASE RequestLock BY <3>3 DEF RequestLock, SinkInv
    <3>4. ASSUME NEW ok \in BOOLEAN, LockReturns(ok) PROVE SinkInv' BY <3>4 DEF LockReturns, SinkInv
    <3>5. CASE \/ Activate \/ Deactivate \/ TakeForce
               \/ \E k \in Keys, held \in Modifiers : TestKeyDown(k, held) \/ KeyDown(k, held)
      BY <2>1, <3>5 DEF Activate, Deactivate, TakeForce, TestKeyDown, KeyDown
    <3>6. CASE \/ ReadDocument \/ AskOther
               \/ \E e \in 0 .. view : SetSelection(e)
               \/ \E s, e \in 0 .. view, new \in Texts : SetText(s, e, new)
               \/ \E new \in Texts, q \in BOOLEAN : InsertTextAtSelection(new, q)
      BY <2>1, <3>6 DEF ReadDocument, AskOther, SetSelection, SetText, InsertTextAtSelection
    <3> QED BY <2>2, <3>1, <3>2, <3>3, <3>4, <3>5, <3>6 DEF WinNext
  <2>3. CASE UNCHANGED winVars BY <2>1, <2>3 DEF winVars, sinkVars
  <2> QED BY <2>2, <2>3 DEF FrontendNext, frontendVars
<1>3. SinkInv => SinkSurvivesLocks BY DEF SinkInv, SinkSurvivesLocks
<1> QED BY <1>1, <1>2, <1>3, PTL DEF FrontendSpec

-----------------------------------------------------------------------------
(***************************************************************************)
(* Highlights.  Ids are given out once, and an animation that has ended    *)
(* plays no more.                                                          *)
(***************************************************************************)
HighlightInv ==
  /\ nextId \in Nat \ {0} /\ active \in 0 .. nextId - 1
  /\ playing \cup ended \subseteq 1 .. nextId - 1
  /\ playing \cap ended = {}
  /\ RunningHighlightIsActive

\* The highlight that runs is the one the scheduler can end, however late the
\* ends of former ones are reported.
THEOREM HighlightsAreKnown == FrontendSpec => []RunningHighlightIsActive
<1>1. FrontendInit => HighlightInv
  BY DEF FrontendInit, FeedbackInit, HighlightInv, RunningHighlightIsActive
<1>2. HighlightInv /\ [FrontendNext]_frontendVars => HighlightInv'
  <2> SUFFICES ASSUME HighlightInv, [FrontendNext]_frontendVars PROVE HighlightInv' OBVIOUS
  <2> USE DEF HighlightInv, RunningHighlightIsActive
  <2>1. CASE UNCHANGED <<active, nextId, playing, ended>> BY <2>1
  <2>2. CASE FeedbackNext
    <3>1. CASE \E n \in 0 .. MaxTokens : \E tokens \in [1 .. n -> Surfaces] : Feed(tokens)
      BY <2>1, <3>1 DEF Feed, animationVars
    <3>2. CASE Reset \/ SetReducedMotion BY <2>1, <3>2 DEF Reset, SetReducedMotion, animationVars
    <3>3. ASSUME NEW d \in Deltas, PlanForDelta(d) PROVE HighlightInv'
      <4>1. CASE Feedback(d) = "highlight" BY <3>3, <4>1 DEF PlanForDelta, StartAnimation
      <4>2. CASE Feedback(d) # "highlight" BY <2>1, <3>3, <4>2 DEF PlanForDelta
      <4> QED BY <4>1, <4>2
    <3>4. CASE CancelActive BY <3>4 DEF CancelActive
    <3>5. ASSUME NEW id \in playing, AnimationEnds(id) PROVE HighlightInv' BY <3>5 DEF AnimationEnds
    <3>6. ASSUME NEW id \in ended, Complete(id) PROVE HighlightInv' BY <3>6 DEF Complete
    <3> QED BY <2>2, <3>1, <3>2, <3>3, <3>4, <3>5, <3>6 DEF FeedbackNext
  <2>3. CASE UNCHANGED feedbackVars BY <2>1, <2>3 DEF feedbackVars, animationVars
  <2> QED BY <2>2, <2>3 DEF FrontendNext, frontendVars
<1>3. HighlightInv => RunningHighlightIsActive BY DEF HighlightInv
<1> QED BY <1>1, <1>2, <1>3, PTL DEF FrontendSpec

-----------------------------------------------------------------------------
(***************************************************************************)
(* Edits of the Windows text store.                                        *)
(***************************************************************************)

\* A concatenation has its two parts.
LEMMA CatParts ==
  ASSUME NEW S, NEW a \in Seq(S), NEW b \in Seq(S)
  PROVE  /\ a \o b \in Seq(S)
         /\ Len(a \o b) = Len(a) + Len(b)
         /\ SubSeq(a \o b, Len(a) + 1, Len(a) + Len(b)) = b
OBVIOUS

\* And a concatenation of three begins with the first.
LEMMA CatBegins ==
  ASSUME NEW S, NEW a \in Seq(S), NEW b \in Seq(S), NEW c \in Seq(S)
  PROVE  SubSeq(a \o b \o c, 1, Len(a)) = a
OBVIOUS

\* What is before and what is behind a range of a text.
LEMMA AroundRange ==
  ASSUME NEW S, NEW s \in Seq(S), NEW from \in 0 .. Len(s), NEW to \in from .. Len(s)
  PROVE  /\ SubSeq(s, 1, from) \in Seq(S) /\ Len(SubSeq(s, 1, from)) = from
         /\ SubSeq(s, to + 1, Len(s)) \in Seq(S) /\ Len(SubSeq(s, to + 1, Len(s))) = Len(s) - to
OBVIOUS

\* Splicing keeps what is before the range and what is behind it.
LEMMA SplicingKeepsTheRest ==
  ASSUME NEW S, preedit \in Seq(S), NEW new \in Seq(S),
         NEW start \in 0 .. Len(preedit), NEW end \in start .. Len(preedit),
         preedit' = Spliced(start, end, new)
  PROVE  /\ preedit' \in Seq(S)
         /\ start + Len(new) \in start .. Len(preedit')
         /\ SubSeq(preedit', 1, start) = SubSeq(preedit, 1, start)
         /\ SubSeq(preedit', start + Len(new) + 1, Len(preedit')) = SubSeq(preedit, end + 1, Len(preedit))
<1> DEFINE before == SubSeq(preedit, 1, start)
           behind == SubSeq(preedit, end + 1, Len(preedit))
<1>1. /\ before \in Seq(S) /\ Len(before) = start
      /\ behind \in Seq(S) /\ Len(behind) = Len(preedit) - end
  BY AroundRange
<1>2. preedit' = before \o new \o behind BY DEF Spliced
<1> HIDE DEF before, behind
<1>3. /\ before \o new \in Seq(S) /\ Len(before \o new) = start + Len(new)
  BY <1>1, CatParts
<1> DEFINE front == before \o new
<1>a. preedit' = front \o behind BY <1>2
<1>b. front \in Seq(S) BY <1>3
<1> HIDE DEF front
<1>c. /\ front \o behind \in Seq(S)
      /\ Len(front \o behind) = Len(front) + Len(behind)
      /\ SubSeq(front \o behind, Len(front) + 1, Len(front) + Len(behind)) = behind
  BY <1>1, <1>b, CatParts
<1>4. /\ preedit' \in Seq(S)
      /\ Len(preedit') = Len(front) + Len(behind)
      /\ SubSeq(preedit', Len(front) + 1, Len(front) + Len(behind)) = behind
  BY <1>a, <1>c, Zenon
<1>5. SubSeq(preedit', 1, start) = before
  BY <1>1, <1>2, CatBegins
<1>6. Len(front) = start + Len(new) /\ Len(new) \in Nat /\ Len(behind) \in Nat
  BY <1>1, <1>3 DEF front
<1>7. SubSeq(preedit', start + Len(new) + 1, Len(preedit')) = behind
  BY <1>4, <1>6
<1>8. start + Len(new) \in start .. Len(preedit')
  BY <1>4, <1>6
<1> QED BY <1>4, <1>5, <1>7, <1>8 DEF before, behind

\* What the manager inserts is a text.
LEMMA TextsAreTexts == ASSUME NEW new \in Texts PROVE new \in Seq(Letters)
<1>1. CASE new = <<>> BY <1>1
<1>2. ASSUME NEW c \in Letters, new = <<c>> PROVE new \in Seq(Letters) BY <1>2
<1> QED BY <1>1, <1>2 DEF Texts

\* The text is a text, nothing is before its beginning, and what a query
\* answered is still where an insertion would go.
EditInv ==
  /\ preedit \in Seq(Letters) /\ cursor \in Nat /\ view \in Nat
  /\ change.by = "query" => change.start = Least(cursor, Len(preedit))

\* What ChangeDescribesEdit says of one step.
EditDescribed ==
  /\ change'.by \in {"set", "insert"} => Describes(change')
  /\ change'.by = "query" => preedit' = preedit /\ cursor' = cursor
  /\ change.by = "query" /\ change'.by = "insert" => change'.start = change.start

\* An edit that replaces a range of the text and reports it, where an insertion
\* would go if it is one.
LEMMA EditsAreDescribed ==
  ASSUME EditInv, NEW by \in {"set", "insert"}, NEW new \in Seq(Letters),
         NEW start \in 0 .. Len(preedit), NEW end \in start .. Len(preedit),
         by = "insert" => start = Least(cursor, Len(preedit)),
         preedit' = Spliced(start, end, new),
         cursor' = start + Len(new),
         change' = Change(by, start, end, start + Len(new)),
         view' = view
  PROVE  EditInv' /\ EditDescribed
<1>1. /\ preedit' \in Seq(Letters)
      /\ start + Len(new) \in start .. Len(preedit')
      /\ SubSeq(preedit', 1, start) = SubSeq(preedit, 1, start)
      /\ SubSeq(preedit', start + Len(new) + 1, Len(preedit')) = SubSeq(preedit, end + 1, Len(preedit))
  BY SplicingKeepsTheRest DEF EditInv
<1>2. Len(preedit) \in Nat /\ Len(preedit') \in Nat /\ Len(new) \in Nat BY <1>1 DEF EditInv
<1>3. /\ change'.start = start /\ change'.oldEnd = end /\ change'.newEnd = start + Len(new)
      /\ change'.by = by
  BY DEF Change
<1>4. cursor' \in Nat BY <1>2
<1>5. Describes(change')
  <2>1. /\ 0 <= change'.start /\ change'.start <= change'.oldEnd /\ change'.oldEnd <= Len(preedit)
        /\ change'.start <= change'.newEnd /\ change'.newEnd <= Len(preedit')
    BY <1>1, <1>2, <1>3
  <2>2. SubSeq(preedit', 1, change'.start) = SubSeq(preedit, 1, change'.start)
    BY <1>1, <1>3
  <2>3. SubSeq(preedit', change'.newEnd + 1, Len(preedit'))
          = SubSeq(preedit, change'.oldEnd + 1, Len(preedit))
    BY <1>1, <1>3
  <2>4. cursor' = change'.newEnd BY <1>3
  <2> QED BY <2>1, <2>2, <2>3, <2>4 DEF Describes
<1>6. change.by = "query" /\ change'.by = "insert" => change'.start = change.start
  BY <1>3 DEF EditInv
<1> QED BY <1>1, <1>3, <1>4, <1>5, <1>6 DEF EditInv, EditDescribed

\* A call that reports no change keeps the invariant if the text stays a text.
LEMMA NothingIsDescribed ==
  ASSUME change' = NoChange, preedit' \in Seq(Letters), cursor' \in Nat, view' \in Nat
  PROVE  EditInv' /\ EditDescribed
BY DEF NoChange, Change, EditInv, EditDescribed

\* The change an edit reports is the change it made, for a document and an edit
\* of any length and however old the range it was given; and a query foretells
\* the insertion that follows it.
THEOREM ChangesDescribeEdits == FrontendSpec => ChangeDescribesEdit
<1>1. FrontendInit => EditInv
  BY DEF FrontendInit, WinInit, EditInv, NoChange, Change
<1>2. EditInv /\ [FrontendNext]_frontendVars => EditInv' /\ (EditDescribed \/ UNCHANGED winVars)
  <2> SUFFICES ASSUME EditInv, [FrontendNext]_frontendVars
               PROVE  EditInv' /\ (EditDescribed \/ UNCHANGED winVars)
    OBVIOUS
  <2>1. CASE UNCHANGED winVars BY <2>1 DEF EditInv, winVars
  <2>2. CASE WinNext
    <3>0. preedit \in Seq(Letters) /\ cursor \in Nat /\ view \in Nat BY DEF EditInv
    <3> USE DEF stateVars, sinkVars
    <3>1. CASE Activate \/ TakeForce \/ ReadDocument \/ AskOther \/ UnadviseSink \/ RequestLock
      <4>1. preedit' = preedit /\ cursor' = cursor /\ change' = NoChange
        BY <3>1 DEF Activate, TakeForce, ReadDocument, AskOther, UnadviseSink, RequestLock
      <4>2. CASE ReadDocument
        <5>1. Len(preedit) \in Nat /\ Least(0, Len(preedit)) = 0 /\ Least(Len(preedit) - 0, Len(preedit)) = Len(preedit)
          BY <3>0 DEF Least
        <5>2. GetText(0, -1, Len(preedit)).text = SubSeq(preedit, 0 + 1, 0 + Len(preedit))
          BY <5>1 DEF GetText
        <5>3. view' = Len(SubSeq(preedit, 1, Len(preedit)))
          BY <4>2, <5>1, <5>2 DEF ReadDocument
        <5>4. SubSeq(preedit, 1, Len(preedit)) = preedit BY <3>0, <5>1
        <5>5. view' \in Nat BY <5>1, <5>3, <5>4
        <5> QED BY <3>0, <4>1, <5>5, NothingIsDescribed
      <4>3. CASE view' = view BY <3>0, <4>1, <4>3, NothingIsDescribed
      <4> QED BY <3>1, <4>2, <4>3 DEF Activate, TakeForce, AskOther, UnadviseSink, RequestLock
    <3>2. CASE Deactivate
      BY <3>0, <3>2, NothingIsDescribed DEF Deactivate, Cancelled
    <3>3. ASSUME NEW k \in Keys, NEW held \in Modifiers, TestKeyDown(k, held) PROVE EditInv' /\ EditDescribed
      BY <3>0, <3>3, NothingIsDescribed DEF TestKeyDown
    <3>4. ASSUME NEW k \in Keys, NEW held \in Modifiers, KeyDown(k, held) PROVE EditInv' /\ EditDescribed
      <4>1. preedit' \in Seq(Letters) /\ cursor' \in Nat
        <5>1. CASE UNCHANGED <<preedit, cursor>> BY <3>0, <5>1
        <5>2. CASE Cancelled BY <5>2 DEF Cancelled
        <5>3. CASE k \in Letters /\ AppendChar(k) BY <3>0, <5>3 DEF AppendChar
        <5>4. CASE Backspace BY <3>0, <5>1, <5>4 DEF Backspace, IsComposing, Front
        <5> QED BY <3>4, <5>1, <5>2, <5>3, <5>4 DEF KeyDown
      <4> QED BY <3>0, <3>4, <4>1, NothingIsDescribed DEF KeyDown
    <3>5. ASSUME NEW s \in {1, 2}, AdviseSink(s) PROVE EditInv' /\ EditDescribed
      BY <3>0, <3>5, NothingIsDescribed DEF AdviseSink
    <3>6. ASSUME NEW ok \in BOOLEAN, LockReturns(ok) PROVE EditInv' /\ EditDescribed
      BY <3>0, <3>6, NothingIsDescribed DEF LockReturns
    <3>7. ASSUME NEW e \in 0 .. view, SetSelection(e) PROVE EditInv' /\ EditDescribed
      BY <3>0, <3>7, NothingIsDescribed DEF SetSelection
    <3>8. ASSUME NEW s \in 0 .. view, NEW e \in 0 .. view, NEW new \in Texts, SetText(s, e, new)
          PROVE  EditInv' /\ EditDescribed
      <4> DEFINE from == Least(s, Len(preedit))
                 to == Least(e, Len(preedit))
      <4>1. from \in 0 .. Len(preedit) /\ to \in from .. Len(preedit) BY <3>0, <3>8 DEF SetText, Least
      <4>2. new \in Seq(Letters) BY TextsAreTexts
      <4>3. /\ preedit' = Spliced(from, to, new) /\ cursor' = from + Len(new)
            /\ change' = Change("set", from, to, from + Len(new))
            /\ view' = view
        BY <3>8 DEF SetText
      <4> HIDE DEF from, to
      <4> QED BY <4>1, <4>2, <4>3, EditsAreDescribed
    <3>9. ASSUME NEW new \in Texts, NEW q \in BOOLEAN, InsertTextAtSelection(new, q)
          PROVE  EditInv' /\ EditDescribed
      <4> DEFINE at == Least(cursor, Len(preedit))
      <4>1. at \in 0 .. Len(preedit) /\ at \in at .. Len(preedit) BY <3>0 DEF Least
      <4>2. new \in Seq(Letters) BY TextsAreTexts
      <4>3. view' = view BY <3>9 DEF InsertTextAtSelection
      <4>4. CASE q
        <5>1. /\ preedit' = preedit /\ cursor' = cursor
              /\ change' = Change("query", at, at, at + Len(new))
          BY <3>9, <4>4 DEF InsertTextAtSelection
        <5>2. change'.by = "query" /\ change'.start = Least(cursor, Len(preedit))
          BY <5>1 DEF Change
        <5> QED BY <3>0, <4>3, <5>1, <5>2 DEF EditInv, EditDescribed
      <4>5. CASE ~q
        <5>1. /\ preedit' = Spliced(at, at, new) /\ cursor' = at + Len(new)
              /\ change' = Change("insert", at, at, at + Len(new))
          BY <3>9, <4>5 DEF InsertTextAtSelection
        <5>2. at = Least(cursor, Len(preedit)) OBVIOUS
        <5> HIDE DEF at
        <5> QED BY <4>1, <4>2, <4>3, <5>1, <5>2, EditsAreDescribed
      <4> QED BY <4>4, <4>5
    <3> QED BY <2>2, <3>1, <3>2, <3>3, <3>4, <3>5, <3>6, <3>7, <3>8, <3>9 DEF WinNext
  <2> QED BY <2>1, <2>2 DEF FrontendNext, frontendVars
<1>3. EditDescribed \/ UNCHANGED winVars
        => [/\ change'.by \in {"set", "insert"} => Describes(change')
            /\ change'.by = "query" => preedit' = preedit /\ cursor' = cursor
            /\ change.by = "query" /\ change'.by = "insert" => change'.start = change.start]_winVars
  BY Zenon DEF EditDescribed
<1> QED BY <1>1, <1>2, <1>3, PTL DEF FrontendSpec, ChangeDescribesEdit
-----------------------------------------------------------------------------
(***************************************************************************)
(* The screen of macOS.  A controller that is inactive has no session and  *)
(* shows nothing, so that it is right when it becomes active without one.  *)
(***************************************************************************)
ScreenShape ==
  /\ DOMAIN controller = Addresses
  /\ DOMAIN marked = Addresses
  /\ DOMAIN panel = Addresses
  /\ DOMAIN drawn = Addresses

InactiveShowsNothing ==
  \A a \in Addresses :
    controller[a] = "inactive" => ~Known(a) /\ marked[a] = <<>> /\ panel[a] = <<>>

\* What ScreenShowsSession says of one controller, of its marked text and of its
\* panel.
MarkedStands(text, session) == StandsFor(text, session.preedit, TextBuffer)
PanelStands(shown, session) ==
  /\ DOMAIN shown = DOMAIN session.candidates
  /\ \A i \in DOMAIN shown : StandsFor(shown[i], session.candidates[i], CandidateBuffer)
IsShown(a) ==
  Active(a) =>
    /\ MarkedStands(marked[a], Session(a)) \/ (drawn[a] # "whole" /\ Session(a) = Empty)
    /\ drawn[a] # "raised" => PanelStands(panel[a], Session(a))

ScreenInv ==
  /\ ScreenShape
  /\ InactiveShowsNothing
  /\ \A a \in Addresses : IsShown(a)

\* Nothing stands for an empty session, whatever the buffers.
LEMMA NothingStandsForEmpty == MarkedStands(<<>>, Empty) /\ PanelStands(<<>>, Empty)
BY DEF MarkedStands, PanelStands, StandsFor, Empty

\* What is read out of a buffer stands for what was written there.
LEMMA ReadStandsFor ==
  ASSUME NEW text, NEW size \in Nat \ {0}, NEW read \in Read(text, size)
  PROVE  StandsFor(read, text, size)
<1>1. CASE ByteLength(text) < size BY <1>1 DEF Read, StandsFor
<1>2. CASE ~(ByteLength(text) < size)
  <2>1. PICK n \in 0 .. Len(text) : read = SubSeq(text, 1, n) /\ ByteLength(read) = size - 1
    BY <1>2 DEF Read
  <2>2. ByteLength(read) < size BY <2>1
  <2>3. CASE n = 0
    <3>1. SubSeq(text, 1, 0) = <<>> OBVIOUS
    <3> QED BY <1>2, <2>1, <2>3, <3>1 DEF StandsFor
  <2>4. CASE n # 0
    <3>1. n \in 1 .. Len(text) BY <2>4
    <3> QED BY <1>2, <2>1, <2>2, <3>1 DEF StandsFor
  <2> QED BY <2>3, <2>4
<1> QED BY <1>1, <1>2

\* What a callback draws stands for its session.
LEMMA DrawnStands ==
  ASSUME NEW s
  PROVE  /\ MarkedStands(Marked(s), s)
         /\ ~Raises(s) => PanelStands(Shown(s), s)
<1>1. MarkedStands(Marked(s), s)
  <2>1. CASE Read(s.preedit, TextBuffer) = {}
    <3>1. Marked(s) = <<>> BY <2>1 DEF Marked
    <3>2. ~(ByteLength(s.preedit) < TextBuffer) BY <2>1 DEF Read
    <3> QED BY <3>1, <3>2 DEF MarkedStands, StandsFor
  <2>2. CASE Read(s.preedit, TextBuffer) # {}
    <3>1. Marked(s) \in Read(s.preedit, TextBuffer) BY <2>2 DEF Marked, Only
    <3> QED BY <3>1, ReadStandsFor, BuffersAssumption DEF MarkedStands
  <2> QED BY <2>1, <2>2
<1>2. ASSUME ~Raises(s) PROVE PanelStands(Shown(s), s)
  <2>1. DOMAIN Shown(s) = DOMAIN s.candidates BY DEF Shown
  <2>2. ASSUME NEW i \in DOMAIN s.candidates
        PROVE  StandsFor(Shown(s)[i], s.candidates[i], CandidateBuffer)
    <3>1. Read(s.candidates[i], CandidateBuffer) # {} BY <1>2 DEF Raises
    <3>2. Shown(s)[i] = Only(Read(s.candidates[i], CandidateBuffer)) BY DEF Shown
    <3>3. Shown(s)[i] \in Read(s.candidates[i], CandidateBuffer) BY <3>1, <3>2 DEF Only
    <3> QED BY <3>3, ReadStandsFor, BuffersAssumption
  <2> QED BY <2>1, <2>2 DEF PanelStands
<1> QED BY <1>1, <1>2

\* What the three operations on the registry do to the sessions.
LEMMA SetSession ==
  ASSUME NEW a, NEW s, WithSession(a, s), NEW b
  PROVE  /\ Known(b)' <=> Known(b)
         /\ Session(b)' = IF b # a THEN Session(b) ELSE IF Known(a) THEN s ELSE Empty
BY DEF WithSession, Session, Known

LEMMA SessionBegun ==
  ASSUME NEW a, BeginSession(a), NEW b
  PROVE  /\ b # a => (Known(b)' <=> Known(b))
         /\ Session(b)' = IF b # a THEN Session(b) ELSE Empty
BY DEF BeginSession, Session, Known

LEMMA SessionEnded ==
  ASSUME NEW a, EndSession(a), NEW b
  PROVE  /\ Known(b)' <=> Known(b) /\ b # a
         /\ Session(b)' = IF b # a THEN Session(b) ELSE Empty
BY DEF EndSession, Session, Known

\* A callback of one controller that leaves what it shows right leaves the
\* screen right: the others keep their session and what they show.
LEMMA OneControllerMoves ==
  ASSUME ScreenInv, NEW a \in Addresses, ScreenShape',
         \A b \in Addresses \ {a} :
           /\ controller'[b] = controller[b] /\ marked'[b] = marked[b]
           /\ panel'[b] = panel[b] /\ drawn'[b] = drawn[b]
           /\ (Known(b)' <=> Known(b)) /\ Session(b)' = Session(b),
         controller'[a] = "inactive" => ~Known(a)' /\ marked'[a] = <<>> /\ panel'[a] = <<>>,
         IsShown(a)'
  PROVE  ScreenInv'
<1>1. ASSUME NEW b \in Addresses PROVE IsShown(b)'
  <2>1. CASE b # a
    BY <2>1 DEF ScreenInv, IsShown, Active, MarkedStands, PanelStands, StandsFor
  <2> QED BY <2>1
<1>2. InactiveShowsNothing'
  BY DEF ScreenInv, InactiveShowsNothing
<1> QED BY <1>1, <1>2 DEF ScreenInv

\* Through every order of keys, commits, deactivations and reuse of an address,
\* for any buffers and index, the screen shows the session.
THEOREM ScreensShowSessions == FrontendSpec => []ScreenShowsSession
<1>1. FrontendInit => ScreenInv
  BY DEF FrontendInit, MacInit, ScreenInv, ScreenShape, InactiveShowsNothing, IsShown, Active
<1>2. ScreenInv /\ [FrontendNext]_frontendVars => ScreenInv'
  <2> SUFFICES ASSUME ScreenInv, [FrontendNext]_frontendVars PROVE ScreenInv' OBVIOUS
  <2>1. CASE UNCHANGED macVars
    BY <2>1 DEF macVars, ScreenInv, ScreenShape, InactiveShowsNothing, IsShown, Active, Session, Known,
                MarkedStands, PanelStands, StandsFor
  <2>2. CASE MacNext
    <3>1. PICK a \in Addresses :
            \/ CreateController(a) \/ DeactivateServer(a) \/ ActivateServer(a) \/ Dealloc(a)
            \/ \E c \in Chars : InputChar(a, c)
            \/ InputControl(a) \/ InputDelete(a) \/ InputEscape(a)
            \/ InputReturn(a)
            \/ CandidateSelected(a)
      BY <2>2 DEF MacNext
    <3>2. ScreenShape /\ InactiveShowsNothing /\ IsShown(a) BY DEF ScreenInv
    <3>3. CASE CreateController(a)
      BY <3>2, <3>3, SessionBegun, NothingStandsForEmpty, OneControllerMoves
      DEF CreateController, ScreenShape, IsShown
    <3>4. CASE DeactivateServer(a)
      BY <3>2, <3>4, SessionEnded, NothingStandsForEmpty, OneControllerMoves
      DEF DeactivateServer, ScreenShape, IsShown
    <3>5. CASE ActivateServer(a) \/ Dealloc(a)
      <4>1. \A b : (Known(b)' <=> Known(b)) /\ Session(b)' = Session(b)
        BY <3>5 DEF ActivateServer, Dealloc, Known, Session
      <4>2. ScreenShape' BY <3>2, <3>5 DEF ActivateServer, Dealloc, ScreenShape
      <4>3. CASE ActivateServer(a)
        <5>1. Session(a) = Empty BY <3>2, <4>3 DEF ActivateServer, InactiveShowsNothing, Session
        <5>2. IsShown(a)'
          BY <3>2, <4>1, <4>3, <5>1, NothingStandsForEmpty DEF ActivateServer, InactiveShowsNothing, IsShown
        <5> QED BY <3>2, <4>1, <4>2, <4>3, <5>2, OneControllerMoves DEF ActivateServer, ScreenShape
      <4>4. CASE Dealloc(a)
        <5>1. IsShown(a)' BY <3>2, <4>4 DEF Dealloc, ScreenShape, IsShown, Active
        <5> QED BY <3>2, <4>1, <4>2, <4>4, <5>1, OneControllerMoves DEF Dealloc, ScreenShape
      <4> QED BY <3>5, <4>3, <4>4
    <3>6. ASSUME NEW s, Consume(a, s) PROVE ScreenInv'
      <4> DEFINE t == IF Known(a) THEN s ELSE Empty
      <4>1. \A b : (Known(b)' <=> Known(b)) /\ Session(b)' = IF b # a THEN Session(b) ELSE t
        BY <3>6, SetSession DEF Consume
      <4>2. /\ controller' = controller /\ controller[a] = "active"
            /\ marked' = [marked EXCEPT ![a] = Marked(t)]
            /\ panel' = IF Raises(t) THEN panel ELSE [panel EXCEPT ![a] = Shown(t)]
            /\ drawn' = [drawn EXCEPT ![a] = IF Raises(t) THEN "raised" ELSE "whole"]
        BY <3>6 DEF Consume, Redraw, Active
      <4> HIDE DEF t
      <4>3. ScreenShape' BY <3>2, <4>2 DEF ScreenShape
      <4>4. Session(a)' = t BY <4>1
      <4>5. MarkedStands(Marked(t), t) /\ (~Raises(t) => PanelStands(Shown(t), t)) BY DrawnStands
      <4>6. MarkedStands(marked[a], Session(a))' BY <3>2, <4>2, <4>4, <4>5 DEF ScreenShape, MarkedStands
      <4>7. drawn'[a] # "raised" => PanelStands(panel[a], Session(a))'
        BY <3>2, <4>2, <4>4, <4>5 DEF ScreenShape, PanelStands
      <4>8. IsShown(a)' BY <4>6, <4>7 DEF IsShown, MarkedStands, PanelStands
      <4> QED BY <3>2, <4>1, <4>2, <4>3, <4>8, OneControllerMoves DEF ScreenShape
    <3>7. CASE (\E c \in Chars : InputChar(a, c)) \/ InputControl(a) \/ InputDelete(a) \/ InputEscape(a)
      BY <3>6, <3>7 DEF InputChar, InputControl, InputDelete, InputEscape
    <3>8. ASSUME NEW how, WithSession(a, Empty), controller' = controller, controller[a] = "active",
                 panel' \in {panel, [panel EXCEPT ![a] = <<>>]},
                 marked' \in {marked, [marked EXCEPT ![a] = <<>>]},
                 drawn' = [drawn EXCEPT ![a] = how],
                 how # "raised" => panel' = [panel EXCEPT ![a] = <<>>],
                 how = "whole" => marked' = [marked EXCEPT ![a] = <<>>]
          PROVE  ScreenInv'
      <4>1. \A b : (Known(b)' <=> Known(b)) /\ Session(b)' = IF b # a THEN Session(b) ELSE Empty
        BY <3>8, SetSession
      <4>2. ScreenShape' BY <3>2, <3>8 DEF ScreenShape
      <4>3. Session(a)' = Empty /\ drawn'[a] = how BY <3>2, <3>8, <4>1 DEF ScreenShape
      <4>4. IsShown(a)'
        <5>1. how # "whole" \/ marked'[a] = <<>> BY <3>2, <3>8 DEF ScreenShape
        <5>2. how # "raised" => panel'[a] = <<>> BY <3>2, <3>8 DEF ScreenShape
        <5>3. MarkedStands(marked[a], Session(a))' \/ how # "whole"
          BY <4>3, <5>1, NothingStandsForEmpty DEF MarkedStands
        <5>4. how # "raised" => PanelStands(panel[a], Session(a))'
          BY <4>3, <5>2, NothingStandsForEmpty DEF PanelStands
        <5> QED BY <4>3, <5>3, <5>4 DEF IsShown
      <4>5. \A b \in Addresses \ {a} :
              marked'[b] = marked[b] /\ panel'[b] = panel[b] /\ drawn'[b] = drawn[b]
        BY <3>2, <3>8 DEF ScreenShape
      <4> QED BY <3>8, <4>1, <4>2, <4>4, <4>5, OneControllerMoves
    <3>9. CASE InputReturn(a)
      <4>1. CASE Session(a).preedit = <<>>
        <5>1. UNCHANGED <<registry, controller, marked, panel, drawn>>
          BY <3>9, <4>1 DEF InputReturn
        <5> QED
          BY <5>1 DEF ScreenInv, ScreenShape, InactiveShowsNothing, IsShown, Active, Session, Known,
                      MarkedStands, PanelStands, StandsFor
      <4>2. CASE Session(a).preedit # <<>>
        <5>1. WithSession(a, Empty) /\ controller' = controller /\ controller[a] = "active"
          BY <3>9, <4>2 DEF InputReturn, Active
        <5>2. \/ /\ marked' = [marked EXCEPT ![a] = <<>>] /\ panel' = [panel EXCEPT ![a] = <<>>]
                 /\ drawn' = [drawn EXCEPT ![a] = "whole"]
              \/ drawn' = [drawn EXCEPT ![a] = "raised"] /\ UNCHANGED <<marked, panel>>
          BY <3>9, <4>2 DEF InputReturn
        <5> QED BY <3>8, <5>1, <5>2
      <4> QED BY <4>1, <4>2
    <3>10. CASE CandidateSelected(a)
      BY <3>8, <3>10 DEF CandidateSelected, Active
    <3> QED BY <3>1, <3>3, <3>4, <3>5, <3>7, <3>9, <3>10
  <2> QED BY <2>1, <2>2 DEF FrontendNext, frontendVars
<1>3. ScreenInv => ScreenShowsSession
  BY DEF ScreenInv, IsShown, MarkedStands, PanelStands, ScreenShowsSession
<1> QED BY <1>1, <1>2, <1>3, PTL DEF FrontendSpec

-----------------------------------------------------------------------------
(***************************************************************************)
(* The boundaries.  Positions are sums of lengths: they grow from token to *)
(* token, and depend on the tokens before only.  So news of a later token  *)
(* never overwrites that of an earlier one, and what a new tokenization    *)
(* shares with the last one needs no news.                                 *)
(***************************************************************************)
DetectorInv == prevTokens \in Seq(Surfaces) /\ HostKnowsBoundaries

\* What is confirmed of some tokens are tokens.
LEMMA ConfirmedAreTokens ==
  ASSUME NEW tokens \in Seq(Surfaces)
  PROVE  ConfirmedTokens(tokens) \in Seq(Surfaces)
BY DEF ConfirmedTokens, Front

\* A later token starts later.
LEMMA StartsGrow ==
  ASSUME NEW tokens \in Seq(Surfaces), NEW i \in DOMAIN tokens, NEW j \in DOMAIN tokens, i < j
  PROVE  Start(tokens, i) < Start(tokens, j)
<1> DEFINE f == [k \in DOMAIN tokens |-> Len(tokens[k])]
           A == 1 .. i - 1
           B == i .. j - 1
           C == B \ {i}
<1>1. \A k \in DOMAIN tokens : f[k] \in Nat /\ f[k] > 0 BY SurfacesAssumption
<1>2. /\ A \subseteq DOMAIN tokens /\ B \subseteq DOMAIN tokens /\ A \cap B = {} /\ i \in B
      /\ A \cup B = 1 .. j - 1
  OBVIOUS
<1>3. IsFiniteSet(A) /\ IsFiniteSet(B) /\ IsFiniteSet(C)
  <2>1. IsFiniteSet(A) /\ IsFiniteSet(B)
    <3>1. i \in Int /\ i - 1 \in Int /\ j - 1 \in Int /\ 1 \in Int OBVIOUS
    <3> QED BY <3>1, FS_Interval
  <2> QED BY <2>1, FS_RemoveElement
<1>4. Start(tokens, i) = SumFunctionOnSet(f, A) /\ Start(tokens, j) = SumFunctionOnSet(f, A \cup B)
  BY <1>2 DEF Start
<1> HIDE DEF f, A, B
<1>5. SumFunctionOnSet(f, A \cup B) = SumFunctionOnSet(f, A) + SumFunctionOnSet(f, B)
  BY <1>1, <1>2, <1>3, SumOfUnion
<1>6. SumFunctionOnSet(f, B) = f[i] + SumFunctionOnSet(f, C)
  BY <1>1, <1>2, <1>3, SumTakesOut
<1>7. SumFunctionOnSet(f, A) \in Nat BY <1>1, <1>2, <1>3, SumIsNat
<1>8. SumFunctionOnSet(f, C) \in Nat BY <1>1, <1>2, <1>3, SumIsNat
<1> QED BY <1>1, <1>4, <1>5, <1>6, <1>7, <1>8

\* Tokens start where they started after the same tokens.
LEMMA SameStarts ==
  ASSUME NEW a \in Seq(Surfaces), NEW b \in Seq(Surfaces), NEW n \in Nat,
         n <= Len(a), n <= Len(b), \A j \in 1 .. n : a[j] = b[j], NEW i \in 1 .. n
  PROVE  Start(a, i) = Start(b, i)
<1> DEFINE f == [k \in DOMAIN a |-> Len(a[k])]
           g == [k \in DOMAIN b |-> Len(b[k])]
           A == 1 .. i - 1
<1>1. \A k \in A : f[k] \in Int /\ g[k] = f[k] BY SurfacesAssumption
<1>2. IsFiniteSet(A) BY FS_Interval
<1> HIDE DEF f, g, A
<1>3. SumFunctionOnSet(f, A) = SumFunctionOnSet(g, A) BY <1>1, <1>2, SumOfSame
<1> QED BY <1>3 DEF Start, f, g, A

\* The common prefix is one.
LEMMA PrefixIsCommon ==
  ASSUME NEW a \in Seq(Surfaces), NEW b \in Seq(Surfaces)
  PROVE  LET n == CommonPrefix(a, b)
         IN n \in Nat /\ n <= Len(a) /\ n <= Len(b) /\ \A j \in 1 .. n : a[j] = b[j]
<1> DEFINE m == Min({Len(a), Len(b)})
           P == {n \in 0 .. m : \A j \in 1 .. n : a[j] = b[j]}
           T == {m - n : n \in P}
<1>1. m \in Nat /\ m <= Len(a) /\ m <= Len(b) BY DEF Min
<1> HIDE DEF m
<1>2. 0 \in P BY <1>1
<1>3. T \in SUBSET Nat /\ T # {}
  <2>1. \A k \in P : k \in Int /\ 0 <= k /\ k <= m BY <1>1
  <2>2. \A k \in P : m - k \in Nat BY <1>1, <2>1
  <2> QED BY <1>2, <2>2
<1>4. PICK t \in T : \A u \in T : t <= u BY <1>3, LeastOf
<1>5. \E x \in P : \A y \in P : x >= y
  <2>1. PICK x \in P : t = m - x BY <1>4
  <2>2. ASSUME NEW y \in P PROVE x >= y
    <3>1. m - y \in T /\ t <= m - y BY <1>4
    <3> QED BY <1>1, <2>1, <3>1
  <2> QED BY <2>2
<1>6. CommonPrefix(a, b) \in P BY <1>5 DEF CommonPrefix, Max, m
<1> QED BY <1>1, <1>6

\* What is announced is known, and what is not starts elsewhere.
LEMMA FeedTells ==
  ASSUME DetectorInv, NEW tokens \in Seq(Surfaces), Feed(tokens)
  PROVE  DetectorInv'
<1> DEFINE a == ConfirmedTokens(prevTokens)
           b == ConfirmedTokens(tokens)
           n == CommonPrefix(a, b)
           news == {i \in DOMAIN b : i > n}
           starts == {Start(b, i) : i \in news}
<1>1. a \in Seq(Surfaces) /\ b \in Seq(Surfaces) BY ConfirmedAreTokens DEF DetectorInv
<1>2. n \in Nat /\ n <= Len(a) /\ n <= Len(b) /\ \A j \in 1 .. n : a[j] = b[j]
  BY <1>1, PrefixIsCommon
<1>3. /\ prevTokens' = tokens
      /\ told' = [p \in DOMAIN told \cup starts |->
                    IF p \in starts THEN b[CHOOSE i \in news : Start(b, i) = p] ELSE told[p]]
  BY DEF Feed, Announce
<1>4. \A i \in DOMAIN a : Start(a, i) \in DOMAIN told /\ told[Start(a, i)] = a[i]
  BY DEF DetectorInv, HostKnowsBoundaries
<1> HIDE DEF a, n
<1>5. \A i, j \in DOMAIN b : Start(b, i) = Start(b, j) => i = j
  <2> HIDE DEF b
  <2> SUFFICES ASSUME NEW i \in DOMAIN b, NEW j \in DOMAIN b, Start(b, i) = Start(b, j), i < j
               PROVE  FALSE
    BY <1>1
  <2>1. Start(b, i) < Start(b, j) BY <1>1, StartsGrow
  <2>2. Start(b, i) \in Nat
    <3> DEFINE f == [k \in DOMAIN b |-> Len(b[k])]
    <3>1. IsFiniteSet(1 .. i - 1) BY <1>1, FS_Interval
    <3>2. \A k \in 1 .. i - 1 : f[k] \in Nat BY <1>1, SurfacesAssumption
    <3> HIDE DEF f
    <3>3. SumFunctionOnSet(f, 1 .. i - 1) \in Nat BY <3>1, <3>2, SumIsNat
    <3> QED BY <3>3 DEF Start, f
  <2> QED BY <2>1, <2>2
<1>6. ASSUME NEW i \in DOMAIN b PROVE Start(b, i) \in DOMAIN told' /\ told'[Start(b, i)] = b[i]
  <2> HIDE DEF b
  <2>1. CASE i > n
    <3>1. i \in news /\ Start(b, i) \in starts BY <2>1
    <3>2. (CHOOSE k \in news : Start(b, k) = Start(b, i)) = i BY <1>5, <3>1
    <3> QED BY <1>3, <3>1, <3>2
  <2>2. CASE ~(i > n)
    <3>1. i \in 1 .. n /\ i \in DOMAIN a BY <1>1, <1>2, <2>2
    <3>2. Start(b, i) = Start(a, i) /\ a[i] = b[i] BY <1>1, <1>2, <3>1, SameStarts
    <3>3. Start(b, i) \notin starts BY <1>5, <2>2
    <3> QED BY <1>3, <1>4, <3>1, <3>2, <3>3
  <2> QED BY <2>1, <2>2
<1>7. ConfirmedTokens(prevTokens)' = b BY <1>3 DEF ConfirmedTokens
<1>8. HostKnowsBoundaries' BY <1>6, <1>7 DEF HostKnowsBoundaries, Start
<1> QED BY <1>3, <1>8 DEF DetectorInv

\* What a reset forgets will be announced again; the rest leaves both sides alone.
THEOREM BoundariesAreKnown == FrontendSpec => []HostKnowsBoundaries
<1>1. FrontendInit => DetectorInv
  BY DEF FrontendInit, FeedbackInit, DetectorInv, HostKnowsBoundaries, ConfirmedTokens
<1>2. DetectorInv /\ [FrontendNext]_frontendVars => DetectorInv'
  <2> SUFFICES ASSUME DetectorInv, [FrontendNext]_frontendVars PROVE DetectorInv' OBVIOUS
  <2>1. ASSUME NEW n \in 0 .. MaxTokens, NEW tokens \in [1 .. n -> Surfaces], Feed(tokens) PROVE DetectorInv'
    <3>1. tokens \in Seq(Surfaces) OBVIOUS
    <3> QED BY <2>1, <3>1, FeedTells
  <2>2. ASSUME Reset PROVE DetectorInv'
    BY <2>2 DEF Reset, DetectorInv, HostKnowsBoundaries, ConfirmedTokens
  <2>3. ASSUME UNCHANGED detectorVars PROVE DetectorInv'
    <3>1. prevTokens' = prevTokens /\ told' = told BY <2>3 DEF detectorVars
    <3> QED BY <3>1 DEF DetectorInv, HostKnowsBoundaries, ConfirmedTokens, Start
  <2>4. ASSUME FeedbackNext PROVE DetectorInv'
    BY <2>1, <2>2, <2>3, <2>4
    DEF FeedbackNext, PlanForDelta, SetReducedMotion, CancelActive, AnimationEnds, Complete
  <2> QED BY <2>3, <2>4 DEF FrontendNext, frontendVars, feedbackVars
<1>3. DetectorInv => HostKnowsBoundaries BY DEF DetectorInv
<1> QED BY <1>1, <1>2, <1>3, PTL DEF FrontendSpec
=============================================================================
