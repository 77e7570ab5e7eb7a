--------------------------- MODULE WindowsService ---------------------------
(***************************************************************************)
(* The Windows text service: key_sink.rs turns keys into changes of the    *)
(* CompositionState of state.rs, which text_store.rs shows to the text     *)
(* services manager as a document; tsf.rs begins and ends it.  The manager *)
(* is not told of changes by keys, so its ranges may be of an older text.  *)
(* Positions count from 0.                                                 *)
(***************************************************************************)
EXTENDS Integers, Sequences, SequencesExt

CONSTANTS
  Letters,   \* UTF-16 units
  Shortcut,  \* the letter of the shortcut that forces a rerank
  MaxText    \* bound: length of the document

VARIABLES
  preedit, cursor,  \* CompositionState
  force,            \* force_rerank_requested
  claimed,          \* the key OnTestKeyDown answered with TRUE, until OnKeyDown
  cookie,           \* keystroke_cookie: a key sink was advised
  sink,             \* the store's sink: an id, 0 for none
  lent,             \* the sink whose OnLockGranted is running, 0 for none
  advised,          \* history: the last sink advised and not unadvised
  meddled,          \* history: Advise or Unadvise was called from inside OnLockGranted
  view,             \* the end of the document as the manager last read it
  change            \* the TS_TEXTCHANGE the last call returned, and which call it was

winVars == <<preedit, cursor, force, claimed, cookie, sink, lent, advised, meddled, view, change>>
stateVars == <<preedit, cursor, force>>
sinkVars == <<sink, lent, advised, meddled>>

NoKeyDown == "none"
Change(by, start, oldEnd, newEnd) ==
  [by |-> by, start |-> start, oldEnd |-> oldEnd, newEnd |-> newEnd]
NoChange == Change("none", -1, -1, -1)
Modifiers == {"none", "shift", "ctrl", "ctrl+shift"}   \* "ctrl" stands for Alt and its combinations too

WinInit ==
  /\ preedit = <<>> /\ cursor = 0 /\ force = FALSE
  /\ claimed = NoKeyDown
  /\ cookie = FALSE
  /\ sink = 0 /\ lent = 0 /\ advised = 0 /\ meddled = FALSE
  /\ view = 0
  /\ change = NoChange

IsComposing == preedit # <<>>
Keys == Letters \cup {"digit", "back", "escape", "return", "space", "other"}

-----------------------------------------------------------------------------
(* tsf.rs *)

Activate ==
  /\ cookie' = TRUE
  /\ change' = NoChange
  /\ UNCHANGED <<stateVars, claimed, sinkVars, view>>

\* cancel.
Cancelled == preedit' = <<>> /\ cursor' = 0

Deactivate ==
  /\ Cancelled
  /\ change' = NoChange
  /\ UNCHANGED <<force, claimed, cookie, sinkVars, view>>

-----------------------------------------------------------------------------
(* key_sink.rs *)

\* is_force_rerank_shortcut; and keys that are left to the application.
Forces(k, held) == k = Shortcut /\ held = "ctrl+shift"
LeftToHost(k, held) == ~Forces(k, held) /\ held \in {"ctrl", "ctrl+shift"}

\* is_handled_key: not the arrows, punctuation and so on.
Handled(k) == k # "other"

\* OnTestKeyDown: the keys it claims are sent to OnKeyDown.
TestKeyDown(k, held) ==
  /\ cookie /\ claimed = NoKeyDown
  /\ \/ Forces(k, held)
     \/ ~LeftToHost(k, held) /\ Handled(k) /\ (IsComposing \/ k \in Letters)
  /\ claimed' = k
  /\ change' = NoChange
  /\ UNCHANGED <<stateVars, cookie, sinkVars, view>>

\* append_char: always at the end, wherever the cursor is.
AppendChar(c) == preedit' = Append(preedit, c) /\ cursor' = Len(preedit) + 1

Backspace ==
  IF IsComposing THEN preedit' = Front(preedit) /\ cursor' = Len(preedit) - 1
  ELSE UNCHANGED <<preedit, cursor>>

\* OnKeyDown: the text may be another than at the test, and the modifiers are
\* read again.
KeyDown(k, held) ==
  /\ claimed = k
  /\ claimed' = NoKeyDown
  /\ \/ Forces(k, held) /\ force' = TRUE /\ UNCHANGED <<preedit, cursor>>
     \/ LeftToHost(k, held) /\ UNCHANGED stateVars
     \/ /\ ~Forces(k, held) /\ ~LeftToHost(k, held)
        /\ UNCHANGED force
        /\ CASE k \in Letters -> Len(preedit) < MaxText /\ AppendChar(k)
             [] k = "back" -> Backspace
             [] k \in {"escape", "return", "space"} /\ IsComposing -> Cancelled
             [] OTHER -> UNCHANGED <<preedit, cursor>>
  /\ change' = NoChange
  /\ UNCHANGED <<cookie, sinkVars, view>>

\* take_force_rerank_request.
TakeForce ==
  /\ force
  /\ force' = FALSE
  /\ change' = NoChange
  /\ UNCHANGED <<preedit, cursor, claimed, cookie, sinkVars, view>>

-----------------------------------------------------------------------------
(* text_store.rs: the sink *)

AdviseSink(s) ==
  /\ sink' = s /\ advised' = s
  /\ meddled' = (meddled \/ lent # 0)
  /\ change' = NoChange
  /\ UNCHANGED <<stateVars, claimed, cookie, lent, view>>

UnadviseSink ==
  /\ sink' = 0 /\ advised' = 0
  /\ meddled' = (meddled \/ lent # 0)
  /\ change' = NoChange
  /\ UNCHANGED <<stateVars, claimed, cookie, lent, view>>

\* RequestLock takes the sink out and calls OnLockGranted, inside of which the
\* manager reads and edits; without a sink it does nothing.
RequestLock ==
  /\ sink # 0 /\ lent = 0
  /\ sink' = 0 /\ lent' = sink
  /\ change' = NoChange
  /\ UNCHANGED <<stateVars, claimed, cookie, advised, meddled, view>>

\* Fault: the error of OnLockGranted returns before the sink is put back.
LockReturns_EarlyError(ok) ==
  /\ lent # 0
  /\ sink' = (IF ok THEN lent ELSE sink) /\ lent' = 0
  /\ change' = NoChange
  /\ UNCHANGED <<stateVars, claimed, cookie, advised, meddled, view>>

\* OnLockGranted returns, with success or an error, and the sink is put back.
LockReturns(ok) ==
  /\ ok \in BOOLEAN
  /\ lent # 0
  /\ sink' = lent /\ lent' = 0
  /\ change' = NoChange
  /\ UNCHANGED <<stateVars, claimed, cookie, advised, meddled, view>>

-----------------------------------------------------------------------------
(* text_store.rs: the document *)

Least(a, b) == IF a < b THEN a ELSE b

\* GetText: the text from start to end, as much of it as there is room for.
GetText(start, end, room) ==
  LET from == Least(start, Len(preedit))
      to == IF end < 0 THEN Len(preedit) ELSE Least(end, Len(preedit))
      n == Least(to - from, room)
  IN [text |-> SubSeq(preedit, from + 1, from + n), next |-> from + n]

\* The manager reads the whole document: GetEndACP, GetText.
ReadDocument ==
  /\ view' = Len(GetText(0, -1, Len(preedit)).text)
  /\ change' = NoChange
  /\ UNCHANGED <<stateVars, claimed, cookie, sinkVars>>

SetSelection(end) ==
  /\ end \in 0 .. view
  /\ cursor' = end
  /\ change' = NoChange
  /\ UNCHANGED <<preedit, force, claimed, cookie, sinkVars, view>>

\* The text with the part from start to end replaced.
Spliced(start, end, new) ==
  SubSeq(preedit, 1, start) \o new \o SubSeq(preedit, end + 1, Len(preedit))

\* Fault: the end of the range is not limited to the text.
SetText_Unclamped(start, end, new) ==
  LET from == Least(start, Len(preedit))
  IN /\ 0 <= start /\ start <= end /\ end <= view
     /\ Len(preedit) + Len(new) <= MaxText
     /\ preedit' = Spliced(from, Least(end, Len(preedit)), new)
     /\ cursor' = from + Len(new)
     /\ change' = Change("set", from, end, from + Len(new))
     /\ UNCHANGED <<force, claimed, cookie, sinkVars, view>>

SetText(start, end, new) ==
  LET from == Least(start, Len(preedit))
      to == Least(end, Len(preedit))
  IN /\ 0 <= start /\ start <= end /\ end <= view
     /\ Len(preedit) + Len(new) <= MaxText
     /\ preedit' = Spliced(from, to, new)
     /\ cursor' = from + Len(new)
     /\ change' = Change("set", from, to, from + Len(new))
     /\ UNCHANGED <<force, claimed, cookie, sinkVars, view>>

\* At the cursor, or at the end if the cursor is beyond it.  With
\* TF_IAS_QUERYONLY the text stays, but the change is filled in all the same.
InsertTextAtSelection(new, queryOnly) ==
  LET at == Least(cursor, Len(preedit))
  IN /\ Len(preedit) + Len(new) <= MaxText
     /\ IF queryOnly THEN UNCHANGED <<preedit, cursor>>
        ELSE preedit' = Spliced(at, at, new) /\ cursor' = at + Len(new)
     /\ change' = Change(IF queryOnly THEN "query" ELSE "insert", at, at, at + Len(new))
     /\ UNCHANGED <<force, claimed, cookie, sinkVars, view>>

\* Embedded objects, attributes, views and geometry: nothing is supported and
\* nothing changes.
AskOther ==
  /\ change' = NoChange
  /\ UNCHANGED <<stateVars, claimed, cookie, sinkVars, view>>

Texts == {<<>>} \cup {<<c>> : c \in Letters}

WinNext ==
  \/ Activate \/ Deactivate \/ TakeForce
  \/ \E k \in Keys, held \in Modifiers : TestKeyDown(k, held) \/ KeyDown(k, held)
  \/ \E s \in {1, 2} : AdviseSink(s)
  \/ UnadviseSink \/ RequestLock
  \/ \E ok \in BOOLEAN : LockReturns(ok)
  \/ ReadDocument \/ AskOther
  \/ \E e \in 0 .. view : SetSelection(e)
  \/ \E s, e \in 0 .. view, new \in Texts : SetText(s, e, new)
  \/ \E new \in Texts, q \in BOOLEAN : InsertTextAtSelection(new, q)

-----------------------------------------------------------------------------
(* Properties *)

WinTypeOK ==
  /\ preedit \in Seq(Letters) /\ Len(preedit) <= MaxText
  /\ cursor \in 0 .. MaxText /\ view \in 0 .. MaxText
  /\ claimed \in Keys \cup {NoKeyDown}
  /\ {sink, lent, advised} \subseteq 0 .. 2
  /\ {force, cookie, meddled} \subseteq BOOLEAN

\* The change that was made: text before the start and after the old end is
\* kept, the rest is new, and the cursor is behind it.
Describes(c) ==
  /\ 0 <= c.start /\ c.start <= c.oldEnd /\ c.oldEnd <= Len(preedit)
  /\ c.start <= c.newEnd /\ c.newEnd <= Len(preedit')
  /\ SubSeq(preedit', 1, c.start) = SubSeq(preedit, 1, c.start)
  /\ SubSeq(preedit', c.newEnd + 1, Len(preedit')) = SubSeq(preedit, c.oldEnd + 1, Len(preedit))
  /\ cursor' = c.newEnd

\* The change a call reports to the manager is the change it made, however old
\* the range it was given.  A query makes none, and reports where the insertion
\* that follows it will put its text.
ChangeDescribesEdit ==
  [][/\ change'.by \in {"set", "insert"} => Describes(change')
     /\ change'.by = "query" => preedit' = preedit /\ cursor' = cursor
     /\ change.by = "query" /\ change'.by = "insert" => change'.start = change.start]_winVars

\* A sink survives every lock, also one whose callback fails: outside a lock the
\* store has the sink that was advised last, unless it was changed from inside
\* a lock.
SinkSurvivesLocks == lent = 0 /\ ~meddled => sink = advised
=============================================================================
