----------------------------- MODULE MacSession -----------------------------
(***************************************************************************)
(* The macOS input method: LlmimeIMController.m keeps no text of its own   *)
(* and calls the C functions of crates/llmime-imk/src/ffi.rs, which work   *)
(* on the registry of sessions of session.rs.  A controller's address is   *)
(* its session's id.  Every callback runs to its end on the main thread.   *)
(***************************************************************************)
EXTENDS Integers, Sequences, SequencesExt

CONSTANTS
  Addresses,      \* of controller objects
  Chars,          \* printable characters
  Bytes,          \* their lengths in UTF-8
  Index,          \* the reading index: [reading |-> sequence of [surface, cost]]
  MaxCandidates,  \* candidates kept of a lookup
  CandidateBuffer, TextBuffer,  \* the controller's buffers, in bytes
  MaxPreedit      \* bound: typed characters

ASSUME BytesAssumption == Bytes \in [Chars -> Nat \ {0}]
ASSUME BuffersAssumption ==
  CandidateBuffer \in Nat \ {0} /\ TextBuffer \in Nat \ {0} /\ MaxCandidates \in Nat \ {0}

VARIABLES
  registry,    \* sessions by id
  controller,  \* per address: "absent", "active", "inactive"
  marked,      \* per address: the marked text in the client
  panel,       \* per address: candidates shown, empty when hidden
  drawn,       \* per address: how the last callback that drew ended: "whole",
               \* "raised" by an exception, or "alone", the client being gone
  key          \* what the last key was answered, and whether a session took it

macVars == <<registry, controller, marked, panel, drawn, key>>

Empty == [preedit |-> <<>>, candidates |-> <<>>]
NoKey == [consumed |-> FALSE, taken |-> FALSE]

MacInit ==
  /\ registry = [id \in {} |-> Empty]
  /\ controller = [a \in Addresses |-> "absent"]
  /\ marked = [a \in Addresses |-> <<>>]
  /\ panel = [a \in Addresses |-> <<>>]
  /\ drawn = [a \in Addresses |-> "whole"]
  /\ key = NoKey

Known(a) == a \in DOMAIN registry

\* with_session: the session of an id, or nothing.
Session(a) == IF Known(a) THEN registry[a] ELSE Empty
WithSession(a, s) == registry' = IF Known(a) THEN [registry EXCEPT ![a] = s] ELSE registry

\* session_begin replaces a session of the same id; session_end forgets it.
BeginSession(a) == registry' = [id \in DOMAIN registry \cup {a} |-> IF id = a THEN Empty ELSE registry[id]]
EndSession(a) == registry' = [id \in DOMAIN registry \ {a} |-> registry[id]]

\* reading_index: without an index no reading has an entry.
Lookup(preedit) == IF preedit \in DOMAIN Index THEN Index[preedit] ELSE <<>>

\* refresh_candidates: the cheapest entries of the reading, or the reading itself.
Candidates(preedit) ==
  LET entries == Lookup(preedit)
      Cheaper(i, j) == \/ entries[i].cost < entries[j].cost
                       \/ entries[i].cost = entries[j].cost /\ i < j
      order == SetToSortSeq(DOMAIN entries, Cheaper)
  IN CASE preedit = <<>> -> <<>>
       [] preedit # <<>> /\ entries = <<>> -> <<preedit>>
       [] OTHER -> [i \in 1 .. Min({MaxCandidates, Len(order)}) |-> entries[order[i]].surface]

With(preedit) == [preedit |-> preedit, candidates |-> Candidates(preedit)]

\* push_char and pop_char.
Pushed(s, c) == With(Append(s.preedit, c))
Popped(s) == With(IF s.preedit = <<>> THEN <<>> ELSE Front(s.preedit))

ByteLength(text) == FoldLeft(LAMBDA n, c : n + Bytes[c], 0, text)

\* Fault: a character that was cut is read as a replacement character.
Read_Lossy(text, size) ==
  IF ByteLength(text) < size THEN {text}
  ELSE LET fits == {n \in 0 .. Len(text) : ByteLength(SubSeq(text, 1, n)) <= size - 1}
       IN {Append(SubSeq(text, 1, Max(fits)), "replacement")}

\* What the controller reads of a text out of a buffer, which ffi.rs cut at a
\* byte: nothing when the cut lies inside a character, for stringWithUTF8String
\* then returns nil.
Read(text, size) ==
  IF ByteLength(text) < size THEN {text}
  ELSE {SubSeq(text, 1, n) : n \in
          {n \in 0 .. Len(text) : ByteLength(SubSeq(text, 1, n)) = size - 1}}

Only(texts) == CHOOSE text \in texts : TRUE

\* updatePreedit: the marked text for a session.
Marked(s) == LET read == Read(s.preedit, TextBuffer) IN IF read = {} THEN <<>> ELSE Only(read)

\* candidates:, which adds nil to an array and raises when one was not read.
Shown(s) == [i \in DOMAIN s.candidates |-> Only(Read(s.candidates[i], CandidateBuffer))]
Raises(s) == \E i \in DOMAIN s.candidates : Read(s.candidates[i], CandidateBuffer) = {}

\* updatePreedit and then updateCandidateWindow.
Redraw(a, s) ==
  /\ marked' = [marked EXCEPT ![a] = Marked(s)]
  /\ panel' = IF Raises(s) THEN panel ELSE [panel EXCEPT ![a] = Shown(s)]
  /\ drawn' = [drawn EXCEPT ![a] = IF Raises(s) THEN "raised" ELSE "whole"]

-----------------------------------------------------------------------------
\* initWithServer, which begins the session; a session that an object at this
\* address left behind is replaced.
CreateController(a) ==
  /\ controller[a] = "absent"
  /\ controller' = [controller EXCEPT ![a] = "active"]
  /\ BeginSession(a)
  /\ marked' = [marked EXCEPT ![a] = <<>>]
  /\ panel' = [panel EXCEPT ![a] = <<>>]
  /\ drawn' = [drawn EXCEPT ![a] = "whole"]
  /\ key' = NoKey

\* deactivateServer, which ends the session.
DeactivateServer(a) ==
  /\ controller[a] = "active"
  /\ controller' = [controller EXCEPT ![a] = "inactive"]
  /\ EndSession(a)
  /\ marked' = [marked EXCEPT ![a] = <<>>]
  /\ panel' = [panel EXCEPT ![a] = <<>>]
  /\ drawn' = [drawn EXCEPT ![a] = "whole"]
  /\ key' = NoKey

\* activateServer, which the controller does not override: InputMethodKit
\* activates the same object again when its client gets the focus back.
ActivateServer(a) ==
  /\ controller[a] = "inactive"
  /\ controller' = [controller EXCEPT ![a] = "active"]
  /\ key' = NoKey
  /\ UNCHANGED <<registry, marked, panel, drawn>>

\* The client goes away and its controller with it, deactivated or not.
Dealloc(a) ==
  /\ controller[a] # "absent"
  /\ controller' = [controller EXCEPT ![a] = "absent"]
  /\ key' = NoKey
  /\ UNCHANGED <<registry, marked, panel, drawn>>

Active(a) == controller[a] = "active"

\* Every branch of llmime_imk_input_text answers 1.
Consume(a, s) ==
  /\ Active(a)
  /\ WithSession(a, s)
  /\ Redraw(a, IF Known(a) THEN s ELSE Empty)
  /\ key' = [consumed |-> TRUE, taken |-> Known(a)]
  /\ UNCHANGED controller

\* inputText with a printable character: push_char.
InputChar(a, c) ==
  /\ Len(Session(a).preedit) < MaxPreedit
  /\ Consume(a, Pushed(Session(a), c))

\* inputText with a control character, which nobody keeps.
InputControl(a) == Consume(a, Session(a))

\* Delete, by inputText or by handleEvent: pop_char.
InputDelete(a) == Consume(a, Popped(Session(a)))

\* Escape.
InputEscape(a) == Consume(a, Empty)

\* Fault: what was shown stays on the screen.
InputReturn_NoUpdate(a) ==
  /\ Active(a)
  /\ Session(a).preedit # <<>>
  /\ WithSession(a, Empty)
  /\ key' = [consumed |-> TRUE, taken |-> TRUE]
  /\ UNCHANGED <<controller, marked, panel, drawn>>

\* What llmime_imk_commit_first commits.
First(s) == IF s.candidates = <<>> THEN s.preedit ELSE Head(s.candidates)

\* handleEvent with Return: llmime_imk_commit_first takes the first candidate,
\* then the controller inserts the text, hides the panel and updates the
\* preedit.  insertText may raise when the text is nil.
InputReturn(a) ==
  LET s == Session(a)
  IN /\ Active(a)
     /\ IF s.preedit = <<>> THEN key' = NoKey /\ UNCHANGED <<registry, marked, panel, drawn>>
        ELSE /\ WithSession(a, Empty)
             /\ key' = [consumed |-> TRUE, taken |-> TRUE]
             /\ \/ /\ marked' = [marked EXCEPT ![a] = <<>>]
                   /\ panel' = [panel EXCEPT ![a] = <<>>]
                   /\ drawn' = [drawn EXCEPT ![a] = "whole"]
                \/ /\ Read(First(s), TextBuffer) = {}
                   /\ drawn' = [drawn EXCEPT ![a] = "raised"]
                   /\ UNCHANGED <<marked, panel>>
     /\ UNCHANGED controller

\* candidateSelected: commit and hide, then insert and clear the marked text.
\* Without a client nothing more happens; a refused insertion is repeated
\* outside of any @try, and may raise again before the marked text is cleared.
CandidateSelected(a) ==
  /\ Active(a)
  /\ panel[a] # <<>>
  /\ WithSession(a, Empty)
  /\ panel' = [panel EXCEPT ![a] = <<>>]
  /\ \E how \in {"whole", "raised", "alone"} :
       /\ drawn' = [drawn EXCEPT ![a] = how]
       /\ marked' = IF how = "whole" THEN [marked EXCEPT ![a] = <<>>] ELSE marked
  /\ key' = NoKey
  /\ UNCHANGED controller

MacNext ==
  \E a \in Addresses :
    \/ CreateController(a) \/ DeactivateServer(a) \/ ActivateServer(a) \/ Dealloc(a)
    \/ \E c \in Chars : InputChar(a, c)
    \/ InputControl(a) \/ InputDelete(a) \/ InputEscape(a)
    \/ InputReturn(a)
    \/ CandidateSelected(a)

-----------------------------------------------------------------------------
(* Properties *)

\* Sessions exist only for addresses, with the candidates of their preedit.
MacTypeOK ==
  /\ DOMAIN registry \subseteq Addresses
  /\ \A a \in DOMAIN registry : registry[a] = With(registry[a].preedit)
  /\ controller \in [Addresses -> {"absent", "active", "inactive"}]

\* A text on the screen stands for a text of the session: it is that text when
\* the buffer holds it and its final zero, and else whole characters of its
\* beginning that fit, or nothing.
StandsFor(shown, text, size) ==
  IF ByteLength(text) < size THEN shown = text
  ELSE \/ shown = <<>>
       \/ \E n \in 1 .. Len(text) : shown = SubSeq(text, 1, n) /\ ByteLength(shown) < size

\* Through every order of keys, commits, deactivations, exceptions and reuse of
\* an address, the marked text stands for the preedit and the panel for the
\* candidates.  A callback that was cut short may leave an old panel, and an old
\* marked text only when the session is empty, the text having been committed.
ScreenShowsSession ==
  \A a \in Addresses : Active(a) =>
    /\ \/ StandsFor(marked[a], Session(a).preedit, TextBuffer)
       \/ drawn[a] # "whole" /\ Session(a) = Empty
    /\ drawn[a] # "raised" =>
         /\ DOMAIN panel[a] = DOMAIN Session(a).candidates
         /\ \A i \in DOMAIN panel[a] :
              StandsFor(panel[a][i], Session(a).candidates[i], CandidateBuffer)

\* ffi.rs:21: llmime_imk_input_text "returns 1 if the input was consumed, 0
\* otherwise": a key that was answered with 1 was taken by a session.
ConsumedIsTaken == key.consumed => key.taken
=============================================================================
