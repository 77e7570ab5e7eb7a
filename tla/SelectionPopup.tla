--------------------------- MODULE SelectionPopup ---------------------------
(***************************************************************************)
(* A selection is reranked with the text around it, the candidates are     *)
(* shown beside it and one is put in the place of what is selected then:   *)
(* crates/llmime-core/src/rerank/{selection_reranker,inline_popup}.rs, the *)
(* hosts' inline_popup_layer.rs and text_replace.rs.  Several reranks can  *)
(* be under way, as the chain is slower than the user.  Positions are in   *)
(* characters, confidences in tenths.                                      *)
(***************************************************************************)
EXTENDS Integers, Sequences, SequencesExt

CONSTANTS
  Tokens,          \* of the committed text: a sequence of [start, end]
  Confidences,     \* what a reranker may say: integers, also outside 0 .. 10
  MaxPopup,        \* InlinePopupController::MAX_CANDIDATES
  MaxAnswer        \* bound: candidates of an answer

ASSUME PopupAssumption == Confidences \subseteq Int /\ MaxPopup \in Nat \ {0} /\ MaxAnswer \in Nat

VARIABLES
  reranking,  \* reranks under way: [range, left, right]
  card,       \* the controller's card: [anchor, gauges], or NoCard
  screen,     \* the card the host's layer shows, or NoCard
  selected,   \* the client's selection, <<>> for none
  undoGroups, \* host: open undo groups
  placed      \* where this step put a candidate: a range, <<>> for the insertion
              \* point, or "nowhere"

popupVars == <<reranking, card, screen, selected, undoGroups, placed>>

NoCard == [anchor |-> <<>>, gauges |-> <<>>]

PopupInit ==
  /\ reranking = {}
  /\ card = NoCard /\ screen = NoCard
  /\ selected = <<>> /\ undoGroups = 0 /\ placed = "nowhere"

Positions == {Tokens[i].start : i \in DOMAIN Tokens} \cup {Tokens[i].end : i \in DOMAIN Tokens}

\* build_context_from_tokens: the tokens wholly before and after the selection.
LeftOf(start) == {i \in DOMAIN Tokens : Tokens[i].end <= start}
RightOf(end) == {i \in DOMAIN Tokens : Tokens[i].start >= end}

\* The user selects, or gives the selection up, whatever is under way.
Select(range) ==
  /\ selected' = range
  /\ placed' = "nowhere"
  /\ UNCHANGED <<reranking, card, screen, undoGroups>>

\* SelectionReranker::rerank of what is selected, up to the call of the chain.
StartRerank ==
  /\ selected # <<>>
  /\ reranking' = reranking \cup
       {[range |-> selected, left |-> LeftOf(selected[1]), right |-> RightOf(selected[2])]}
  /\ placed' = "nowhere"
  /\ UNCHANGED <<card, screen, selected, undoGroups>>

\* clamp_confidence and confidence_to_gauge.
Gauge(c) == Max({0, Min({c, 10})})

\* open: the first candidates take the place of the card before; no candidates
\* leave it where it is.
Open(anchor, confidences) ==
  IF confidences = <<>> THEN UNCHANGED <<card, screen>>
  ELSE LET new == [anchor |-> anchor,
                   gauges |-> [i \in 1 .. Min({MaxPopup, Len(confidences)}) |-> Gauge(confidences[i])]]
       IN card' = new /\ screen' = new

\* The chain answers one of the reranks and the host opens the popup.
FinishRerank(r, confidences) ==
  /\ r \in reranking
  /\ Open(r.range, confidences)
  /\ reranking' = reranking \ {r}
  /\ placed' = "nowhere"
  /\ UNCHANGED <<selected, undoGroups>>

\* close, for whatever reason; without a card it does nothing.
Close ==
  /\ card # NoCard
  /\ card' = NoCard /\ screen' = NoCard

\* on_escape, on_outside_click.
Dismiss == Close /\ placed' = "nowhere" /\ UNCHANGED <<reranking, selected, undoGroups>>

\* A candidate is chosen: the replacement opens an undo group.
BeginReplace ==
  /\ card # NoCard /\ undoGroups = 0
  /\ undoGroups' = 1
  /\ placed' = "nowhere"
  /\ UNCHANGED <<reranking, card, screen, selected>>

\* replace_selected_text_atomic: the text goes where the client's selection is
\* now, which is not read from the card and may have moved since the rerank; the
\* insertion point is tried if the client refuses that.
\* replace_selected_text_via_tsf: to the range the caller gives, and to a second
\* one if it is refused.  Nothing reports that both were.
Place(first, second, primary, fallback) ==
  placed' = CASE primary -> first
              [] ~primary /\ fallback -> second
              [] OTHER -> "nowhere"

\* The rest of the replacement: the undo group ends, record_rerank is called in
\* every case, and the host closes the popup.
EndReplace(primary, fallback) ==
  /\ undoGroups = 1
  /\ undoGroups' = 0
  /\ \/ Place(selected, <<>>, primary, fallback)
     \/ \E second \in {<<>>, selected} : Place(card.anchor, second, primary, fallback)
  /\ Close
  /\ UNCHANGED <<reranking, selected>>

PopupNext ==
  \/ \E start, end \in Positions : undoGroups = 0 /\ start < end /\ Select(<<start, end>>)
  \/ undoGroups = 0 /\ Select(<<>>)
  \/ StartRerank
  \/ \E r \in reranking, n \in 0 .. MaxAnswer :
       \E confidences \in [1 .. n -> Confidences] : undoGroups = 0 /\ FinishRerank(r, confidences)
  \/ undoGroups = 0 /\ Dismiss
  \/ BeginReplace
  \/ \E primary, fallback \in BOOLEAN : EndReplace(primary, fallback)
=============================================================================
