------------------------------- MODULE Scoring -------------------------------
(***************************************************************************)
(* The n-gram scorer (crates/llmime-core/src/scoring.rs) with the          *)
(* tokenizer and the language model it asks (morphology/mod.rs,            *)
(* lm/kenlm.rs).  A surface is a sequence of characters, so that different *)
(* words can spell the same phrase.                                        *)
(***************************************************************************)
EXTENDS Sequences, SequencesExt, FiniteSetsExt, Sorting

NoScore == -100   \* NEG_INFINITY

\* parse_feature: the reading is in column 9 of a UniDic feature, else in column
\* 7, and where there is none the surface stands for it.
ReadingOf(morpheme) ==
  LET raw == CASE morpheme.columns > 9 -> morpheme.col9
               [] morpheme.columns \in {8, 9} -> morpheme.col7
               [] OTHER -> "*"
  IN IF raw \in {"*", ""} THEN morpheme.surface ELSE <<raw>>

Surfaces(phrase) == [i \in DOMAIN phrase |-> phrase[i].surface]

\* KenLMModel::score: without words, without the query tool, or with no total in
\* what it prints there is no score.
LmScore(lm, words) == IF words = <<>> \/ words \notin DOMAIN lm THEN NoScore ELSE lm[words]

CandidateOf(lm, phrase) ==
  [surface |-> FlattenSeq(Surfaces(phrase)),
   reading |-> FlattenSeq([i \in DOMAIN phrase |-> ReadingOf(phrase[i])]),
   score |-> LmScore(lm, Surfaces(phrase))]

\* The consecutive parts of the text, in the order of the two loops.
Precedes(p, q) == p[1] < q[1] \/ (p[1] = q[1] /\ p[2] < q[2])
Slices(text) ==
  LET parts == InOrder({p \in (DOMAIN text) \X (DOMAIN text) : p[1] <= p[2]}, Precedes)
  IN  [k \in DOMAIN parts |-> SubSeq(text, parts[k][1], parts[k][2])]

\* A stable sort, best score first.
BestFirst(candidates) ==
  LET Better(i, j) == \/ candidates[i].score > candidates[j].score
                      \/ candidates[i].score = candidates[j].score /\ i < j
      order == InOrder(DOMAIN candidates, Better)
  IN  [k \in DOMAIN order |-> candidates[order[k]]]

\* dedup_by removes what repeats the surface of its neighbour.
Deduped(candidates) ==
  LET kept == {i \in DOMAIN candidates :
                 i = 1 \/ candidates[i].surface # candidates[i - 1].surface}
      order == InOrder(kept, <)
  IN  [k \in DOMAIN order |-> candidates[order[k]]]

Truncated(candidates, topK) == SubSeq(candidates, 1, Min({topK, Len(candidates)}))

AllCandidates(text, lm) ==
  [i \in DOMAIN Slices(text) |-> CandidateOf(lm, Slices(text)[i])]

\* Fault: cut before the duplicates are out.
Scored_CutFirst(text, lm, topK) ==
  Deduped(Truncated(BestFirst(AllCandidates(text, lm)), topK))

\* NgramScorer::score.
Scored(text, lm, topK) ==
  Truncated(Deduped(BestFirst(AllCandidates(text, lm))), topK)

-----------------------------------------------------------------------------
\* F-002: what is left out of the best top_k is no better than anything in it, or
\* is there under the same surface with a score as good.
AreTheBest(chosen, text, lm, topK) ==
  \A i \in DOMAIN Slices(text) :
    LET c == CandidateOf(lm, Slices(text)[i]) IN
    \/ \E j \in DOMAIN chosen : chosen[j].surface = c.surface /\ chosen[j].score >= c.score
    \/ Len(chosen) = topK /\ \A j \in DOMAIN chosen : chosen[j].score >= c.score
=============================================================================
