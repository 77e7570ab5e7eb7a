------------------------------ MODULE Lattice ------------------------------
(***************************************************************************)
(* Kana-kanji conversion: the beam search over the word lattice of a       *)
(* reading (crates/llmime-core/src/reading_index/lattice.rs), fed by the   *)
(* prefix search of the Mozc index (mozc.rs) or of the user dictionary     *)
(* (user_dict/mod.rs).  A step of the specification is one turn of the     *)
(* search's loop over the positions.                                       *)
(*                                                                         *)
(* A beam is a set of paths.  The order of the code's vector, which decides*)
(* between equal scores, is the order of the `at` fields.                  *)
(***************************************************************************)
EXTENDS Integers, Sequences, FiniteSets

CONSTANTS
  Chars,         \* characters of readings
  Texts,         \* surfaces: texts of words, the characters among them
  Wide,          \* those that take three bytes in UTF-8 (kana); the others take one
  Readings,      \* readings that are converted
  Dictionaries,  \* sequences of entries [reading, surface, pos, cost]
  Kinds,         \* "mozc", "user": the index the search is given
  BeamWidths,    \* ViterbiConfig.beam_width
  TopK,          \* top_k
  CostAlpha,     \* cost_alpha, cost_pos_alpha and the costs, scaled to integers
  PosAlpha,
  OovCost,       \* cost of a character without a dictionary word
  Lm(_)          \* score of the language model for a sequence of texts

PosClasses == {"Noun", "Verb", "Adjective", "Particle", "Copula", "SentFinal", "Unknown"}

Entries == [reading : Seq(Chars), surface : Texts, pos : PosClasses, cost : Int]

ASSUME CharsAssumption == Chars \subseteq Texts /\ Wide \subseteq Chars
ASSUME ReadingsAssumption == Readings \subseteq Seq(Chars)
ASSUME DictionariesAssumption == Dictionaries \subseteq Seq(Entries)
ASSUME KindsAssumption == Kinds \subseteq {"mozc", "user"}
ASSUME WidthAssumption == BeamWidths \subseteq Nat \ {0} /\ TopK \in Nat \ {0}
ASSUME WeightAssumption == CostAlpha \in Int /\ PosAlpha \in Int /\ OovCost \in Int
ASSUME LmAssumption ==
  \A r \in Readings : \A n \in 0 .. Len(r) : \A s \in [1 .. n -> Texts] : Lm(s) \in Int

VARIABLES
  dictionary, kind, reading, beam_width,   \* the arguments of the search
  beam,         \* beam[n]: paths that have consumed n characters
  pos,          \* the position to expand next
  result,       \* the candidates returned
  done,         \* the search has returned
  pruned        \* history: some beam was cut to its width

vars == <<dictionary, kind, reading, beam_width, beam, pos, result, done, pruned>>
arguments == <<dictionary, kind, reading, beam_width>>

Total == Len(reading)

\* A path keeps the words it took, their number in the dictionary and the
\* positions the code took them for; `cost` is their total cost (history).
Start == [words |-> <<>>, last_pos |-> "Unknown", score |-> 0, cost |-> 0,
          at |-> [source |-> 0, rank |-> 0, index |-> 0]]

Init ==
  /\ dictionary \in Dictionaries
  /\ kind \in Kinds
  /\ reading \in Readings
  /\ beam_width \in BeamWidths
  /\ beam = [n \in 0 .. Total |-> IF n = 0 THEN {Start} ELSE {}]
  /\ pos = 0
  /\ result = {}
  /\ done = FALSE
  /\ pruned = FALSE

-----------------------------------------------------------------------------
(* The dictionary *)

\* Fault: the last character of the reading is never part of a longer word.
StartsAt_Short(e, p) ==
  /\ e.reading # <<>>
  /\ p + Len(e.reading) < Total
  /\ SubSeq(reading, p + 1, p + Len(e.reading)) = e.reading

\* Fault: the prefixes are taken from the beginning of the whole reading.
StartsAt_Beginning(e, p) ==
  /\ e.reading # <<>>
  /\ p + Len(e.reading) <= Total
  /\ SubSeq(reading, 1, Len(e.reading)) = e.reading

\* An entry that prefix_search finds at position p.
StartsAt(e, p) ==
  /\ e.reading # <<>>
  /\ p + Len(e.reading) <= Total
  /\ SubSeq(reading, p + 1, p + Len(e.reading)) = e.reading

Found(p) == {i \in DOMAIN dictionary : StartsAt(dictionary[i], p)}

\* Fault: no fallback for what the dictionary does not have.
Matches_NoFallback(p) == Found(p)

\* The matches at p; 0 stands for the fallback, the character as a word.
Matches(p) == IF Found(p) = {} THEN {0} ELSE Found(p)

Word(p, i) ==
  IF i = 0
  THEN [reading |-> <<reading[p + 1]>>, surface |-> reading[p + 1], pos |-> "Unknown", cost |-> OovCost]
  ELSE dictionary[i]

\* Entries of the user dictionary cost nothing.
Cost(p, i) == IF kind = "user" /\ i # 0 THEN 0 ELSE Word(p, i).cost

Bytes(r) == Len(r) + 2 * Cardinality({k \in 1 .. Len(r) : r[k] \in Wide})

\* The length that goes with a match: the Mozc index counts characters, the
\* user dictionary counts bytes.
Length(p, i) ==
  IF i = 0 THEN 1
  ELSE IF kind = "user" THEN Bytes(dictionary[i].reading) ELSE Len(dictionary[i].reading)

-----------------------------------------------------------------------------
(* Scores *)

Natural ==
  ({"Noun"} \X {"Particle", "Copula"}) \cup ({"Verb"} \X {"Particle", "Copula", "SentFinal"})
    \cup ({"Adjective"} \X {"Noun", "Copula", "SentFinal"})
    \cup ({"Particle"} \X {"Noun", "Verb", "Adjective"}) \cup {<<"Copula", "SentFinal">>}
Uncommon ==
  ({"Noun"} \X {"Verb", "Adjective"}) \cup ({"Adjective"} \X {"Particle", "Verb"})
Compound ==
  {<<"Noun", "Noun">>, <<"Adjective", "Adjective">>} \cup ({"Copula"} \X {"Particle", "Noun", "Verb"})

\* connection_penalty, doubled.
Penalty(prev, next) ==
  CASE <<prev, next>> \in Natural \/ prev = "Unknown" -> 0
    [] <<prev, next>> \in Uncommon -> 2
    [] <<prev, next>> \in Compound -> 3
    [] <<prev, next>> = <<"Particle", "Particle">> -> 10
    [] <<prev, next>> = <<"Particle", "Copula">> -> 6
    [] prev = "SentFinal" -> 16
    [] OTHER -> 4

Surfaces(words) == [k \in DOMAIN words |-> Word(words[k].from, words[k].index).surface]

\* The language model scores the whole path; of the costs and the penalties
\* only those of the last word are subtracted.
Score(path, p, i, words) ==
  Lm(Surfaces(words)) - CostAlpha * Cost(p, i)
    - PosAlpha * Penalty(path.last_pos, Word(p, i).pos)

\* The order of insertion into a beam, and the stable sort by score.
Earlier(a, b) ==
  \/ a.at.source < b.at.source
  \/ a.at.source = b.at.source /\ a.at.rank < b.at.rank
  \/ a.at.source = b.at.source /\ a.at.rank = b.at.rank /\ a.at.index < b.at.index
Better(a, b) == a.score > b.score \/ (a.score = b.score /\ Earlier(a, b))

BetterThan(B, q) == {r \in B : Better(r, q)}
EarlierThan(B, q) == {r \in B : Earlier(r, q)}
Crowded(B) == Cardinality(B) > beam_width

\* Fault: one path too many survives.
Prune_OneMore(B) ==
  IF Crowded(B) THEN {q \in B : Cardinality(BetterThan(B, q)) <= beam_width} ELSE B

\* A beam is sorted only when it has to be cut.
Prune(B) == IF Crowded(B) THEN {q \in B : Cardinality(BetterThan(B, q)) < beam_width} ELSE B
Rank(B, q) == Cardinality(IF Crowded(B) THEN BetterThan(B, q) ELSE EarlierThan(B, q))

-----------------------------------------------------------------------------
Extend(path, p, i) ==
  LET words == Append(path.words, [from |-> p, to |-> p + Length(p, i), index |-> i])
  IN [words |-> words, last_pos |-> Word(p, i).pos, score |-> Score(path, p, i, words),
      cost |-> path.cost + Cost(p, i),
      at |-> [source |-> p, rank |-> Rank(beam[p], path), index |-> i]]

Extensions(p) == {Extend(path, p, i) : path \in Prune(beam[p]), i \in Matches(p)}

\* The paths of the extensions that end at n; longer matches are skipped.
EndingAt(n, p) == {q \in Extensions(p) : q.words[Len(q.words)].to = n}

\* One turn of the loop: cut the beam, extend its paths by every match.
Expand ==
  /\ ~done /\ pos < Total
  /\ beam' = [n \in 0 .. Total |-> IF n = pos THEN Prune(beam[n])
                                   ELSE beam[n] \cup EndingAt(n, pos)]
  /\ pruned' = (pruned \/ Crowded(beam[pos]))
  /\ pos' = pos + 1
  /\ UNCHANGED <<arguments, result, done>>

\* The best paths through the whole reading are returned.
Finish ==
  /\ ~done /\ pos = Total
  /\ result' = IF Total = 0 THEN {}
               ELSE {q \in beam[Total] : Cardinality(BetterThan(beam[Total], q)) < TopK}
  /\ done' = TRUE
  /\ UNCHANGED <<arguments, beam, pos, pruned>>

Next == Expand \/ Finish

Spec == Init /\ [][Next]_vars

-----------------------------------------------------------------------------
(* Properties *)

\* The index counts in the unit in which the search consumes the reading: so
\* for the Mozc index, and for the user dictionary on readings in ASCII.
CountsCharacters == kind = "mozc" \/ \A k \in 1 .. Total : reading[k] \notin Wide

\* Beams that were expanded are no wider than beam_width.
TypeOK ==
  /\ dictionary \in Dictionaries /\ kind \in Kinds /\ reading \in Readings
  /\ beam_width \in BeamWidths
  /\ pos \in 0 .. Total
  /\ DOMAIN beam = 0 .. Total
  /\ \A n \in 0 .. Total : \A q \in beam[n] :
       /\ q.score \in Int
       /\ \A k \in 1 .. Len(q.words) : q.words[k].index \in {0} \cup DOMAIN dictionary
  /\ \A n \in 0 .. pos - 1 : Cardinality(beam[n]) <= beam_width
  /\ \A n \in 0 .. Total : n > pos => \A q \in beam[n] : q.at.source < pos
  /\ done \in BOOLEAN /\ pruned \in BOOLEAN

\* The words of the path are the first n characters of the reading, one after
\* the other.
Tiles(words, n) ==
  /\ words = <<>> => n = 0
  /\ words # <<>> => words[1].from = 0 /\ words[Len(words)].to = n
  /\ \A k \in 1 .. Len(words) - 1 : words[k].to = words[k + 1].from
  /\ \A k \in 1 .. Len(words) :
       Word(words[k].from, words[k].index).reading
         = SubSeq(reading, words[k].from + 1, words[k].to)

\* No character is skipped, read twice or read out of place: a path in beam[n]
\* spells the first n characters, so a candidate spells the whole reading.
PathsTileReading ==
  CountsCharacters => \A n \in 0 .. Total : \A q \in beam[n] : Tiles(q.words, n)

\* Every reading has a candidate, whatever words the dictionary has and
\* however narrow the beam is: the search is never led into a dead end.
EveryReadingConverts ==
  CountsCharacters /\ done /\ Total > 0 => result # {}

\* Every way to cut the reading into words: the sets of placed words that
\* cover each character once.
Placed ==
  {w \in [from : 0 .. Total - 1, to : 1 .. Total, index : 0 .. Len(dictionary)] :
     /\ w.from < w.to
     /\ IF w.index = 0 THEN Found(w.from) = {} /\ w.to = w.from + 1
        ELSE dictionary[w.index].reading = SubSeq(reading, w.from + 1, w.to)}
Segmentations ==
  {s \in SUBSET Placed :
     \A c \in 1 .. Total : Cardinality({w \in s : w.from < c /\ c <= w.to}) = 1}

WordsOf(q) == {q.words[k] : k \in DOMAIN q.words}

\* A search whose beams never had to be cut has found every segmentation, and
\* each of them once.
EverySegmentationFound ==
  CountsCharacters /\ done /\ Total > 0 /\ ~pruned =>
    /\ {WordsOf(q) : q \in beam[Total]} = Segmentations
    /\ Cardinality(beam[Total]) = Cardinality(Segmentations)

\* lattice.rs:92: "beam[pos] = candidate paths that have consumed `pos` chars".
BeamHoldsConsumed ==
  \A n \in 0 .. Total : \A q \in beam[n] : Tiles(q.words, n)
=============================================================================
