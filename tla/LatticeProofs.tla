--------------------------- MODULE LatticeProofs ---------------------------
(***************************************************************************)
(* Proofs about Lattice for any dictionary, reading, language model and    *)
(* beam width: the search is never led into a dead end, the words of a     *)
(* path spell the characters it has consumed, beams are cut to width, and  *)
(* a search that cut none has found every segmentation.                    *)
(***************************************************************************)
EXTENDS Lattice, SequenceTheorems, DataLemmas

(***************************************************************************)
(* The inductive invariant.                                                *)
(***************************************************************************)
Arguments ==
  /\ dictionary \in Seq(Entries)
  /\ kind \in Kinds
  /\ reading \in Readings /\ reading \in Seq(Chars)
  /\ beam_width \in Nat \ {0}

PlacedWords == [from : 0 .. Total - 1, to : Nat, index : {0} \cup DOMAIN dictionary]

\* What the order on paths and the language model need to know of a path.
IsPath(q, n) ==
  /\ q.words \in Seq(PlacedWords) /\ Len(q.words) <= n
  /\ q.score \in Int
  /\ q.at.source \in Int /\ q.at.rank \in Int /\ q.at.index \in Int

Typed ==
  /\ Arguments
  /\ pos \in 0 .. Total
  /\ done \in BOOLEAN
  /\ beam = [n \in 0 .. Total |-> beam[n]]
  /\ \A n \in 0 .. Total : IsFiniteSet(beam[n]) /\ \A q \in beam[n] : IsPath(q, n)

\* Some path is still on its way to the end, or there.
Alive == CountsCharacters => \E n \in pos .. Total : beam[n] # {}

Returned == CountsCharacters /\ done /\ Total > 0 => result # {}

(***************************************************************************)
(* Finite sets of paths have a best one.                                   *)
(***************************************************************************)
\* The stable sort orders paths by score, then by place of insertion.
LEMMA BetterIsAnOrder ==
  ASSUME NEW B, NEW n, \A q \in B : IsPath(q, n)
  PROVE  /\ \A q \in B : ~Better(q, q)
         /\ \A q, r, s \in B : Better(q, r) /\ Better(r, s) => Better(q, s)
BY DEF Better, Earlier, IsPath

\* A sort of a beam that is not empty has a first path.
LEMMA SomePathIsBest ==
  ASSUME NEW B, NEW n, IsFiniteSet(B), B # {}, \A q \in B : IsPath(q, n)
  PROVE  \E q \in B : BetterThan(B, q) = {}
<1> DEFINE T == {BetterThan(B, q) : q \in B}
<1>1. T \subseteq FiniteSubsetsOf(B) /\ T # {}
  <2>1. \A q \in B : BetterThan(B, q) \in SUBSET B BY DEF BetterThan
  <2>2. \A q \in B : IsFiniteSet(BetterThan(B, q)) BY <2>1, FS_Subset
  <2> QED BY <2>1, <2>2 DEF FiniteSubsetsOf
<1>2. PICK least \in T : \A U \in T : ~(<<U, least>> \in StrictSubsetOrdering(B))
  BY <1>1, FS_StrictSubsetOrderingWellFounded, WFMin
<1>3. PICK q \in B : least = BetterThan(B, q) OBVIOUS
<1>4. SUFFICES ASSUME BetterThan(B, q) # {} PROVE FALSE OBVIOUS
<1>5. PICK r \in B : Better(r, q) BY <1>4 DEF BetterThan
<1>6. BetterThan(B, r) \subseteq BetterThan(B, q)
  BY <1>5, BetterIsAnOrder DEF BetterThan
<1>7. r \in BetterThan(B, q) /\ r \notin BetterThan(B, r)
  BY <1>5, BetterIsAnOrder DEF BetterThan
<1>8. <<BetterThan(B, r), least>> \in StrictSubsetOrdering(B)
  BY <1>3, <1>6, <1>7 DEF StrictSubsetOrdering, BetterThan
<1> QED BY <1>2, <1>8

\* Cutting a beam leaves at least one path.
LEMMA PruneKeepsSome ==
  ASSUME NEW B, NEW n, IsFiniteSet(B), B # {}, \A q \in B : IsPath(q, n),
         beam_width \in Nat \ {0}
  PROVE  Prune(B) # {}
<1>1. PICK q \in B : BetterThan(B, q) = {} BY SomePathIsBest
<1>2. Cardinality(BetterThan(B, q)) = 0 BY <1>1, FS_EmptySet
<1> QED BY <1>2 DEF Prune

\* A cut beam has paths of the beam only.
LEMMA PruneIsSubset ==
  ASSUME NEW B
  PROVE  Prune(B) \subseteq B
BY DEF Prune

(***************************************************************************)
(* The dictionary.                                                         *)
(***************************************************************************)
LEMMA MatchesAreFinite ==
  ASSUME Arguments, NEW p
  PROVE  IsFiniteSet(Matches(p)) /\ Matches(p) # {} /\ Matches(p) \subseteq {0} \cup DOMAIN dictionary
<1>1. DOMAIN dictionary = 1 .. Len(dictionary) /\ Len(dictionary) \in Nat BY DEF Arguments
<1>2. IsFiniteSet(1 .. Len(dictionary)) BY <1>1, FS_Interval
<1>3. Found(p) \in SUBSET (1 .. Len(dictionary)) BY <1>1 DEF Found
<1>4. IsFiniteSet(Found(p)) BY <1>2, <1>3, FS_Subset
<1>5. IsFiniteSet({0}) BY FS_Singleton
<1> QED BY <1>1, <1>3, <1>4, <1>5 DEF Matches

\* A match, of either kind of index, is a word of the model's texts and at
\* least one unit long.
LEMMA MatchIsTyped ==
  ASSUME Arguments, NEW p \in 0 .. Total - 1, NEW i \in Matches(p)
  PROVE  /\ Word(p, i).surface \in Texts
         /\ Cost(p, i) \in Int
         /\ Length(p, i) \in Nat \ {0}
<1> USE CharsAssumption, WeightAssumption
<1>1. Total \in Nat /\ p + 1 \in 1 .. Len(reading) BY DEF Arguments, Total
<1>2. reading[p + 1] \in Chars BY <1>1 DEF Arguments
<1>3. CASE i = 0 BY <1>2, <1>3 DEF Word, Cost, Length
<1>4. CASE i # 0
  <2>1. i \in DOMAIN dictionary /\ StartsAt(dictionary[i], p)
    BY <1>4 DEF Matches, Found
  <2>2. dictionary[i] \in Entries BY <2>1 DEF Arguments
  <2>3. dictionary[i].reading \in Seq(Chars) /\ dictionary[i].reading # <<>>
    BY <2>1, <2>2 DEF Entries, StartsAt
  <2>4. Len(dictionary[i].reading) \in Nat \ {0} BY <2>3, EmptySeq
  <2> DEFINE wide == {k \in 1 .. Len(dictionary[i].reading) : dictionary[i].reading[k] \in Wide}
  <2>5. Cardinality(wide) \in Nat
    <3>1. IsFiniteSet(1 .. Len(dictionary[i].reading)) BY <2>4, FS_Interval
    <3>2. IsFiniteSet(wide) BY <3>1, FS_Subset
    <3> QED BY <3>2, FS_CardinalityType
  <2>6. Bytes(dictionary[i].reading) \in Nat \ {0} BY <2>4, <2>5 DEF Bytes
  <2> QED BY <1>4, <2>2, <2>4, <2>6 DEF Word, Cost, Length, Entries
<1> QED BY <1>3, <1>4

\* An index that counts characters gives the length of what it matched.
LEMMA MatchSpells ==
  ASSUME Arguments, CountsCharacters, NEW p \in 0 .. Total - 1, NEW i \in Matches(p)
  PROVE  /\ p + Length(p, i) <= Total
         /\ Word(p, i).reading = SubSeq(reading, p + 1, p + Length(p, i))
<1>1. Total \in Nat /\ p + 1 \in 1 .. Len(reading) BY DEF Arguments, Total
<1>2. reading[p + 1] \in Chars BY <1>1 DEF Arguments
<1>3. CASE i = 0
  <2>1. Length(p, i) = 1 /\ Word(p, i).reading = <<reading[p + 1]>>
    BY <1>3 DEF Length, Word
  <2>2. SubSeq(reading, p + 1, p + 1) = <<reading[p + 1]>>
    <3>1. /\ SubSeq(reading, p + 1, p + 1) \in Seq(Chars)
          /\ Len(SubSeq(reading, p + 1, p + 1)) = 1
          /\ SubSeq(reading, p + 1, p + 1)[1] = reading[p + 1]
      BY <1>1, <1>2, SubSeqProperties
    <3>2. /\ <<reading[p + 1]>> \in Seq(Chars)
          /\ Len(<<reading[p + 1]>>) = 1
          /\ <<reading[p + 1]>>[1] = reading[p + 1]
      BY <1>2
    <3>3. \A k \in 1 .. 1 : SubSeq(reading, p + 1, p + 1)[k] = <<reading[p + 1]>>[k]
      BY <3>1, <3>2
    <3> QED BY <3>1, <3>2, <3>3, SeqEqual
  <2> QED BY <1>1, <2>1, <2>2
<1>4. CASE i # 0
  <2> DEFINE r == dictionary[i].reading
  <2>1. i \in DOMAIN dictionary /\ StartsAt(dictionary[i], p)
    BY <1>4 DEF Matches, Found
  <2>2. dictionary[i] \in Entries BY <2>1 DEF Arguments
  <2>3. r \in Seq(Chars) /\ Len(r) \in Nat /\ p + Len(r) <= Total
         /\ r = SubSeq(reading, p + 1, p + Len(r))
    BY <2>1, <2>2 DEF Entries, StartsAt
  <2>4. Length(p, i) = Len(r)
    <3>1. CASE kind = "mozc" BY <1>4, <3>1 DEF Length
    <3>2. CASE kind # "mozc"
      <4>1. \A k \in 1 .. Total : reading[k] \notin Wide BY <3>2 DEF CountsCharacters
      <4>2. \A k \in 1 .. Len(r) : r[k] = reading[p + k]
        <5>1. \A k \in p + 1 .. p + Len(r) : reading[k] \in Chars
          BY <1>1, <2>3 DEF Arguments, Total
        <5>2. \A k \in 1 .. Len(r) : SubSeq(reading, p + 1, p + Len(r))[k] = reading[p + k]
          <6>1. p + 1 \in Int /\ p + Len(r) \in Int BY <1>1, <2>3
          <6> HIDE DEF r
          <6>2. \A k \in 1 .. (p + Len(r)) - (p + 1) + 1 :
                  SubSeq(reading, p + 1, p + Len(r))[k] = reading[(p + 1) + k - 1]
            BY <5>1, <6>1, SubSeqProperties
          <6> QED BY <1>1, <2>3, <6>2
        <5> QED BY <2>3, <5>2
      <4>3. {k \in 1 .. Len(r) : r[k] \in Wide} = {} BY <1>1, <2>3, <4>1, <4>2
      <4>4. Bytes(r) = Len(r) + 2 * 0
        <5>1. Cardinality({k \in 1 .. Len(r) : r[k] \in Wide}) = 0 BY <4>3, FS_EmptySet
        <5> QED BY <5>1 DEF Bytes
      <4> QED BY <1>4, <2>3, <4>4, KindsAssumption DEF Length, Arguments
    <3> QED BY <3>1, <3>2
  <2> QED BY <1>4, <2>3, <2>4 DEF Word
<1> QED BY <1>3, <1>4

(***************************************************************************)
(* Extending a path.                                                       *)
(***************************************************************************)
\* Every placed word has a text and a class the penalties are defined for.
LEMMA WordIsText ==
  ASSUME Arguments, NEW p \in 0 .. Total - 1, NEW i \in {0} \cup DOMAIN dictionary
  PROVE  Word(p, i).surface \in Texts
<1>1. Total \in Nat /\ p + 1 \in 1 .. Len(reading) BY DEF Arguments, Total
<1>2. reading[p + 1] \in Chars BY <1>1 DEF Arguments
<1>3. CASE i = 0 BY <1>2, <1>3, CharsAssumption DEF Word
<1>4. CASE i # 0
  <2>1. dictionary[i] \in Entries BY <1>4 DEF Arguments
  <2> QED BY <1>4, <2>1 DEF Word, Entries
<1> QED BY <1>3, <1>4

\* A penalty is a number.
LEMMA PenaltyIsInteger == \A prev, next : Penalty(prev, next) \in Int
BY DEF Penalty

\* The extended path is one word longer; the rest of it is as it was.
LEMMA ExtendAppends ==
  ASSUME Typed, NEW p \in 0 .. Total - 1, NEW path \in beam[p], NEW i \in Matches(p)
  PROVE  LET q == Extend(path, p, i)
             w == [from |-> p, to |-> p + Length(p, i), index |-> i]
         IN  /\ q.words = Append(path.words, w)
             /\ w \in PlacedWords
             /\ q.words \in Seq(PlacedWords)
             /\ path.words \in Seq(PlacedWords)
             /\ Len(q.words) = Len(path.words) + 1
             /\ \A k \in 1 .. Len(path.words) : q.words[k] = path.words[k]
             /\ q.words[Len(q.words)] = w
<1> DEFINE w == [from |-> p, to |-> p + Length(p, i), index |-> i]
<1>1. Total \in Nat /\ p \in 0 .. Total /\ p \in Nat BY DEF Typed, Arguments, Total
<1>2. path.words \in Seq(PlacedWords) BY <1>1 DEF Typed, IsPath
<1>3. Length(p, i) \in Nat BY MatchIsTyped DEF Typed
<1>4. i \in {0} \cup DOMAIN dictionary BY MatchesAreFinite DEF Typed
<1>5. w \in PlacedWords BY <1>1, <1>3, <1>4 DEF PlacedWords
<1>6. Extend(path, p, i).words = Append(path.words, w) BY DEF Extend
<1> HIDE DEF w
<1>7. /\ Append(path.words, w) \in Seq(PlacedWords)
      /\ Len(Append(path.words, w)) = Len(path.words) + 1
      /\ \A k \in 1 .. Len(path.words) : Append(path.words, w)[k] = path.words[k]
      /\ Append(path.words, w)[Len(path.words) + 1] = w
  BY <1>2, <1>5, AppendProperties
<1> QED BY <1>2, <1>5, <1>6, <1>7 DEF w

\* It is a path that ends where its last word ends.
LEMMA ExtendIsPath ==
  ASSUME Typed, NEW p \in 0 .. Total - 1, NEW path \in beam[p], NEW i \in Matches(p),
         NEW n \in 0 .. Total, n = p + Length(p, i)
  PROVE  IsPath(Extend(path, p, i), n)
<1> DEFINE q == Extend(path, p, i)
<1>1. Total \in Nat /\ p \in 0 .. Total /\ p \in Nat /\ Total = Len(reading)
  BY DEF Typed, Arguments, Total
<1>2. Length(p, i) \in Nat \ {0} /\ Cost(p, i) \in Int BY MatchIsTyped DEF Typed
<1>3. /\ q.words \in Seq(PlacedWords) /\ path.words \in Seq(PlacedWords)
      /\ Len(q.words) = Len(path.words) + 1
  BY ExtendAppends
<1>4. Len(path.words) \in Nat /\ Len(path.words) <= p BY <1>1, <1>3 DEF Typed, IsPath
<1>5. Len(q.words) \in 0 .. Len(reading) /\ Len(q.words) <= n BY <1>1, <1>2, <1>3, <1>4
<1>6. Lm(Surfaces(q.words)) \in Int
  <2> HIDE DEF q
  <2>1. DOMAIN q.words = 1 .. Len(q.words) BY <1>3
  <2>2. \A k \in 1 .. Len(q.words) :
          q.words[k].from \in 0 .. Total - 1 /\ q.words[k].index \in {0} \cup DOMAIN dictionary
    <3>1. \A k \in 1 .. Len(q.words) : q.words[k] \in PlacedWords BY <1>3, ElementOfSeq
    <3> QED BY <3>1 DEF PlacedWords
  <2>3. \A k \in 1 .. Len(q.words) : Word(q.words[k].from, q.words[k].index).surface \in Texts
    BY <2>2, WordIsText DEF Typed
  <2>4. Surfaces(q.words) \in [1 .. Len(q.words) -> Texts] BY <2>1, <2>3 DEF Surfaces
  <2>5. reading \in Readings BY DEF Typed, Arguments
  <2> QED BY <1>5, <2>4, <2>5, LmAssumption
<1>7. q.score \in Int
  <2>1. q.score = Lm(Surfaces(q.words)) - CostAlpha * Cost(p, i)
                    - PosAlpha * Penalty(path.last_pos, Word(p, i).pos)
    BY DEF Extend, Score
  <2>2. Penalty(path.last_pos, Word(p, i).pos) \in Int BY PenaltyIsInteger
  <2> HIDE DEF q
  <2> QED BY <1>2, <1>6, <2>1, <2>2, WeightAssumption
<1>8. q.at.source \in Int /\ q.at.rank \in Int /\ q.at.index \in Int
  <2>1. q.at = [source |-> p, rank |-> Rank(beam[p], path), index |-> i] BY DEF Extend
  <2>2. i \in Int
    BY MatchesAreFinite, LenProperties DEF Typed, Arguments
  <2>3. IsFiniteSet(beam[p]) BY <1>1 DEF Typed
  <2>4. /\ IsFiniteSet(BetterThan(beam[p], path))
        /\ IsFiniteSet(EarlierThan(beam[p], path))
    BY <2>3, FS_Subset DEF BetterThan, EarlierThan
  <2>5. Rank(beam[p], path) \in Nat BY <2>4, FS_CardinalityType DEF Rank
  <2> QED BY <1>1, <2>1, <2>2, <2>5
<1> QED BY <1>3, <1>5, <1>7, <1>8 DEF IsPath

\* Extensions are finitely many.
LEMMA ExtensionsAreFinite ==
  ASSUME Typed, NEW p \in 0 .. Total
  PROVE  IsFiniteSet(Extensions(p))
<1> DEFINE D == Prune(beam[p]) \X Matches(p)
           f == [x \in D |-> Extend(x[1], p, x[2])]
<1>1. IsFiniteSet(Prune(beam[p])) BY PruneIsSubset, FS_Subset DEF Typed
<1>2. IsFiniteSet(Matches(p)) BY MatchesAreFinite DEF Typed
<1>3. IsFiniteSet(D) BY <1>1, <1>2, FS_Product
<1>4. f \in Surjection(D, Extensions(p))
  <2>1. f \in [D -> Extensions(p)] BY DEF Extensions
  <2>2. ASSUME NEW q \in Extensions(p) PROVE \E x \in D : f[x] = q
    <3>1. PICK path \in Prune(beam[p]), i \in Matches(p) : q = Extend(path, p, i)
      BY DEF Extensions
    <3>2. <<path, i>> \in D /\ f[<<path, i>>] = q BY <3>1
    <3> QED BY <3>2
  <2> QED BY <2>1, <2>2 DEF Surjection
<1> QED BY <1>3, <1>4, FS_Surjection

(***************************************************************************)
(* The search is never led into a dead end.                                *)
(***************************************************************************)
Inv == Typed /\ Alive /\ Returned

\* The search starts with the empty path at the first position.
LEMMA InitEstablishesInv == Init => Inv
<1> SUFFICES ASSUME Init PROVE Inv OBVIOUS
<1>1. Arguments
  BY DictionariesAssumption, ReadingsAssumption, WidthAssumption DEF Init, Arguments
<1>2. Total \in Nat BY <1>1 DEF Arguments, Total
<1>3. IsPath(Start, 0)
  <2>1. <<>> \in Seq(PlacedWords) /\ Len(<<>>) = 0 OBVIOUS
  <2> QED BY <2>1 DEF IsPath, Start
<1>4. \A n \in 0 .. Total : IsFiniteSet(beam[n]) /\ \A q \in beam[n] : IsPath(q, n)
  <2> SUFFICES ASSUME NEW n \in 0 .. Total
               PROVE  IsFiniteSet(beam[n]) /\ \A q \in beam[n] : IsPath(q, n)
    OBVIOUS
  <2>1. CASE n = 0
    <3>1. beam[n] = {Start} BY <2>1 DEF Init
    <3> QED BY <1>3, <2>1, <3>1, FS_Singleton
  <2>2. CASE n # 0
    <3>1. beam[n] = {} BY <2>2 DEF Init
    <3> QED BY <3>1, FS_EmptySet
  <2> QED BY <2>1, <2>2
<1>5. Typed
  <2>1. beam = [n \in 0 .. Total |-> beam[n]] BY DEF Init
  <2>2. pos \in 0 .. Total BY <1>2, pos = 0 DEF Init
  <2>3. done \in BOOLEAN BY DEF Init
  <2> QED BY <1>1, <1>4, <2>1, <2>2, <2>3 DEF Typed
<1>6. Alive
  <2>1. 0 \in pos .. Total /\ beam[0] # {} BY <1>2 DEF Init
  <2> QED BY <2>1 DEF Alive
<1>7. Returned BY DEF Init, Returned
<1> QED BY <1>5, <1>6, <1>7 DEF Inv

\* What an expansion adds to a beam are paths that end there.
LEMMA EndingAtAreExtensions ==
  ASSUME Typed, NEW p \in 0 .. Total - 1, NEW n \in 0 .. Total, NEW q \in EndingAt(n, p)
  PROVE  \E path \in beam[p], i \in Matches(p) : q = Extend(path, p, i) /\ n = p + Length(p, i)
<1>1. q \in Extensions(p) /\ q.words[Len(q.words)].to = n BY DEF EndingAt
<1>2. PICK path \in Prune(beam[p]), i \in Matches(p) : q = Extend(path, p, i)
  BY <1>1 DEF Extensions
<1>3. path \in beam[p] BY PruneIsSubset
<1>4. q.words[Len(q.words)] = [from |-> p, to |-> p + Length(p, i), index |-> i]
  BY <1>2, <1>3, ExtendAppends
<1> QED BY <1>1, <1>2, <1>3, <1>4

\* Expansion keeps the shape of the beams.
LEMMA ExpandPreservesTyped ==
  ASSUME Typed, Expand
  PROVE  Typed'
<1>1. Total \in Nat /\ pos \in 0 .. Total - 1 /\ pos \in 0 .. Total
  BY DEF Typed, Arguments, Total, Expand
<1>2. Arguments' /\ Total' = Total /\ PlacedWords' = PlacedWords
  BY DEF Typed, Arguments, Total, Expand, arguments, PlacedWords
<1>3. \A q, n : IsPath(q, n)' <=> IsPath(q, n) BY <1>2 DEF IsPath
<1>4. pos' \in 0 .. Total' /\ done' \in BOOLEAN BY <1>1, <1>2 DEF Typed, Expand
<1>5. ASSUME NEW n \in 0 .. Total
      PROVE  IsFiniteSet(beam'[n]) /\ \A q \in beam'[n] : IsPath(q, n)
  <2>1. IsFiniteSet(beam[n]) /\ \A q \in beam[n] : IsPath(q, n) BY DEF Typed
  <2>2. CASE n = pos
    <3>1. beam'[n] = Prune(beam[n]) BY <2>2 DEF Expand
    <3> QED BY <2>1, <3>1, PruneIsSubset, FS_Subset
  <2>3. CASE n # pos
    <3>1. beam'[n] = beam[n] \cup EndingAt(n, pos) BY <2>3 DEF Expand
    <3>2. IsFiniteSet(EndingAt(n, pos))
      BY <1>1, ExtensionsAreFinite, FS_Subset DEF EndingAt
    <3>3. \A q \in EndingAt(n, pos) : IsPath(q, n)
      BY <1>1, EndingAtAreExtensions, ExtendIsPath
    <3> QED BY <2>1, <3>1, <3>2, <3>3, FS_Union
  <2> QED BY <2>2, <2>3
<1>6. beam' = [n \in 0 .. Total' |-> beam'[n]] BY <1>2 DEF Expand
<1> QED BY <1>2, <1>3, <1>4, <1>5, <1>6 DEF Typed

\* The path that was alive stays, or is extended by a match inside the reading.
LEMMA ExpandKeepsAlive ==
  ASSUME Typed, Alive, Expand
  PROVE  Alive'
<1> SUFFICES ASSUME CountsCharacters' PROVE (\E n \in pos .. Total : beam[n] # {})'
  BY DEF Alive
<1>1. Total \in Nat /\ pos \in 0 .. Total - 1 /\ pos \in 0 .. Total /\ pos' = pos + 1
  BY DEF Typed, Arguments, Total, Expand
<1>2. Total' = Total BY DEF Total, Expand, arguments
<1>3. CountsCharacters BY <1>2 DEF CountsCharacters, Expand, arguments
<1>4. PICK n \in pos .. Total : beam[n] # {} BY <1>3 DEF Alive
<1>5. CASE n # pos
  <2>1. beam'[n] = beam[n] \cup EndingAt(n, pos) BY <1>1, <1>4, <1>5 DEF Expand
  <2>2. n \in pos' .. Total' /\ beam'[n] # {} BY <1>1, <1>2, <1>4, <1>5, <2>1
  <2> QED BY <2>2
<1>6. CASE n = pos
  <2>1. Prune(beam[pos]) # {}
    BY <1>1, <1>4, <1>6, PruneKeepsSome DEF Typed, Arguments
  <2>2. PICK path \in Prune(beam[pos]) : TRUE BY <2>1
  <2>3. PICK i \in Matches(pos) : TRUE BY MatchesAreFinite DEF Typed
  <2> DEFINE q == Extend(path, pos, i)
             end == pos + Length(pos, i)
  <2>4. path \in beam[pos] BY <2>2, PruneIsSubset
  <2>5. Length(pos, i) \in Nat \ {0} /\ end <= Total
    BY <1>1, <1>3, MatchIsTyped, MatchSpells DEF Typed
  <2>6. q \in Extensions(pos) BY DEF Extensions
  <2>7. q.words[Len(q.words)].to = end
    <3>1. q.words[Len(q.words)] = [from |-> pos, to |-> end, index |-> i]
      BY <1>1, <2>4, ExtendAppends
    <3> QED BY <3>1
  <2>8. q \in EndingAt(end, pos) BY <2>6, <2>7 DEF EndingAt
  <2>9. end \in 0 .. Total /\ end # pos /\ end \in pos' .. Total' BY <1>1, <1>2, <2>5
  <2> HIDE DEF q, end
  <2>10. beam'[end] = beam[end] \cup EndingAt(end, pos) BY <2>9 DEF Expand
  <2> QED BY <2>8, <2>9, <2>10
<1> QED BY <1>5, <1>6

\* At the end the path that is alive has read everything; the best one is
\* returned.
LEMMA FinishReturns ==
  ASSUME Typed, Alive, Finish
  PROVE  Returned'
<1>1. Total' = Total /\ Total \in Nat /\ pos = Total
  BY DEF Typed, Arguments, Total, Finish, arguments
<1> SUFFICES ASSUME CountsCharacters, Total > 0 PROVE result' # {}
  BY <1>1 DEF Returned, CountsCharacters, Finish, arguments
<1>2. beam[Total] # {} BY <1>1 DEF Alive
<1>3. PICK q \in beam[Total] : BetterThan(beam[Total], q) = {}
  <2>1. Total \in 0 .. Total BY <1>1
  <2> QED BY <1>2, <2>1, SomePathIsBest DEF Typed
<1>4. Cardinality(BetterThan(beam[Total], q)) < TopK
  BY <1>3, FS_EmptySet, WidthAssumption
<1>5. q \in result' BY <1>1, <1>3, <1>4 DEF Finish
<1> QED BY <1>5

\* A step keeps a path alive.
LEMMA StepPreservesInv == Inv /\ [Next]_vars => Inv'
<1> SUFFICES ASSUME Inv, [Next]_vars PROVE Inv' OBVIOUS
<1> USE DEF Inv
<1>1. CASE Expand
  <2>1. Returned' BY <1>1 DEF Expand, Returned
  <2> QED BY <1>1, <2>1, ExpandPreservesTyped, ExpandKeepsAlive
<1>2. CASE Finish
  <2>1. Typed'
    <3>1. Total' = Total /\ PlacedWords' = PlacedWords
      BY <1>2 DEF Total, PlacedWords, Finish, arguments
    <3>2. \A q, n : IsPath(q, n)' <=> IsPath(q, n) BY <3>1 DEF IsPath
    <3> QED BY <1>2, <3>1, <3>2 DEF Typed, Arguments, Finish, arguments
  <2>2. Alive' BY <1>2 DEF Alive, CountsCharacters, Total, Finish, arguments
  <2> QED BY <1>2, <2>1, <2>2, FinishReturns
<1>3. CASE UNCHANGED vars
  <2>1. Total' = Total /\ PlacedWords' = PlacedWords
    BY <1>3 DEF Total, PlacedWords, vars
  <2>2. \A q, n : IsPath(q, n)' <=> IsPath(q, n) BY <2>1 DEF IsPath
  <2>3. Typed' BY <1>3, <2>1, <2>2 DEF Typed, Arguments, vars
  <2> QED BY <1>3, <2>3 DEF Alive, Returned, CountsCharacters, Total, vars
<1> QED BY <1>1, <1>2, <1>3 DEF Next

\* The invariant holds in every state of the search.
THEOREM InvHolds == Spec => []Inv
<1> QED BY InitEstablishesInv, StepPreservesInv, PTL DEF Spec

\* Every reading has a candidate, whatever the dictionary, the language model
\* and the width of the beams are.
THEOREM ReadingsConvert == Spec => []EveryReadingConverts
<1>1. Inv => EveryReadingConverts BY DEF Inv, Returned, EveryReadingConverts
<1> QED BY <1>1, InvHolds, PTL

(***************************************************************************)
(* The words of a path spell what it has consumed.                         *)
(***************************************************************************)
\* One more word, spelled by the next characters.
LEMMA ExtendTiles ==
  ASSUME Typed, CountsCharacters, NEW p \in 0 .. Total - 1, NEW path \in beam[p],
         NEW i \in Matches(p), Tiles(path.words, p)
  PROVE  Tiles(Extend(path, p, i).words, p + Length(p, i))
<1> DEFINE q == Extend(path, p, i)
           w == [from |-> p, to |-> p + Length(p, i), index |-> i]
           m == Len(path.words)
<1>1. /\ q.words \in Seq(PlacedWords) /\ path.words \in Seq(PlacedWords)
      /\ Len(q.words) = m + 1
      /\ \A k \in 1 .. m : q.words[k] = path.words[k]
      /\ q.words[m + 1] = w
  <2>1. /\ q.words \in Seq(PlacedWords) /\ path.words \in Seq(PlacedWords)
        /\ Len(q.words) = m + 1
        /\ \A k \in 1 .. m : q.words[k] = path.words[k]
        /\ q.words[Len(q.words)] = w
    BY ExtendAppends
  <2> HIDE DEF q, w
  <2> QED BY <2>1
<1>2. w.from = p /\ w.to = p + Length(p, i) /\ w.index = i OBVIOUS
<1>3. Word(p, i).reading = SubSeq(reading, p + 1, p + Length(p, i)) BY MatchSpells DEF Typed
<1>4. m \in Nat /\ (m = 0 <=> path.words = <<>>) BY <1>1, EmptySeq
<1> HIDE DEF q, w
<1>5. q.words # <<>> BY <1>1, <1>4
<1>6. q.words[1].from = 0
  <2>1. CASE m = 0 BY <1>1, <1>2, <1>4, <2>1 DEF Tiles
  <2>2. CASE m # 0 BY <1>1, <1>4, <2>2 DEF Tiles
  <2> QED BY <2>1, <2>2
<1>7. \A k \in 1 .. Len(q.words) - 1 : q.words[k].to = q.words[k + 1].from
  <2> SUFFICES ASSUME NEW k \in 1 .. m PROVE q.words[k].to = q.words[k + 1].from
    BY <1>1, <1>4
  <2>1. CASE k = m BY <1>1, <1>2, <1>4, <2>1 DEF Tiles
  <2>2. CASE k # m
    <3>1. k \in 1 .. m - 1 /\ k + 1 \in 1 .. m BY <1>4, <2>2
    <3> QED BY <1>1, <3>1 DEF Tiles
  <2> QED BY <2>1, <2>2
<1>8. \A k \in 1 .. Len(q.words) :
        Word(q.words[k].from, q.words[k].index).reading
          = SubSeq(reading, q.words[k].from + 1, q.words[k].to)
  <2> SUFFICES ASSUME NEW k \in 1 .. m + 1
               PROVE  Word(q.words[k].from, q.words[k].index).reading
                        = SubSeq(reading, q.words[k].from + 1, q.words[k].to)
    BY <1>1
  <2>1. CASE k = m + 1 BY <1>1, <1>2, <1>3, <2>1
  <2>2. CASE k # m + 1
    <3>1. k \in 1 .. m BY <1>4, <2>2
    <3> QED BY <1>1, <3>1 DEF Tiles
  <2> QED BY <2>1, <2>2
<1>9. q.words[Len(q.words)].to = p + Length(p, i) BY <1>1, <1>2
<1>10. Tiles(q.words, p + Length(p, i)) BY <1>5, <1>6, <1>7, <1>8, <1>9 DEF Tiles
<1> QED BY <1>10 DEF q

\* A step keeps what paths spell.
LEMMA StepPreservesTiling == Inv /\ PathsTileReading /\ [Next]_vars => PathsTileReading'
<1> SUFFICES ASSUME Inv, PathsTileReading, [Next]_vars, CountsCharacters'
             PROVE  (\A n \in 0 .. Total : \A q \in beam[n] : Tiles(q.words, n))'
  BY DEF PathsTileReading
<1>1. UNCHANGED arguments BY DEF Next, Expand, Finish, vars, arguments
<1>2. CountsCharacters /\ Total' = Total BY <1>1 DEF CountsCharacters, Total, arguments
<1>3. \A words, n : Tiles(words, n)' <=> Tiles(words, n)
  BY <1>1 DEF Tiles, Word, arguments
<1>4. SUFFICES ASSUME NEW n \in 0 .. Total, NEW q \in beam'[n] PROVE Tiles(q.words, n)
  BY <1>2, <1>3
<1>5. CASE q \in beam[n] BY <1>2, <1>5 DEF PathsTileReading
<1>6. CASE q \notin beam[n]
  <2>1. Expand BY <1>6 DEF Next, Finish, vars
  <2>2. n # pos /\ q \in EndingAt(n, pos) BY <1>6, <2>1, PruneIsSubset DEF Expand
  <2>3. pos \in 0 .. Total - 1 /\ pos \in 0 .. Total
    BY <2>1 DEF Inv, Typed, Arguments, Total, Expand
  <2>4. PICK path \in beam[pos], i \in Matches(pos) :
          q = Extend(path, pos, i) /\ n = pos + Length(pos, i)
    BY <2>2, <2>3, EndingAtAreExtensions DEF Inv
  <2>5. Tiles(path.words, pos) BY <1>2, <2>3 DEF PathsTileReading
  <2> QED BY <1>2, <2>3, <2>4, <2>5, ExtendTiles DEF Inv
<1> QED BY <1>5, <1>6

\* A path in beam[n] spells the first n characters of the reading.
THEOREM PathsTile == Spec => []PathsTileReading
<1>1. Init => PathsTileReading
  <2> SUFFICES ASSUME Init, NEW n \in 0 .. Total, NEW q \in beam[n] PROVE Tiles(q.words, n)
    BY DEF PathsTileReading
  <2>1. n = 0 /\ q = Start BY DEF Init
  <2>2. q.words = <<>> /\ Len(<<>>) = 0 BY <2>1 DEF Start
  <2> QED BY <2>1, <2>2 DEF Tiles
<1> QED BY <1>1, InvHolds, StepPreservesTiling, PTL DEF Spec

(***************************************************************************)
(* No beam is wider than it should be.  The paths of a beam differ in the  *)
(* place they were inserted at, so the stable sort orders them strictly    *)
(* and totally: their numbers in it differ, and those below the width are  *)
(* at most as many as the width.  New paths differ in place because those  *)
(* they extend do, and from the paths before because they come from a      *)
(* later position.                                                         *)
(***************************************************************************)
Distinct(B) ==
  \A q, r \in B :
    q.at.source = r.at.source /\ q.at.rank = r.at.rank /\ q.at.index = r.at.index => q = r

Cut ==
  /\ dictionary \in Dictionaries /\ beam_width \in BeamWidths /\ pruned \in BOOLEAN
  /\ \A n \in 0 .. Total : Distinct(beam[n])
  /\ \A n \in 0 .. pos - 1 : Cardinality(beam[n]) <= beam_width
  /\ \A n \in 0 .. Total : n > pos => \A q \in beam[n] : q.at.source < pos

\* Sorted by score or by place of insertion, no two paths come equal.
LEMMA RanksDiffer ==
  ASSUME NEW B, NEW n, IsFiniteSet(B), Distinct(B), \A q \in B : IsPath(q, n)
  PROVE  /\ \A q \in B : Cardinality(BetterThan(B, q)) \in Nat
         /\ \A q, r \in B : Cardinality(BetterThan(B, q)) = Cardinality(BetterThan(B, r)) => q = r
         /\ \A q, r \in B : Rank(B, q) = Rank(B, r) => q = r
<1> DEFINE R == {x \in B \X B : Better(x[1], x[2])}
           E == {x \in B \X B : Earlier(x[1], x[2])}
<1>1. ASSUME NEW q \in B, NEW r \in B, q # r PROVE Earlier(q, r) \/ Earlier(r, q)
  BY <1>1 DEF Distinct, IsPath, Earlier
<1>2. Orders(R, B)
  <2>1. \A q, r \in B : <<q, r>> \in R <=> Better(q, r) OBVIOUS
  <2>2. \A q, r \in B : q # r => Better(q, r) \/ Better(r, q) BY <1>1 DEF Better, IsPath
  <2> HIDE DEF R
  <2> QED BY <2>1, <2>2, BetterIsAnOrder DEF Orders
<1>3. Orders(E, B)
  <2>1. \A q, r \in B : <<q, r>> \in E <=> Earlier(q, r) OBVIOUS
  <2>2. \A q \in B : ~Earlier(q, q) BY DEF Earlier, IsPath
  <2>3. \A q, r, s \in B : Earlier(q, r) /\ Earlier(r, s) => Earlier(q, s) BY DEF Earlier, IsPath
  <2> HIDE DEF E
  <2> QED BY <1>1, <2>1, <2>2, <2>3 DEF Orders
<1>4. \A q \in B : Below(R, B, q) = BetterThan(B, q) /\ Below(E, B, q) = EarlierThan(B, q)
  BY DEF Below, BetterThan, EarlierThan
<1> HIDE DEF R, E
<1>5. /\ \A q \in B : Cardinality(Below(R, B, q)) \in 0 .. Cardinality(B) - 1
      /\ \A q, r \in B : q # r => Cardinality(Below(R, B, q)) # Cardinality(Below(R, B, r))
  BY <1>2, PlacesAreOrdered
<1>6. \A q, r \in B : q # r => Cardinality(Below(E, B, q)) # Cardinality(Below(E, B, r))
  BY <1>3, PlacesAreOrdered
<1>7. \A q \in B : Cardinality(BetterThan(B, q)) \in Nat
  <2>1. \A q \in B : BetterThan(B, q) \in SUBSET B BY DEF BetterThan
  <2> QED BY <2>1, FS_Subset, FS_CardinalityType
<1> QED BY <1>4, <1>5, <1>6, <1>7 DEF Rank

\* A cut beam is as wide as it may be.
LEMMA PruneCuts ==
  ASSUME NEW B, NEW n, IsFiniteSet(B), Distinct(B), \A q \in B : IsPath(q, n),
         beam_width \in Nat \ {0}
  PROVE  Cardinality(Prune(B)) <= beam_width
<1>1. Cardinality(B) \in Nat BY FS_CardinalityType
<1>2. CASE ~Crowded(B) BY <1>1, <1>2 DEF Prune, Crowded
<1>3. CASE Crowded(B)
  <2> DEFINE P == {q \in B : Cardinality(BetterThan(B, q)) < beam_width}
             place == [q \in P |-> Cardinality(BetterThan(B, q))]
             Places == 0 .. beam_width - 1
  <2>1. place \in Injection(P, Places)
    <3>1. place \in [P -> Places]
      <4>1. \A q \in P : Cardinality(BetterThan(B, q)) \in Nat BY RanksDiffer
      <4>2. \A q \in P : Cardinality(BetterThan(B, q)) \in Places BY <4>1
      <4> QED BY <4>2
    <3>2. \A q, r \in P : place[q] = place[r] => q = r BY RanksDiffer
    <3> HIDE DEF place, P, Places
    <3> QED BY <3>1, <3>2 DEF Injection, IsInjective
  <2>2. IsFiniteSet(Places) /\ Cardinality(Places) = beam_width
    <3>1. 0 \in Int /\ beam_width - 1 \in Int /\ (beam_width - 1) - 0 + 1 = beam_width /\ ~(0 > beam_width - 1)
      OBVIOUS
    <3> QED BY <3>1, FS_Interval
  <2>3. Prune(B) = P BY <1>3 DEF Prune
  <2> HIDE DEF place, P, Places
  <2>4. Cardinality(P) <= Cardinality(Places) BY <2>1, <2>2, FS_Injection
  <2> QED BY <2>2, <2>3, <2>4
<1> QED BY <1>2, <1>3

\* The search starts with one path.
LEMMA StartsCut == Init => Cut
<1> SUFFICES ASSUME Init PROVE Cut OBVIOUS
<1>1. Total \in Nat
  <2>1. reading \in Seq(Chars) BY ReadingsAssumption DEF Init
  <2> QED BY <2>1 DEF Total
<1>2. \A n \in 0 .. Total : beam[n] = (IF n = 0 THEN {Start} ELSE {}) BY DEF Init
<1>3. pos = 0 /\ beam[0] = {Start} BY <1>1, <1>2 DEF Init
<1>4. \A n \in 0 .. Total : n # 0 => beam[n] = {} BY <1>2
<1>5. ASSUME NEW n \in 0 .. Total PROVE Distinct(beam[n]) BY <1>3, <1>4 DEF Distinct
<1>6. \A n \in 0 .. Total : n > pos => \A q \in beam[n] : q.at.source < pos BY <1>3, <1>4
<1>7. \A n \in 0 .. pos - 1 : Cardinality(beam[n]) <= beam_width BY <1>3
<1> QED BY <1>5, <1>6, <1>7 DEF Init, Cut

\* Extensions come from the position that is expanded, and differ in place.
LEMMA ExtensionsDiffer ==
  ASSUME Typed, Cut, NEW p \in 0 .. Total - 1, NEW n \in 0 .. Total
  PROVE  /\ \A q \in EndingAt(n, p) : q.at.source = p
         /\ Distinct(EndingAt(n, p))
         /\ n < p => EndingAt(n, p) = {}
<1>1. Total \in Nat /\ p \in 0 .. Total BY DEF Typed, Arguments, Total
<1>2. \A q \in EndingAt(n, p) : \E path \in beam[p], i \in Matches(p) :
        q = Extend(path, p, i) /\ n = p + Length(p, i)
  BY <1>1, EndingAtAreExtensions
<1>3. \A path, i : /\ Extend(path, p, i).at.source = p /\ Extend(path, p, i).at.index = i
                   /\ Extend(path, p, i).at.rank = Rank(beam[p], path)
  BY DEF Extend
<1>4. \A q, r \in beam[p] : Rank(beam[p], q) = Rank(beam[p], r) => q = r
  BY <1>1, RanksDiffer DEF Typed, Cut
<1>5. \A i \in Matches(p) : Length(p, i) \in Nat \ {0} BY MatchIsTyped DEF Typed
<1>6. Distinct(EndingAt(n, p))
  <2> SUFFICES ASSUME NEW q \in EndingAt(n, p), NEW r \in EndingAt(n, p),
                      q.at.rank = r.at.rank, q.at.index = r.at.index
               PROVE  q = r
    BY DEF Distinct
  <2>1. PICK path1 \in beam[p], i1 \in Matches(p) : q = Extend(path1, p, i1) BY <1>2
  <2>2. PICK path2 \in beam[p], i2 \in Matches(p) : r = Extend(path2, p, i2) BY <1>2
  <2>3. i1 = i2 /\ Rank(beam[p], path1) = Rank(beam[p], path2) BY <1>3, <2>1, <2>2
  <2>4. path1 = path2 BY <1>4, <2>3
  <2> QED BY <2>1, <2>2, <2>3, <2>4
<1>7. ASSUME n < p PROVE EndingAt(n, p) = {}
  BY <1>1, <1>2, <1>5, <1>7
<1> QED BY <1>2, <1>3, <1>6, <1>7

\* A turn of the loop cuts its beam and adds to later ones only.
LEMMA ExpandCuts ==
  ASSUME Typed, Cut, Expand
  PROVE  Cut'
<1>1. Total \in Nat /\ pos \in 0 .. Total - 1 /\ pos \in 0 .. Total /\ pos' = pos + 1 /\ Total' = Total
  BY DEF Typed, Arguments, Total, Expand, arguments
<1>2. dictionary' = dictionary /\ beam_width' = beam_width BY DEF Expand, arguments
<1>3. beam'[pos] = Prune(beam[pos]) /\ Prune(beam[pos]) \subseteq beam[pos]
  BY <1>1, PruneIsSubset DEF Expand
<1>4. ASSUME NEW n \in 0 .. Total, n # pos PROVE beam'[n] = beam[n] \cup EndingAt(n, pos)
  BY <1>4 DEF Expand
<1>5. ASSUME NEW n \in 0 .. Total, n < pos PROVE beam'[n] = beam[n]
  <2>1. EndingAt(n, pos) = {} BY <1>1, <1>5, ExtensionsDiffer
  <2>2. n # pos BY <1>1, <1>5
  <2> QED BY <1>4, <2>1, <2>2
<1>6. ASSUME NEW n \in 0 .. Total PROVE Distinct(beam'[n])
  <2>1. Distinct(beam[n]) BY DEF Cut
  <2>2. CASE n = pos BY <1>3, <2>1, <2>2 DEF Distinct
  <2>3. CASE n < pos BY <1>5, <2>1, <2>3
  <2>4. CASE n > pos
    <3>1. \A q \in beam[n] : q.at.source < pos BY <2>4 DEF Cut
    <3>2. \A q \in EndingAt(n, pos) : q.at.source = pos BY <1>1, ExtensionsDiffer
    <3>3. Distinct(EndingAt(n, pos)) BY <1>1, ExtensionsDiffer
    <3>4. \A q \in beam[n] : q.at.source \in Int BY DEF Typed, IsPath
    <3>5. beam'[n] = beam[n] \cup EndingAt(n, pos) BY <1>4, <2>4
    <3>6. \A q \in beam[n] : \A r \in EndingAt(n, pos) : q.at.source # r.at.source
      BY <1>1, <3>1, <3>2, <3>4
    <3> QED BY <2>1, <3>3, <3>5, <3>6 DEF Distinct
  <2> QED BY <1>1, <2>2, <2>3, <2>4
<1>7. ASSUME NEW n \in 0 .. pos' - 1 PROVE Cardinality(beam'[n]) <= beam_width'
  <2>1. CASE n = pos
    <3>1. Cardinality(Prune(beam[pos])) <= beam_width
      BY <1>1, PruneCuts DEF Typed, Arguments, Cut
    <3> QED BY <1>2, <1>3, <2>1, <3>1
  <2>2. CASE n # pos
    <3>1. n \in 0 .. pos - 1 /\ n \in 0 .. Total /\ n < pos BY <1>1, <2>2
    <3> QED BY <1>2, <1>5, <3>1 DEF Cut
  <2> QED BY <2>1, <2>2
<1>8. ASSUME NEW n \in 0 .. Total, n > pos', NEW q \in beam'[n] PROVE q.at.source < pos'
  <2>1. n > pos /\ n # pos BY <1>1, <1>8
  <2>2. CASE q \in beam[n]
    <3>1. q.at.source < pos /\ q.at.source \in Int BY <2>1, <2>2 DEF Cut, Typed, IsPath
    <3> QED BY <1>1, <3>1
  <2>3. CASE q \in EndingAt(n, pos)
    <3>1. q.at.source = pos BY <1>1, <2>3, ExtensionsDiffer
    <3> QED BY <1>1, <3>1
  <2> QED BY <1>4, <1>8, <2>1, <2>2, <2>3
<1>9. pruned' \in BOOLEAN BY DEF Expand, Cut
<1> QED BY <1>1, <1>2, <1>6, <1>7, <1>8, <1>9 DEF Cut, Distinct

\* Only a turn of the loop changes a beam.
LEMMA CutStep ==
  ASSUME Inv, Cut, [Next]_vars
  PROVE  Cut'
<1>1. CASE Expand BY <1>1, ExpandCuts DEF Inv
<1>2. CASE Finish BY <1>2 DEF Finish, arguments, Cut, Distinct, Total
<1>3. CASE UNCHANGED vars BY <1>3 DEF vars, Cut, Distinct, Total
<1> QED BY <1>1, <1>2, <1>3 DEF Next

\* The whole of the type invariant, the width of the beams with it.
THEOREM BeamsAreCut == Spec => []TypeOK
<1>1. Init => Cut BY StartsCut
<1>2. Inv /\ Cut /\ [Next]_vars => Cut' BY CutStep
<1>3. Inv /\ Cut => TypeOK
  <2> SUFFICES ASSUME Inv, Cut PROVE TypeOK OBVIOUS
  <2>1. DOMAIN beam = 0 .. Total BY DEF Inv, Typed
  <2>2. ASSUME NEW n \in 0 .. Total, NEW q \in beam[n], NEW k \in 1 .. Len(q.words)
        PROVE  q.words[k].index \in {0} \cup DOMAIN dictionary
    <3>1. q.words \in Seq(PlacedWords) BY DEF Inv, Typed, IsPath
    <3>2. q.words[k] \in PlacedWords BY <3>1, ElementOfSeq
    <3> QED BY <3>2 DEF PlacedWords
  <2>3. ASSUME NEW n \in 0 .. Total, NEW q \in beam[n] PROVE q.score \in Int BY DEF Inv, Typed, IsPath
  <2> QED BY <2>1, <2>2, <2>3 DEF Inv, Typed, Arguments, Cut, TypeOK
<1> QED BY <1>1, <1>2, <1>3, InvHolds, PTL DEF Spec

(***************************************************************************)
(* A search that cuts no beam finds every segmentation.  While it runs,    *)
(* the paths of beam[n] are one by one the segmentations of the first n    *)
(* characters whose words start before pos: a word that starts at pos ends *)
(* such a segmentation, and the rest of it is in the beam that is expanded.*)
(***************************************************************************)
Over(w, c) == w.from < c /\ c <= w.to

\* The words cover each of the first n characters once, and no other.
Covers(s, n) ==
  /\ s \subseteq Placed
  /\ \A w \in s : w.to <= n
  /\ \A c \in 1 .. n : \E w \in s : Over(w, c)
  /\ \A w, v \in s : \A c \in 1 .. n : Over(w, c) /\ Over(v, c) => w = v

Before(s, p) == \A w \in s : w.from < p

Sound(n) == \A q \in beam[n] : Covers(WordsOf(q), n) /\ Before(WordsOf(q), pos)
Once(n) == \A q, r \in beam[n] : WordsOf(q) = WordsOf(r) => q = r
Complete(n) ==
  \A s \in SUBSET Placed : Covers(s, n) /\ Before(s, pos) => \E q \in beam[n] : WordsOf(q) = s

Searched ==
  /\ done => pos = Total
  /\ CountsCharacters =>
       /\ \A n \in 0 .. Total : Sound(n)
       /\ ~pruned => \A n \in 0 .. Total : Once(n) /\ Complete(n)

\* What a placed word is.
LEMMA PlacedFacts ==
  ASSUME Typed
  PROVE  /\ Total \in Nat /\ Total = Len(reading) /\ reading \in Seq(Chars)
         /\ \A w \in Placed : /\ w.from \in 0 .. Total - 1 /\ w.to \in 1 .. Total
                              /\ w.index \in 0 .. Len(dictionary) /\ w.from < w.to
                              /\ w = [from |-> w.from, to |-> w.to, index |-> w.index]
BY DEF Placed, Typed, Arguments, Total

\* A match is a placed word.
LEMMA MatchIsPlaced ==
  ASSUME Typed, CountsCharacters, NEW p \in 0 .. Total - 1, NEW i \in Matches(p)
  PROVE  /\ p + Length(p, i) \in 1 .. Total
         /\ [from |-> p, to |-> p + Length(p, i), index |-> i] \in Placed
<1> DEFINE to == p + Length(p, i)
<1>1. Total \in Nat BY PlacedFacts
<1>2. Length(p, i) \in Nat \ {0} BY MatchIsTyped DEF Typed
<1>3. to <= Total /\ Word(p, i).reading = SubSeq(reading, p + 1, to) BY MatchSpells DEF Typed
<1>4. i \in {0} \cup DOMAIN dictionary BY MatchesAreFinite DEF Typed
<1>5. DOMAIN dictionary = 1 .. Len(dictionary) /\ Len(dictionary) \in Nat BY DEF Typed, Arguments
<1>6. to \in 1 .. Total /\ p < to /\ i \in 0 .. Len(dictionary) BY <1>1, <1>2, <1>3, <1>4, <1>5
<1>7. CASE i = 0
  <2>1. Found(p) = {} BY <1>5, <1>7 DEF Matches, Found
  <2>2. to = p + 1 BY <1>7 DEF Length
  <2> HIDE DEF to
  <2> QED BY <1>6, <1>7, <2>1, <2>2 DEF Placed, to
<1>8. CASE i # 0
  <2>1. dictionary[i].reading = SubSeq(reading, p + 1, to) BY <1>3, <1>8 DEF Word
  <2> HIDE DEF to
  <2> QED BY <1>6, <1>8, <2>1 DEF Placed, to
<1> QED BY <1>7, <1>8

\* The length of a piece.
LEMMA PieceLength ==
  ASSUME NEW S, NEW t \in Seq(S), NEW p \in Nat, NEW l \in Nat, p + l <= Len(t)
  PROVE  Len(SubSeq(t, p + 1, p + l)) = l
<1>1. p + 1 \in 1 .. Len(t) + 1 /\ p + l \in 0 .. Len(t) /\ (p + l) - (p + 1) + 1 = l OBVIOUS
<1> QED BY <1>1, SubSeqProperties

\* And a placed word is a match.
LEMMA PlacedIsMatch ==
  ASSUME Typed, CountsCharacters, NEW w \in Placed
  PROVE  w.index \in Matches(w.from) /\ w.to = w.from + Length(w.from, w.index)
<1> DEFINE p == w.from
           i == w.index
<1>1. /\ Total \in Nat /\ Total = Len(reading) /\ reading \in Seq(Chars)
      /\ p \in 0 .. Total - 1 /\ w.to \in 1 .. Total /\ i \in 0 .. Len(dictionary) /\ p < w.to
  BY PlacedFacts
<1>2. CASE i = 0
  <2>1. Found(p) = {} /\ w.to = p + 1 BY <1>2 DEF Placed
  <2> QED BY <1>2, <2>1 DEF Matches, Length
<1>3. CASE i # 0
  <2>1. dictionary[i].reading = SubSeq(reading, p + 1, w.to) BY <1>3 DEF Placed
  <2>2. Len(dictionary[i].reading) = w.to - p
    <3> DEFINE l == w.to - p
    <3>1. l \in Nat /\ p \in Nat /\ p + l = w.to /\ p + l <= Len(reading) BY <1>1
    <3> HIDE DEF l, p
    <3>2. Len(SubSeq(reading, p + 1, p + l)) = l BY <1>1, <3>1, PieceLength
    <3> QED BY <2>1, <3>1, <3>2 DEF l
  <2>3. i \in DOMAIN dictionary BY <1>1, <1>3 DEF Typed, Arguments
  <2>4. StartsAt(dictionary[i], p)
    <3>1. dictionary[i].reading # <<>> BY <1>1, <2>2
    <3>2. p + Len(dictionary[i].reading) = w.to /\ w.to <= Total BY <1>1, <2>2
    <3>3. SubSeq(reading, p + 1, p + Len(dictionary[i].reading)) = dictionary[i].reading
      BY <2>1, <3>2
    <3>4. p + Len(dictionary[i].reading) <= Total BY <3>2
    <3> QED BY <3>1, <3>3, <3>4 DEF StartsAt
  <2>5. i \in Matches(p) BY <2>3, <2>4 DEF Matches, Found
  <2>6. /\ Length(p, i) \in Nat /\ p + Length(p, i) <= Total
        /\ Word(p, i).reading = SubSeq(reading, p + 1, p + Length(p, i))
    BY <1>1, <2>5, MatchIsTyped, MatchSpells DEF Typed
  <2>7. Len(SubSeq(reading, p + 1, p + Length(p, i))) = Length(p, i)
    <3>1. p \in Nat /\ p + Length(p, i) <= Len(reading) BY <1>1, <2>6
    <3> QED BY <1>1, <2>6, <3>1, PieceLength
  <2>8. Word(p, i).reading = dictionary[i].reading BY <1>3 DEF Word
  <2>9. Length(p, i) = w.to - p BY <2>1, <2>2, <2>6, <2>7, <2>8
  <2> QED BY <1>1, <2>5, <2>6, <2>9
<1> QED BY <1>2, <1>3

\* The words of an extension are those of the path and the match.
LEMMA ExtensionAddsWord ==
  ASSUME Typed, NEW p \in 0 .. Total - 1, NEW path \in beam[p], NEW i \in Matches(p)
  PROVE  WordsOf(Extend(path, p, i))
           = WordsOf(path) \cup {[from |-> p, to |-> p + Length(p, i), index |-> i]}
<1> DEFINE q == Extend(path, p, i)
           w == [from |-> p, to |-> p + Length(p, i), index |-> i]
<1>1. /\ q.words \in Seq(PlacedWords) /\ path.words \in Seq(PlacedWords)
      /\ Len(q.words) = Len(path.words) + 1
      /\ \A k \in 1 .. Len(path.words) : q.words[k] = path.words[k]
      /\ q.words[Len(q.words)] = w
  BY ExtendAppends
<1> HIDE DEF q, w
<1>2. DOMAIN q.words = 1 .. Len(path.words) + 1 /\ DOMAIN path.words = 1 .. Len(path.words)
      /\ Len(path.words) \in Nat
  BY <1>1
<1>3. WordsOf(q) = WordsOf(path) \cup {w}
  <2> DEFINE n == Len(path.words)
  <2>1. n \in Nat /\ q.words[n + 1] = w /\ \A k \in 1 .. n : q.words[k] = path.words[k] BY <1>1, <1>2
  <2>2. WordsOf(q) = {q.words[k] : k \in 1 .. n + 1} /\ WordsOf(path) = {path.words[k] : k \in 1 .. n}
    BY <1>2 DEF WordsOf
  <2> HIDE DEF n
  <2>3. 1 .. n + 1 = (1 .. n) \cup {n + 1} BY <2>1
  <2>4. {q.words[k] : k \in 1 .. n + 1} = {q.words[k] : k \in 1 .. n} \cup {w} BY <2>1, <2>3
  <2>5. {q.words[k] : k \in 1 .. n} = {path.words[k] : k \in 1 .. n} BY <2>1
  <2> QED BY <2>2, <2>4, <2>5
<1> QED BY <1>3 DEF q, w

\* A word that starts where the others end covers what they do not.
LEMMA WordCovers ==
  ASSUME Typed, NEW w \in Placed, NEW s, Covers(s, w.from)
  PROVE  Covers(s \cup {w}, w.to) /\ w \notin s
<1>1. /\ w.from \in Nat /\ w.to \in Nat /\ w.from < w.to
      /\ \A v \in s : v \in Placed /\ v.from \in Nat /\ v.to \in Nat /\ v.to <= w.from
  BY PlacedFacts DEF Covers
<1>2. w \notin s BY <1>1
<1>3. ASSUME NEW c \in 1 .. w.to PROVE \E v \in s \cup {w} : Over(v, c)
  <2>1. CASE c <= w.from
    <3>1. c \in 1 .. w.from BY <1>1, <2>1
    <3> QED BY <3>1 DEF Covers
  <2>2. CASE ~(c <= w.from)
    <3>1. Over(w, c) BY <1>1, <2>2 DEF Over
    <3> QED BY <3>1
  <2> QED BY <2>1, <2>2
<1>4. ASSUME NEW v \in s \cup {w}, NEW u \in s \cup {w}, NEW c \in 1 .. w.to, Over(v, c), Over(u, c)
      PROVE  v = u
  <2>1. CASE c <= w.from
    <3>1. c \in 1 .. w.from /\ ~Over(w, c) BY <1>1, <2>1 DEF Over
    <3>2. v \in s /\ u \in s BY <1>4, <3>1
    <3> QED BY <1>4, <3>1, <3>2 DEF Covers
  <2>2. CASE ~(c <= w.from)
    <3>1. \A x \in s : ~Over(x, c) BY <1>1, <2>2 DEF Over
    <3> QED BY <1>4, <3>1
  <2> QED BY <2>1, <2>2
<1>5. \A v \in s \cup {w} : v \in Placed /\ v.to <= w.to BY <1>1
<1> QED BY <1>2, <1>3, <1>4, <1>5 DEF Covers

\* And the others cover what is before it.
LEMMA RestCovers ==
  ASSUME Typed, NEW n \in 0 .. Total, NEW s, Covers(s, n), NEW w \in s, Before(s, w.from + 1)
  PROVE  /\ w \in Placed /\ w.to = n
         /\ Covers(s \ {w}, w.from) /\ Before(s \ {w}, w.from)
<1> DEFINE p == w.from
<1>1. /\ w \in Placed /\ p \in Nat /\ w.to \in Nat /\ p < w.to /\ w.to <= n /\ n \in Nat
      /\ \A v \in s : v \in Placed /\ v.from \in Nat /\ v.to \in Nat /\ v.from < v.to /\ v.from <= p
  <2>1. \A v \in s : /\ v \in Placed /\ v.from \in Nat /\ v.to \in Nat /\ v.from < v.to
                    /\ v.to <= n /\ v.from < p + 1
    BY PlacedFacts DEF Covers, Before
  <2>2. n \in Nat BY PlacedFacts
  <2> HIDE DEF p
  <2>3. p = w.from BY DEF p
  <2> QED BY <2>1, <2>2, <2>3
<1>2. p + 1 \in 1 .. n /\ Over(w, p + 1) BY <1>1 DEF Over
<1>3. ASSUME NEW v \in s, v # w PROVE v.to <= p /\ v.from < p
  <2>1. ~Over(v, p + 1) BY <1>2, <1>3 DEF Covers
  <2>2. v.to <= p BY <1>1, <2>1 DEF Over
  <2> QED BY <1>1, <2>2
<1>4. w.to = n
  <2>1. n \in 1 .. n BY <1>1
  <2>2. PICK v \in s : Over(v, n) BY <2>1 DEF Covers
  <2>3. n <= v.to BY <2>2 DEF Over
  <2>4. CASE v = w BY <1>1, <2>3, <2>4
  <2>5. CASE v # w
    <3>1. v.to <= p /\ v.to \in Nat BY <1>1, <1>3, <2>5
    <3> QED BY <1>1, <2>3, <3>1
  <2> QED BY <2>4, <2>5
<1>5. ASSUME NEW c \in 1 .. p PROVE \E v \in s \ {w} : Over(v, c)
  <2>1. c \in 1 .. n /\ ~Over(w, c) BY <1>1 DEF Over
  <2>2. PICK v \in s : Over(v, c) BY <2>1 DEF Covers
  <2> QED BY <2>1, <2>2
<1>6. \A v, u \in s \ {w} : \A c \in 1 .. p : Over(v, c) /\ Over(u, c) => v = u
  <2>1. \A c \in 1 .. p : c \in 1 .. n BY <1>1
  <2> QED BY <2>1 DEF Covers
<1> QED BY <1>1, <1>3, <1>4, <1>5, <1>6 DEF Covers, Before

\* What is searched when nothing is consumed yet.
LEMMA SearchedAtFirst == Init => Searched
<1> SUFFICES ASSUME Init PROVE Searched OBVIOUS
<1>1. Inv BY InitEstablishesInv
<1>2. Typed /\ Total \in Nat BY <1>1, PlacedFacts DEF Inv
<1>3. pos = 0 /\ beam[0] = {Start} /\ \A n \in 0 .. Total : n # 0 => beam[n] = {}
  BY <1>2 DEF Init
<1>4. WordsOf(Start) = {} BY DEF WordsOf, Start
<1>5. Covers({}, 0) BY DEF Covers
<1>6. ASSUME NEW n \in 0 .. Total PROVE Sound(n) /\ Once(n)
  <2>1. CASE n = 0 BY <1>3, <1>4, <1>5, <2>1 DEF Sound, Once, Before
  <2>2. CASE n # 0 BY <1>3, <2>2 DEF Sound, Once
  <2> QED BY <2>1, <2>2
<1>7. ASSUME NEW n \in 0 .. Total PROVE Complete(n)
  <2> SUFFICES ASSUME NEW s \in SUBSET Placed, Covers(s, n), Before(s, pos)
               PROVE  \E q \in beam[n] : WordsOf(q) = s
    BY DEF Complete
  <2>1. s = {}
    <3>1. \A w \in s : w.from \in Nat /\ w.from < 0 BY <1>2, <1>3, PlacedFacts DEF Before
    <3> QED BY <3>1
  <2>2. n = 0
    <3>1. n \in Nat BY <1>2
    <3>2. CASE n # 0
      <4>1. 1 \in 1 .. n BY <3>1, <3>2
      <4> QED BY <2>1, <4>1 DEF Covers
    <3> QED BY <3>2
  <2> QED BY <1>3, <1>4, <2>1, <2>2
<1> QED BY <1>6, <1>7 DEF Searched, Init

\* An extension covers what it has consumed, and ends with the only word that
\* starts at p.
LEMMA ExtensionCovers ==
  ASSUME Typed, CountsCharacters, NEW n \in 0 .. Total, pos \in 0 .. Total - 1, Sound(pos),
         NEW q \in EndingAt(n, pos)
  PROVE  \E path \in beam[pos], i \in Matches(pos) :
           LET w == [from |-> pos, to |-> n, index |-> i]
           IN /\ q = Extend(path, pos, i)
              /\ w \in Placed /\ WordsOf(q) = WordsOf(path) \cup {w}
              /\ \A v \in WordsOf(path) : v.from < pos
              /\ Covers(WordsOf(q), n)
<1>1. PICK path \in beam[pos], i \in Matches(pos) : q = Extend(path, pos, i) /\ n = pos + Length(pos, i)
  BY EndingAtAreExtensions
<1>2. PICK w : w = [from |-> pos, to |-> n, index |-> i] OBVIOUS
<1>3. w \in Placed BY <1>1, <1>2, MatchIsPlaced
<1>4. WordsOf(q) = WordsOf(path) \cup {w} BY <1>1, <1>2, ExtensionAddsWord
<1>5. Covers(WordsOf(path), w.from) /\ \A v \in WordsOf(path) : v.from < pos
  BY <1>2 DEF Sound, Before
<1>6. Covers(WordsOf(path) \cup {w}, w.to) BY <1>3, <1>5, WordCovers
<1>7. w.to = n BY <1>2
<1> QED BY <1>1, <1>2, <1>3, <1>4, <1>5, <1>6, <1>7

\* A turn of the loop adds the segmentations whose last word starts at pos.
LEMMA ExpandSearches ==
  ASSUME Typed, Cut, Searched, Expand, CountsCharacters, NEW n \in 0 .. Total
  PROVE  /\ \A q \in beam'[n] : Covers(WordsOf(q), n) /\ Before(WordsOf(q), pos + 1)
         /\ ~pruned' =>
              /\ \A q, r \in beam'[n] : WordsOf(q) = WordsOf(r) => q = r
              /\ \A s \in SUBSET Placed :
                   Covers(s, n) /\ Before(s, pos + 1) => \E q \in beam'[n] : WordsOf(q) = s
<1>1. Total \in Nat /\ pos \in 0 .. Total - 1 /\ pos \in 0 .. Total
  BY PlacedFacts DEF Typed, Expand
<1>2. Sound(n) /\ Sound(pos) BY <1>1 DEF Searched
<1>3. /\ n = pos => beam'[n] = Prune(beam[n]) /\ Prune(beam[n]) \subseteq beam[n]
      /\ n # pos => beam'[n] = beam[n] \cup EndingAt(n, pos)
  BY PruneIsSubset DEF Expand
<1>4. ASSUME NEW q \in beam[n]
      PROVE  Covers(WordsOf(q), n) /\ Before(WordsOf(q), pos + 1) /\ \A v \in WordsOf(q) : v.from < pos
  <2>1. Covers(WordsOf(q), n) /\ \A v \in WordsOf(q) : v.from < pos BY <1>2 DEF Sound, Before
  <2>2. \A v \in WordsOf(q) : v.from \in Nat BY <2>1, PlacedFacts DEF Covers
  <2>3. \A v \in WordsOf(q) : v.from < pos + 1 BY <1>1, <2>1, <2>2
  <2> QED BY <2>1, <2>3 DEF Before
<1>5. ASSUME NEW q \in EndingAt(n, pos)
      PROVE  \E path \in beam[pos], i \in Matches(pos) :
               LET w == [from |-> pos, to |-> n, index |-> i]
               IN /\ q = Extend(path, pos, i)
                  /\ w \in Placed /\ WordsOf(q) = WordsOf(path) \cup {w}
                  /\ \A v \in WordsOf(path) : v.from < pos
                  /\ Covers(WordsOf(q), n)
  BY <1>1, <1>2, ExtensionCovers
<1>6. ASSUME NEW q \in beam'[n] PROVE Covers(WordsOf(q), n) /\ Before(WordsOf(q), pos + 1)
  <2>1. CASE q \in beam[n] BY <1>4, <2>1
  <2>2. CASE q \in EndingAt(n, pos)
    <3>1. PICK path \in beam[pos], i \in Matches(pos) :
            LET w == [from |-> pos, to |-> n, index |-> i]
            IN /\ w \in Placed /\ WordsOf(q) = WordsOf(path) \cup {w}
               /\ \A v \in WordsOf(path) : v.from < pos
               /\ Covers(WordsOf(q), n)
      BY <1>5, <2>2
    <3>2. \A v \in WordsOf(q) : v.from \in Nat BY <3>1, PlacedFacts DEF Covers
    <3>3. \A v \in WordsOf(q) : v.from < pos \/ v.from = pos BY <3>1
    <3>4. \A v \in WordsOf(q) : v.from < pos + 1 BY <1>1, <3>2, <3>3
    <3> QED BY <3>1, <3>4 DEF Before
  <2> QED BY <1>3, <1>6, <2>1, <2>2
<1>7. ASSUME ~pruned'
      PROVE  /\ Once(n) /\ Complete(n) /\ Once(pos) /\ Complete(pos)
             /\ beam'[n] = beam[n] \cup EndingAt(n, pos) \/ (n = pos /\ beam'[n] = beam[n])
             /\ Prune(beam[pos]) = beam[pos]
  <2>1. ~pruned /\ ~Crowded(beam[pos]) BY <1>7 DEF Expand
  <2>2. Prune(beam[pos]) = beam[pos] BY <2>1 DEF Prune
  <2> QED BY <1>1, <1>3, <2>1, <2>2 DEF Searched
<1>8. ASSUME ~pruned', NEW q \in beam'[n], NEW r \in beam'[n], WordsOf(q) = WordsOf(r) PROVE q = r
  <2>1. CASE q \in beam[n] /\ r \in beam[n] BY <1>7, <1>8, <2>1 DEF Once
  <2>2. CASE n = pos BY <1>3, <1>8, <2>1, <2>2
  <2>3. ASSUME NEW x \in beam[n], NEW y \in EndingAt(n, pos) PROVE WordsOf(x) # WordsOf(y)
    <3>1. \E w \in WordsOf(y) : w.from = pos
      <4>1. PICK path, i : WordsOf(y) = WordsOf(path) \cup {[from |-> pos, to |-> n, index |-> i]}
        BY <1>5
      <4>2. PICK w : w = [from |-> pos, to |-> n, index |-> i] OBVIOUS
      <4> QED BY <4>1, <4>2
    <3>2. \A v \in WordsOf(x) : v.from # pos BY <1>1, <1>4
    <3> QED BY <3>1, <3>2
  <2>4. CASE q \in EndingAt(n, pos) /\ r \in EndingAt(n, pos)
    <3>1. PICK path1 \in beam[pos], i1 \in Matches(pos) :
            /\ q = Extend(path1, pos, i1) /\ \A v \in WordsOf(path1) : v.from < pos
            /\ WordsOf(q) = WordsOf(path1) \cup {[from |-> pos, to |-> n, index |-> i1]}
      BY <1>5, <2>4
    <3>2. PICK path2 \in beam[pos], i2 \in Matches(pos) :
            /\ r = Extend(path2, pos, i2) /\ \A v \in WordsOf(path2) : v.from < pos
            /\ WordsOf(r) = WordsOf(path2) \cup {[from |-> pos, to |-> n, index |-> i2]}
      BY <1>5, <2>4
    <3>3. PICK w1, w2 : /\ w1 = [from |-> pos, to |-> n, index |-> i1]
                        /\ w2 = [from |-> pos, to |-> n, index |-> i2]
      OBVIOUS
    <3>4. w1.from = pos /\ w2.from = pos /\ w1.index = i1 /\ w2.index = i2 BY <3>3
    <3>5. w1 \notin WordsOf(path2) /\ w1 \notin WordsOf(path1) /\ w2 \notin WordsOf(path2)
      BY <1>1, <3>1, <3>2, <3>4
    <3>6. w1 = w2 BY <1>8, <3>1, <3>2, <3>3, <3>5
    <3>7. WordsOf(path1) = WordsOf(path2) BY <1>8, <3>1, <3>2, <3>3, <3>5, <3>6
    <3>8. path1 = path2 BY <1>7, <1>8, <3>7 DEF Once
    <3> QED BY <3>1, <3>2, <3>4, <3>6, <3>8
  <2> QED BY <1>3, <1>8, <2>1, <2>2, <2>3, <2>4
<1>9. ASSUME ~pruned', NEW s \in SUBSET Placed, Covers(s, n), Before(s, pos + 1)
      PROVE  \E q \in beam'[n] : WordsOf(q) = s
  <2>1. \A v \in s : v.from \in Nat /\ v.from < pos + 1 /\ v.to \in Nat /\ v.from < v.to /\ v.to <= n
    BY <1>9, PlacedFacts DEF Before, Covers
  <2>2. CASE Before(s, pos)
    <3>1. \E q \in beam[n] : WordsOf(q) = s BY <1>7, <1>9, <2>2 DEF Complete
    <3> QED BY <1>7, <1>9, <3>1
  <2>3. CASE ~Before(s, pos)
    <3>1. PICK w \in s : w.from = pos BY <1>1, <2>1, <2>3 DEF Before
    <3>2. w \in Placed /\ w.to = n /\ Covers(s \ {w}, pos) /\ Before(s \ {w}, pos)
      BY <1>9, <3>1, RestCovers
    <3>3. PICK path \in beam[pos] : WordsOf(path) = s \ {w}
      <4>1. s \ {w} \in SUBSET Placed OBVIOUS
      <4> QED BY <1>7, <1>9, <3>2, <4>1 DEF Complete
    <3>4. w.index \in Matches(pos) /\ n = pos + Length(pos, w.index) BY <3>1, <3>2, PlacedIsMatch
    <3>5. PICK i \in Matches(pos) : i = w.index BY <3>4
    <3>6. w = [from |-> pos, to |-> pos + Length(pos, i), index |-> i]
      BY <3>1, <3>2, <3>4, <3>5, PlacedFacts
    <3>7. WordsOf(Extend(path, pos, i)) = s BY <1>1, <3>3, <3>6, ExtensionAddsWord
    <3>8. Extend(path, pos, i) \in EndingAt(n, pos)
      <4>1. Extend(path, pos, i) \in Extensions(pos) BY <1>7, <1>9 DEF Extensions
      <4>2. Extend(path, pos, i).words[Len(Extend(path, pos, i).words)] = w
        BY <1>1, <3>6, ExtendAppends
      <4> QED BY <3>2, <4>1, <4>2 DEF EndingAt
    <3>9. n # pos BY <1>1, <2>1, <3>1, <3>2
    <3> QED BY <1>3, <3>7, <3>8, <3>9
  <2> QED BY <2>2, <2>3
<1> QED BY <1>6, <1>8, <1>9

\* The return changes nothing of what was found.
LEMMA SearchedStep ==
  ASSUME Inv, Cut, Searched, [Next]_vars
  PROVE  Searched'
<1>1. Typed BY DEF Inv
<1>2. ASSUME UNCHANGED <<arguments, beam, pos, pruned>>, done' => pos' = Total'
      PROVE  Searched'
  <2>1. /\ Total' = Total /\ beam' = beam /\ pos' = pos /\ pruned' = pruned
        /\ reading' = reading /\ kind' = kind /\ dictionary' = dictionary
    BY <1>2 DEF Total, arguments
  <2>2. CountsCharacters' = CountsCharacters BY <2>1 DEF CountsCharacters
  <2>3. \A p : Found(p)' = Found(p) BY <2>1 DEF Found, StartsAt
  <2>4. Placed' = Placed BY <2>1, <2>3 DEF Placed
  <2>5. \A s, n : Covers(s, n)' = Covers(s, n) BY <2>4 DEF Covers, Over
  <2>6. ASSUME NEW n \in 0 .. Total
        PROVE  (Sound(n) => Sound(n)') /\ (Once(n) => Once(n)') /\ (Complete(n) => Complete(n)')
    BY <2>1, <2>4, <2>5 DEF Sound, Once, Complete, Before, WordsOf
  <2> QED BY <1>2, <2>1, <2>2, <2>6 DEF Searched
<1>3. CASE Expand
  <2>1. /\ Total' = Total /\ pos' = pos + 1 /\ done' = done /\ ~done
        /\ reading' = reading /\ kind' = kind /\ dictionary' = dictionary
    BY <1>3 DEF Expand, arguments, Total
  <2>2. CountsCharacters' = CountsCharacters BY <2>1 DEF CountsCharacters, Total
  <2>3. \A p : Found(p)' = Found(p) BY <2>1 DEF Found, StartsAt
  <2>4. Placed' = Placed BY <2>1, <2>3 DEF Placed
  <2>5. \A s, n : Covers(s, n)' = Covers(s, n) BY <2>4 DEF Covers, Over
  <2>6. ASSUME CountsCharacters, NEW n \in 0 .. Total
        PROVE  Sound(n)' /\ (~pruned' => Once(n)' /\ Complete(n)')
    <3>1. /\ \A q \in beam'[n] : Covers(WordsOf(q), n) /\ Before(WordsOf(q), pos + 1)
          /\ ~pruned' =>
               /\ \A q, r \in beam'[n] : WordsOf(q) = WordsOf(r) => q = r
               /\ \A s \in SUBSET Placed :
                    Covers(s, n) /\ Before(s, pos + 1) => \E q \in beam'[n] : WordsOf(q) = s
      BY <1>1, <1>3, <2>6, ExpandSearches
    <3>2. Sound(n)' BY <2>1, <2>5, <3>1 DEF Sound, Before
    <3>3. Once(n)' <=> \A q, r \in beam'[n] : WordsOf(q) = WordsOf(r) => q = r BY DEF Once
    <3>4. Complete(n)' <=>
            \A s \in SUBSET Placed :
              Covers(s, n) /\ Before(s, pos + 1) => \E q \in beam'[n] : WordsOf(q) = s
      BY <2>1, <2>4, <2>5 DEF Complete, Before
    <3> QED BY <3>1, <3>2, <3>3, <3>4
  <2> QED BY <2>1, <2>2, <2>6 DEF Searched
<1>4. CASE Finish
  <2>1. Total' = Total BY <1>4 DEF Finish, arguments, Total
  <2> QED BY <1>2, <1>4, <2>1 DEF Finish
<1>5. CASE UNCHANGED vars
  <2>1. done' = done /\ pos' = pos /\ Total' = Total BY <1>5 DEF vars, Total
  <2> QED BY <1>2, <1>5, <2>1 DEF vars, arguments, Searched
<1> QED BY <1>3, <1>4, <1>5 DEF Next

\* The reference definition counts the words over a character; one is one.
LEMMA SegmentationsCover ==
  ASSUME Typed
  PROVE  \A s \in SUBSET Placed : s \in Segmentations <=> Covers(s, Total)
<1>1. IsFiniteSet(Placed)
  <2> DEFINE D == (0 .. Total - 1) \X (1 .. Total) \X (0 .. Len(dictionary))
             W == [from : 0 .. Total - 1, to : 1 .. Total, index : 0 .. Len(dictionary)]
             f == [x \in D |-> [from |-> x[1], to |-> x[2], index |-> x[3]]]
  <2>1. IsFiniteSet(D)
    <3>1. Total - 1 \in Int /\ Total \in Int /\ Len(dictionary) \in Int /\ 0 \in Int /\ 1 \in Int
      BY PlacedFacts DEF Typed, Arguments
    <3>2. IsFiniteSet(0 .. Total - 1) /\ IsFiniteSet(1 .. Total) /\ IsFiniteSet(0 .. Len(dictionary))
      BY <3>1, FS_Interval
    <3>3. IsFiniteSet((1 .. Total) \X (0 .. Len(dictionary))) BY <3>2, FS_Product
    <3> DEFINE A == 0 .. Total - 1
               B == 1 .. Total
               C == 0 .. Len(dictionary)
               g == [x \in A \X (B \X C) |-> <<x[1], x[2][1], x[2][2]>>]
    <3>4. IsFiniteSet(A \X (B \X C)) BY <3>2, <3>3, FS_Product
    <3>5. g \in Surjection(A \X (B \X C), A \X B \X C)
      <4> HIDE DEF A, B, C
      <4>1. g \in [A \X (B \X C) -> A \X B \X C] OBVIOUS
      <4>2. ASSUME NEW y \in A \X B \X C PROVE \E x \in A \X (B \X C) : g[x] = y
        <5>1. PICK a \in A, b \in B, c \in C : y = <<a, b, c>> OBVIOUS
        <5>2. <<a, <<b, c>>>> \in A \X (B \X C) /\ g[<<a, <<b, c>>>>] = y BY <5>1
        <5> QED BY <5>2
      <4> QED BY <4>1, <4>2 DEF Surjection
    <3> QED BY <3>4, <3>5, FS_Surjection
  <2>2. f \in Surjection(D, W)
    <3>1. f \in [D -> W] OBVIOUS
    <3>2. ASSUME NEW w \in W PROVE \E x \in D : f[x] = w
      <4>1. <<w.from, w.to, w.index>> \in D /\ f[<<w.from, w.to, w.index>>] = w OBVIOUS
      <4> QED BY <4>1
    <3> QED BY <3>1, <3>2 DEF Surjection
  <2>3. IsFiniteSet(W)
    <3> HIDE DEF D, W, f
    <3> QED BY <2>1, <2>2, FS_Surjection
  <2>4. Placed \in SUBSET W BY DEF Placed
  <2> HIDE DEF W
  <2> QED BY <2>3, <2>4, FS_Subset
<1>2. ASSUME NEW s \in SUBSET Placed, NEW c \in 1 .. Total
      PROVE  Cardinality({w \in s : w.from < c /\ c <= w.to}) = 1 <=>
               /\ \E w \in s : Over(w, c)
               /\ \A w, v \in s : Over(w, c) /\ Over(v, c) => w = v
  <2> DEFINE O == {w \in s : w.from < c /\ c <= w.to}
  <2>1. \A w \in s : w \in O <=> Over(w, c) BY DEF Over
  <2>2. IsFiniteSet(O)
    <3>1. O \in SUBSET Placed OBVIOUS
    <3> HIDE DEF O
    <3> QED BY <1>1, <3>1, FS_Subset
  <2>3. O \subseteq s OBVIOUS
  <2> HIDE DEF O
  <2>4. Cardinality(O) = 1 <=> \E w : O = {w} BY <2>2, FS_Singleton
  <2>5. (\E w : O = {w}) <=> (\E w \in O : \A v \in O : w = v)
    <3>1. ASSUME NEW w, O = {w} PROVE w \in O /\ \A v \in O : w = v BY <3>1
    <3>2. ASSUME NEW w \in O, \A v \in O : w = v PROVE O = {w} BY <3>2
    <3> QED BY <3>1, <3>2
  <2>6. Cardinality(O) = 1 <=> /\ \E w \in s : Over(w, c)
                               /\ \A w, v \in s : Over(w, c) /\ Over(v, c) => w = v
    BY <2>1, <2>3, <2>4, <2>5
  <2> QED BY <2>6 DEF O
<1>3. ASSUME NEW s \in SUBSET Placed PROVE \A w \in s : w.to <= Total
  BY PlacedFacts
<1> QED BY <1>2, <1>3 DEF Segmentations, Covers

\* A search whose beams never had to be cut finds every segmentation once,
\* whatever the dictionary, the reading and the scores are.
THEOREM SegmentationsAreFound == Spec => []EverySegmentationFound
<1>1. Inv /\ Cut /\ [Next]_vars => Cut'
  <2> SUFFICES ASSUME Inv, Cut, [Next]_vars PROVE Cut' OBVIOUS
  <2> QED BY CutStep
<1>2. Inv /\ Cut /\ Searched /\ [Next]_vars => Searched' BY SearchedStep
<1>3. Inv /\ Searched => EverySegmentationFound
  <2> SUFFICES ASSUME Inv, Searched, CountsCharacters, done, Total > 0, ~pruned
               PROVE  /\ {WordsOf(q) : q \in beam[Total]} = Segmentations
                      /\ Cardinality(beam[Total]) = Cardinality(Segmentations)
    BY DEF EverySegmentationFound
  <2>1. Typed /\ pos = Total /\ Total \in Nat /\ Total \in 0 .. Total
    BY PlacedFacts DEF Inv, Searched
  <2>2. Sound(Total) /\ Once(Total) /\ Complete(Total) BY <2>1 DEF Searched
  <2> DEFINE B == beam[Total]
             ws == [q \in B |-> WordsOf(q)]
  <2>3. ASSUME NEW q \in B PROVE WordsOf(q) \in Segmentations
    <3>1. Covers(WordsOf(q), Total) BY <2>2 DEF Sound
    <3>2. WordsOf(q) \in SUBSET Placed BY <3>1 DEF Covers
    <3> QED BY <2>1, <3>1, <3>2, SegmentationsCover
  <2>4. ASSUME NEW s \in Segmentations PROVE \E q \in B : WordsOf(q) = s
    <3>1. s \in SUBSET Placed BY DEF Segmentations
    <3>2. Covers(s, Total) BY <2>1, <3>1, SegmentationsCover
    <3>3. Before(s, pos) BY <2>1, <3>1, PlacedFacts DEF Before
    <3> QED BY <2>2, <3>1, <3>2, <3>3 DEF Complete
  <2>5. ws \in Bijection(B, Segmentations)
    <3>1. ws \in [B -> Segmentations] BY <2>3
    <3>2. \A q, r \in B : ws[q] = ws[r] => q = r BY <2>2 DEF Once
    <3>3. \A s \in Segmentations : \E q \in B : ws[q] = s BY <2>4
    <3> HIDE DEF ws, B
    <3> QED BY <3>1, <3>2, <3>3 DEF Bijection, Injection, Surjection, IsInjective
  <2>6. IsFiniteSet(B) BY <2>1 DEF Typed
  <2>7. Cardinality(B) = Cardinality(Segmentations)
    <3> HIDE DEF ws, B
    <3> QED BY <2>5, <2>6, FS_Bijection DEF ExistsBijection
  <2> QED BY <2>3, <2>4, <2>7
<1> QED BY <1>1, <1>2, <1>3, StartsCut, SearchedAtFirst, InvHolds, PTL DEF Spec
=============================================================================
