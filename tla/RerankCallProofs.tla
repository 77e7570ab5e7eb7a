-------------------------- MODULE RerankCallProofs --------------------------
(***************************************************************************)
(* Proofs about ModeRouting, RerankCall, Scoring and Command for any       *)
(* fields, watchers, modes, overrides, inferencers, replies, candidates,   *)
(* texts and language models: nothing is sent to the cloud from a field    *)
(* that is not known to be harmless, unless the user asked for it and his  *)
(* caller lets him; an answer is every candidate once, the one it names    *)
(* first, and the command line prints the best.  TLC checks the same       *)
(* formulas in the run rerank_call.                                        *)
(***************************************************************************)
EXTENDS Command, DataLemmas

rerankVars == <<routingVars, callVars>>

-----------------------------------------------------------------------------
(* What the pure parts decide. *)

\* Whatever the system says, a field has one of the three classes.
LEMMA ClassesAreClasses ==
  ASSUME NEW f
  PROVE  Class(f) \in FieldClasses
BY DEF Class, ClassifyElement, ClassifyScopes, FieldClasses

\* Only Performance leads to the cloud, by dispatcher or chain.
LEMMA OnlyPerformanceGoesOut ==
  ASSUME NEW mode, NEW n, Primary(mode) = "workers" \/ SelectInferencer(mode, n) = "workers"
  PROVE  mode = "Performance"
BY DEF Primary, SelectInferencer, Optional

\* And only a harmless field, or the user's own choice where it is heeded, leads
\* to Performance, whichever way the mode is resolved.
LEMMA OnlyOpenFieldsGoOut ==
  ASSUME NEW way \in Ways, NEW focus \in FieldClasses, NEW base,
         Resolve(way, focus, base) = "Performance"
  PROVE  focus = "NonSensitive" \/ Wanted(way, base)
<1>1. CASE focus = "NonSensitive" BY <1>1
<1>2. CASE focus # "NonSensitive"
  <2>1. EffectiveMode(focus, base) = "Performance" => base = "Performance"
    BY <1>2 DEF EffectiveMode
  <2>2. Secure(focus, base) = "Privacy" BY <1>2 DEF Secure, FieldClasses
  <2>3. way # "secure" BY <2>2 DEF Resolve
  <2>4. CASE way = "plain" BY <2>1, <2>4 DEF Resolve, Wanted
  <2>5. CASE way = "override"
    BY <2>1, <2>5 DEF Resolve, Wanted, EffectiveModeWithOverride
  <2> QED BY <2>3, <2>4, <2>5 DEF Ways
<1> QED BY <1>1, <1>2

-----------------------------------------------------------------------------
(***************************************************************************)
(* From the field to the call.  A class that is stored while the focus has *)
(* stayed where it was is that of the present field; so is the class the   *)
(* watcher holds as long as it is settled; and a call for a harmless class *)
(* was made in a harmless field, or before the watcher had caught up.      *)
(***************************************************************************)
WatchedIsAClass == watched \in FieldClasses

ClassifiersAreRight ==
  \A w \in Watchers : classifying[w] # Idle =>
    /\ classifying[w].class \in FieldClasses
    /\ classifying[w].stays => classifying[w].class = Class(field)

SettledIsRight == settled => watched = Class(field)

CallKnowsItsField ==
  /\ call.focus \in FieldClasses
  /\ call.stage # "idle" /\ call.focus = "NonSensitive" => call.open

FocusTypeOK ==
  /\ classifying \in [Watchers -> [class : FieldClasses \cup {"none"}, stays : BOOLEAN]]
  /\ settled \in BOOLEAN
  /\ call \in [stage : {"idle", "asked", "running"}, focus : FieldClasses, open : BOOLEAN,
               wanted : BOOLEAN, to : {"ngram", "workers", "llm", "ollama"}, chained : BOOLEAN]

FieldInv ==
  /\ FocusTypeOK
  /\ WatchedIsAClass /\ ClassifiersAreRight /\ SettledIsRight
  /\ CallKnowsItsField /\ CloudOnlyFromOpenFields

\* Initially no class is on its way and no call is made.
LEMMA FieldInit == RerankInit => FieldInv
<1> SUFFICES ASSUME RerankInit PROVE FieldInv OBVIOUS
<1>1. Class(field) \in FieldClasses BY ClassesAreClasses
<1> QED
  BY <1>1 DEF RerankInit, RoutingInit, CallInit, NoCall, Idle, FieldInv, FocusTypeOK, WatchedIsAClass,
     ClassifiersAreRight, SettledIsRight, CallKnowsItsField, CloudOnlyFromOpenFields, FieldClasses

\* The focus moves, and threads classify and store.
LEMMA FocusKeepsFieldInv ==
  ASSUME FieldInv, FocusNext, UNCHANGED callVars
  PROVE  FieldInv'
<1> USE DEF FieldInv, FocusTypeOK, WatchedIsAClass, ClassifiersAreRight, SettledIsRight
<1>1. CallKnowsItsField' /\ CloudOnlyFromOpenFields'
  BY DEF callVars, CallKnowsItsField, CloudOnlyFromOpenFields
<1>2. (call \in [stage : {"idle", "asked", "running"}, focus : FieldClasses, open : BOOLEAN,
               wanted : BOOLEAN, to : {"ngram", "workers", "llm", "ollama"}, chained : BOOLEAN])'
  BY DEF callVars
<1>3. ASSUME NEW f \in Fields, FocusMoves(f) PROVE FieldInv'
  <2> DEFINE Entry == [class : FieldClasses \cup {"none"}, stays : BOOLEAN]
             Moved(e) == [e EXCEPT !.stays = FALSE]
  <2>a. \A e \in Entry : Moved(e) \in Entry /\ Moved(e).stays = FALSE /\ Moved(e).class = e.class
    OBVIOUS
  <2>b. classifying \in [Watchers -> Entry] OBVIOUS
  <2>c. classifying' = [w \in Watchers |-> Moved(classifying[w])] BY <1>3 DEF FocusMoves
  <2> HIDE DEF Entry, Moved, FieldInv, FocusTypeOK
  <2>1. classifying' \in [Watchers -> Entry]
        /\ \A w \in Watchers : classifying'[w].stays = FALSE /\ classifying'[w].class = classifying[w].class
    BY <2>a, <2>b, <2>c
  <2> USE DEF Entry, FieldInv, FocusTypeOK
  <2>2. \A w \in Watchers : classifying'[w] # Idle => classifying[w].class \in FieldClasses
    BY <2>1 DEF Idle
  <2> QED BY <1>1, <1>2, <1>3, <2>1, <2>2 DEF FocusMoves
<1>4. ASSUME NEW w \in Watchers, Classify(w) PROVE FieldInv'
  <2>1. Class(field) \in FieldClasses BY ClassesAreClasses
  <2> QED BY <1>1, <1>2, <1>4, <2>1 DEF Classify, Class
<1>5. ASSUME NEW w \in Watchers, Store(w) PROVE FieldInv'
  <2>1. classifying' \in [Watchers -> [class : FieldClasses \cup {"none"}, stays : BOOLEAN]]
    BY <1>5 DEF Store, Idle
  <2>2. \A v \in Watchers : classifying'[v] # Idle => classifying'[v] = classifying[v]
    BY <1>5 DEF Store
  <2>3. field' = field /\ watched' \in FieldClasses /\ settled' \in BOOLEAN
        /\ (settled' => watched' = Class(field)')
    BY <1>5 DEF Store, Class
  <2>4. Class(field)' = Class(field) BY <2>3 DEF Class
  <2> QED BY <1>1, <1>2, <2>1, <2>2, <2>3, <2>4
<1> QED BY <1>3, <1>4, <1>5 DEF FocusNext

\* Modes, overrides and time leave fields and calls alone.
LEMMA ModesKeepFieldInv ==
  ASSUME FieldInv, UNCHANGED <<focusVars, call>>
  PROVE  FieldInv'
<1>1. Class(field)' = Class(field) BY DEF focusVars, Class
<1> QED BY <1>1 DEF FieldInv, FocusTypeOK, WatchedIsAClass, ClassifiersAreRight, SettledIsRight,
     CallKnowsItsField, CloudOnlyFromOpenFields, focusVars

\* A call is made, routed, answered, or falls back.
LEMMA CallsKeepFieldInv ==
  ASSUME FieldInv, CallNext
  PROVE  FieldInv'
<1> USE DEF FieldInv, FocusTypeOK, CallKnowsItsField, CloudOnlyFromOpenFields
<1>1. UNCHANGED focusVars
  BY DEF CallNext, Ask, Dispatch, Chain, Asks, WorkersReplies, WorkersPanics, OllamaReplies, LlmReplies,
     Unchanged, Rescored, Fails, FallsBack, Delivers, routingVars
<1>2. ASSUME call' \in [stage : {"idle", "asked", "running"}, focus : FieldClasses, open : BOOLEAN,
                        wanted : BOOLEAN, to : {"ngram", "workers", "llm", "ollama"}, chained : BOOLEAN],
             CallKnowsItsField', CloudOnlyFromOpenFields'
      PROVE  FieldInv'
  <2>1. Class(field)' = Class(field) BY <1>1 DEF focusVars, Class
  <2> QED
    BY <1>1, <1>2, <2>1 DEF focusVars, WatchedIsAClass, ClassifiersAreRight, SettledIsRight
<1>3. CASE Ask
  <2>1. call' = [stage |-> "asked", focus |-> watched, wanted |-> FALSE, to |-> "ngram", chained |-> FALSE,
                 open |-> (settled => Class(field) = "NonSensitive")]
    BY <1>3 DEF Ask, NoCall
  <2> QED BY <1>2, <2>1 DEF WatchedIsAClass, SettledIsRight
<1>4. ASSUME NEW way \in Ways, NEW to \in {"ngram", "workers", "llm", "ollama"}, NEW chained \in BOOLEAN,
             Asks(way, to, chained),
             to = "workers" => call.focus = "NonSensitive" \/ Wanted(way, Mode)
      PROVE  FieldInv'
  <2>1. Wanted(way, Mode) \in BOOLEAN BY DEF Wanted
  <2> QED BY <1>2, <1>4, <2>1 DEF Asks
<1>5. ASSUME NEW way \in Ways, NEW length \in Lengths, Dispatch(way, length) PROVE FieldInv'
  <2> DEFINE to == SelectInferencer(Resolve(way, call.focus, Mode), TokenCount(length))
  <2>1. to \in {"ngram", "workers", "llm", "ollama"} BY DEF SelectInferencer, Optional
  <2>2. to = "workers" => call.focus = "NonSensitive" \/ Wanted(way, Mode)
    BY OnlyPerformanceGoesOut, OnlyOpenFieldsGoOut
  <2> HIDE DEF to
  <2>3. Asks(way, to, FALSE) BY <1>5 DEF Dispatch, to
  <2> QED BY <1>4, <2>1, <2>2, <2>3
<1>6. ASSUME NEW way \in Ways, Chain(way) PROVE FieldInv'
  <2> DEFINE to == Primary(Resolve(way, call.focus, Mode))
  <2>1. to \in {"ngram", "workers", "llm", "ollama"} BY DEF Primary
  <2>2. to = "workers" => call.focus = "NonSensitive" \/ Wanted(way, Mode)
    BY OnlyPerformanceGoesOut, OnlyOpenFieldsGoOut
  <2> HIDE DEF to
  <2>3. Asks(way, to, TRUE) \/ Asks(way, "llm", TRUE) BY <1>6 DEF Chain, to
  <2> QED BY <1>4, <2>1, <2>2, <2>3
<1>7. ASSUME NEW order, NEW name, Delivers(order, name) PROVE FieldInv'
  BY <1>2, <1>7 DEF Delivers, NoCall, FieldClasses
<1>8. CASE FallsBack BY <1>2, <1>8 DEF FallsBack, MayFail
<1>9. ASSUME NEW reply \in Replies,
             WorkersReplies(reply) \/ WorkersPanics(reply) \/ OllamaReplies(reply) \/ LlmReplies(reply)
      PROVE  FieldInv'
  BY <1>7, <1>9 DEF WorkersReplies, WorkersPanics, OllamaReplies, LlmReplies
<1>10. CASE Unchanged \/ Rescored \/ Fails BY <1>7, <1>10 DEF Unchanged, Rescored, Fails
<1> QED BY <1>3, <1>5, <1>6, <1>8, <1>9, <1>10 DEF CallNext

\* NF-032: whatever modes, overrides and focus changes came before, a call that
\* is with the cloud service was resolved for a harmless field, or the user chose
\* the cloud and his caller let him; and the field was harmless if the watcher
\* had caught up with the focus.
THEOREM CloudSeesOpenFieldsOnly == RerankSpec => []CloudOnlyFromOpenFields
<1>1. FieldInv /\ [RerankNext]_rerankVars => FieldInv'
  <2> SUFFICES ASSUME FieldInv, [RerankNext]_rerankVars PROVE FieldInv' OBVIOUS
  <2>1. CASE FocusNext /\ UNCHANGED callVars BY <2>1, FocusKeepsFieldInv
  <2>2. CASE ModeNext /\ UNCHANGED callVars
    <3>1. UNCHANGED <<focusVars, call>>
      BY <2>2 DEF ModeNext, SetMode, SetOverride, SetPermanentOverride, ClearOverride, Overrides,
         OverrideForSensitive, Tick, focusVars, callVars
    <3> QED BY <3>1, ModesKeepFieldInv
  <2>4. CASE CallNext BY <2>4, CallsKeepFieldInv
  <2>5. CASE UNCHANGED rerankVars
    BY <2>5, ModesKeepFieldInv DEF rerankVars, routingVars, callVars
  <2> QED BY <2>1, <2>2, <2>4, <2>5 DEF RerankNext
<1>2. FieldInv => CloudOnlyFromOpenFields BY DEF FieldInv
<1> QED BY FieldInit, <1>1, <1>2, PTL DEF RerankSpec, rerankVars

-----------------------------------------------------------------------------
(***************************************************************************)
(* What an answer does to the candidates.                                  *)
(***************************************************************************)

\* Every candidate once.
IsAnswer(order) == Len(order) = Len(Scores) /\ Range(order) = Positions

LEMMA RenumberedIsAnswer ==
  ASSUME NEW order \in [Positions -> Positions], \A p \in Positions : \E k \in Positions : order[k] = p
  PROVE  IsAnswer(order)
<1>1. Len(Scores) \in Nat BY CandidatesAssumption
<1>2. order \in [1 .. Len(Scores) -> Positions] BY DEF Positions
<1>3. Len(order) = Len(Scores)
  <2> DEFINE n == Len(Scores)
  <2> HIDE DEF n
  <2>1. n \in Nat /\ order \in [1 .. n -> Positions] BY <1>1, <1>2 DEF n
  <2>2. order \in Seq(Positions) /\ DOMAIN order = 1 .. n BY <2>1
  <2>3. Len(order) = n BY <2>1, <2>2
  <2> QED BY <2>3 DEF n
<1> QED BY <1>3 DEF IsAnswer, Range

LEMMA AsGivenIsAnswer == IsAnswer(AsGiven)
BY RenumberedIsAnswer DEF AsGiven

\* The swap of WorkersAI and Ollama.
LEMMA SwappedIsAnswer ==
  ASSUME NEW i \in Positions \cup {NoIndex}
  PROVE  IsAnswer(Swapped(i)) /\ (i # NoIndex => Swapped(i)[1] = i)
<1>1. CASE i = NoIndex BY <1>1, AsGivenIsAnswer DEF Swapped
<1>2. CASE i # NoIndex
  <2>1. Len(Scores) \in Nat /\ i \in 1 .. Len(Scores) /\ 1 \in Positions
    BY <1>2, CandidatesAssumption DEF Positions
  <2>2. Swapped(i) = [k \in Positions |-> IF k = i THEN 1 ELSE IF k = 1 THEN i ELSE k]
    BY <1>2, <2>1 DEF Swapped, AsGiven
  <2>3. Swapped(i) \in [Positions -> Positions] BY <1>2, <2>1, <2>2
  <2>4. ASSUME NEW p \in Positions PROVE \E k \in Positions : Swapped(i)[k] = p
    <3>1. Swapped(i)[i] = 1 /\ Swapped(i)[1] = i /\ (p # 1 /\ p # i => Swapped(i)[p] = p)
      BY <1>2, <2>1, <2>2
    <3> QED BY <1>2, <2>1, <3>1
  <2>5. Swapped(i)[1] = i BY <2>1, <2>2
  <2> QED BY <2>3, <2>4, <2>5, RenumberedIsAnswer
<1> QED BY <1>1, <1>2

\* The first character that is wanted, if there is one.
LEMMA FirstOfIsWanted ==
  ASSUME NEW text \in Seq(Nat), NEW wanted
  PROVE  /\ FirstOf(text, wanted) \in wanted \cup {NoIndex}
         /\ Len(text) = 1 /\ text[1] \in wanted => FirstOf(text, wanted) = text[1]
<1> DEFINE found == {i \in DOMAIN text : text[i] \in wanted}
<1>1. found \in SUBSET Nat /\ DOMAIN text = 1 .. Len(text) /\ Len(text) \in Nat OBVIOUS
<1>2. FirstOf(text, wanted) = IF found = {} THEN NoIndex ELSE text[Min(found)] BY DEF FirstOf
<1>3. ASSUME found # {} PROVE Min(found) \in found
  <2>1. PICK m \in found : \A k \in found : m <= k BY <1>1, <1>3, LeastOf
  <2> HIDE DEF found
  <2> QED BY <2>1 DEF Min
<1>4. CASE found = {} BY <1>1, <1>2, <1>4
<1>5. CASE found # {}
  <2>1. text[Min(found)] \in wanted /\ Min(found) \in DOMAIN text BY <1>3, <1>5
  <2>2. Len(text) = 1 => Min(found) = 1 BY <1>1, <2>1
  <2> QED BY <1>2, <1>5, <2>1, <2>2
<1> QED BY <1>4, <1>5

\* The local model's reply moves one candidate.
LEMMA MovedIsAnswer ==
  ASSUME NEW text \in Seq(Nat)
  PROVE  /\ IsAnswer(MovedToFront(text))
         /\ Len(text) = 1 /\ text[1] \in Digits \cap Positions => MovedToFront(text)[1] = text[1]
<1> DEFINE digit == FirstOf(text, Digits)
           i == IF digit = 0 THEN 1 ELSE digit
           moved == [k \in Positions |-> IF k = 1 THEN i ELSE IF k <= i THEN k - 1 ELSE k]
<1>1. MovedToFront(text) = IF i \in Positions THEN moved ELSE AsGiven BY DEF MovedToFront
<1>2. Len(text) = 1 /\ text[1] \in Digits => digit = text[1] BY FirstOfIsWanted
<1> HIDE DEF digit
<1>3. CASE i \notin Positions
  <2>1. ASSUME Len(text) = 1, text[1] \in Digits \cap Positions PROVE FALSE
    <3>1. i = text[1] BY <1>2, <2>1 DEF Positions
    <3> QED BY <1>3, <2>1, <3>1
  <2> QED BY <1>1, <1>3, <2>1, AsGivenIsAnswer
<1>4. CASE i \in Positions
  <2>1. Len(Scores) \in Nat /\ Positions = 1 .. Len(Scores) BY CandidatesAssumption DEF Positions
  <2>2. Len(text) = 1 /\ text[1] \in Digits \cap Positions => i = text[1]
    BY <1>2, <2>1
  <2> HIDE DEF i
  <2>3. moved \in [Positions -> Positions] BY <1>4, <2>1
  <2>4. ASSUME NEW p \in Positions PROVE \E k \in Positions : moved[k] = p
    <3>1. CASE p = i BY <1>4, <2>1, <3>1
    <3>2. CASE p < i
      <4>1. p + 1 \in Positions /\ moved[p + 1] = p BY <1>4, <2>1, <3>2
      <4> QED BY <4>1
    <3>3. CASE p > i BY <1>4, <2>1, <3>3
    <3> QED BY <1>4, <2>1, <3>1, <3>2, <3>3
  <2>5. 1 \in Positions /\ moved[1] = i BY <1>4, <2>1
  <2>6. IsAnswer(moved)
    <3> HIDE DEF moved
    <3> QED BY <2>3, <2>4, RenumberedIsAnswer
  <2> QED BY <1>1, <1>4, <2>2, <2>5, <2>6
<1> QED BY <1>3, <1>4

\* The n-gram model's order has every candidate.
LEMMA SortedIsAnswer == IsAnswer(Sorted)
<1> DEFINE R == {p \in Positions \X Positions : Outscores(p[1], p[2])}
<1>1. Len(Scores) \in Nat /\ Positions = 1 .. Len(Scores) BY CandidatesAssumption DEF Positions
<1>2. \A i \in Positions : Value(i) \in Int BY <1>1, CandidatesAssumption DEF Value
<1>3. Orders(R, Positions) BY <1>1, <1>2 DEF Orders, Outscores
<1>4. IsFiniteSet(Positions) /\ Cardinality(Positions) = Len(Scores)
  <2> DEFINE n == Len(Scores)
  <2>1. n \in Nat /\ 1 \in Int /\ n \in Int /\ n - 1 + 1 = n /\ (1 > n => n = 0) BY <1>1
  <2> HIDE DEF n
  <2>2. IsFiniteSet(1 .. n) /\ Cardinality(1 .. n) = n BY <2>1, FS_Interval
  <2> QED BY <1>1, <2>2 DEF n
<1>5. ASSUME NEW k \in 1 .. Cardinality(Positions), NEW e \in Positions,
             Cardinality(Below(R, Positions, e)) = k - 1
      PROVE  Sorted[k] \in Positions /\ Cardinality(Below(R, Positions, Sorted[k])) = k - 1
  <2>1. \A x \in Positions : Below(R, Positions, x) = {d \in Positions : Outscores(d, x)} BY DEF Below
  <2> QED BY <1>5, <2>1 DEF Sorted, InOrder
<1>6. Sorted = [k \in 1 .. Cardinality(Positions) |-> Sorted[k]] BY DEF Sorted, InOrder
<1> HIDE DEF R
<1>7. /\ DOMAIN Sorted = Positions /\ \A k \in Positions : Sorted[k] \in Positions
      /\ \A e \in Positions : \E k \in Positions : Sorted[k] = e
  <2>1. /\ DOMAIN Sorted = 1 .. Cardinality(Positions) /\ \A k \in DOMAIN Sorted : Sorted[k] \in Positions
        /\ \A e \in Positions : \E k \in DOMAIN Sorted : Sorted[k] = e
    <3>1. /\ \A k \in 1 .. Cardinality(Positions) : Sorted[k] \in Positions
          /\ \A e \in Positions : \E k \in 1 .. Cardinality(Positions) : Sorted[k] = e
      BY <1>3, <1>4, <1>5, SortedByPlace
    <3> QED BY <1>6, <3>1
  <2> QED BY <1>1, <1>4, <2>1
<1>8. Sorted \in [Positions -> Positions]
  <2>1. Sorted = [k \in Positions |-> Sorted[k]] BY <1>1, <1>4, <1>6
  <2> QED BY <1>7, <2>1
<1> QED BY <1>7, <1>8, RenumberedIsAnswer

\* A single digit is its own number.
LEMMA DigitIsItsNumber ==
  ASSUME NEW text \in Seq(Nat), Len(text) = 1, text[1] \in Digits
  PROVE  IsNumber(text) /\ Number(text) = text[1]
<1>1. DOMAIN text = {1} /\ text # <<>>
  <2>1. DOMAIN text = 1 .. Len(text) OBVIOUS
  <2>2. Len(<<>>) = 0 /\ Len(text) # 0 OBVIOUS
  <2>3. text # <<>> BY <2>2
  <2> QED BY <2>1, <2>3
<1>2. IsNumber(text) BY <1>1 DEF IsNumber, Range
<1> DEFINE Iter(g) == g = [s \in SUBSET {1} |->
                             IF s = {} THEN 0
                             ELSE 10 * g[s \ {Max(s)}] + text[Max(s)]]
           h == [s \in SUBSET {1} |-> IF s = {} THEN 0 ELSE text[1]]
<1>3. Number(text) = (CHOOSE g : Iter(g))[{1}]
  BY <1>1, Zenon DEF Number, FoldLeft, MapThenFoldSet
<1>4. Max({1}) = 1 BY DEF Max
<1>5. Iter(h)
  <2>1. ASSUME NEW s \in SUBSET {1} PROVE h[s] = IF s = {} THEN 0 ELSE 10 * h[s \ {Max(s)}] + text[Max(s)]
    <3>1. CASE s = {} BY <3>1
    <3>2. CASE s = {1}
      <4>1. s \ {Max(s)} = {} BY <1>4, <3>2
      <4>2. h[s \ {Max(s)}] = 0 /\ h[s] = text[1] /\ text[Max(s)] = text[1] BY <1>4, <3>2, <4>1
      <4>3. text[1] \in Nat BY DEF Digits
      <4> HIDE DEF h
      <4> QED BY <3>2, <4>2, <4>3
    <3> QED BY <3>1, <3>2
  <2> QED BY <2>1
<1>6. ASSUME NEW g, Iter(g) PROVE g[{1}] = text[1]
  <2>1. g[{}] = 0 BY <1>6
  <2>2. g[{1}] = 10 * g[{1} \ {Max({1})}] + text[Max({1})] BY <1>6
  <2>3. {1} \ {Max({1})} = {} BY <1>4
  <2>4. g[{1}] = 10 * 0 + text[1] BY <1>4, <2>1, <2>2, <2>3
  <2>5. text[1] \in Nat BY DEF Digits
  <2> QED BY <2>4, <2>5
<1>7. Number(text) = text[1]
  <2> HIDE DEF Iter, h
  <2> QED BY <1>3, <1>5, <1>6
<1> QED BY <1>2, <1>7

\* The index in an answer of Ollama or WorkersAI names a candidate or none, and
\* the one that is named beyond doubt.
LEMMA WholeOrDigitNames ==
  ASSUME NEW text \in Seq(Nat)
  PROVE  /\ WholeOrDigit(text) \in Positions \cup {NoIndex}
         /\ Len(text) = 1 /\ text[1] \in Digits \cap Positions => WholeOrDigit(text) = text[1]
<1>1. FirstOf(text, Digits \cap Positions) \in Positions \cup {NoIndex} BY FirstOfIsWanted
<1>2. Len(text) = 1 /\ text[1] \in Digits \cap Positions => IsNumber(text) /\ Number(text) = text[1]
  BY DigitIsItsNumber
<1> QED BY <1>1, <1>2 DEF WholeOrDigit

LEMMA BestIndexNames ==
  ASSUME NEW reply \in Replies
  PROVE  /\ BestIndex(reply) \in Positions \cup {NoIndex}
         /\ Names("workers", reply) # NoIndex => BestIndex(reply) = Names("workers", reply)
<1>1. reply.text \in Seq(Nat) BY RepliesAssumption
<1>2. NoIndex \notin Positions BY CandidatesAssumption DEF NoIndex, Positions
<1> QED BY <1>1, <1>2, WholeOrDigitNames DEF BestIndex, Names

\* Whatever its backend does, a call that ends delivers every candidate once and
\* the one that was named first, or nothing.
AnswerOK(order, name) ==
  /\ order # <<>> => IsAnswer(order)
  /\ name # NoIndex => order[1] = name

LEMMA CallsAnswer ==
  ASSUME CallNext
  PROVE  AnswerOK(answer', named') \/ UNCHANGED <<answer, named>>
<1>1. CASE Ask BY <1>1 DEF Ask, AnswerOK
<1>2. CASE \E way \in Ways : Chain(way) \/ \E length \in Lengths : Dispatch(way, length)
  BY <1>2 DEF Chain, Dispatch, Asks
<1>3. ASSUME NEW reply \in Replies, WorkersReplies(reply) PROVE AnswerOK(answer', named')
  BY <1>3, BestIndexNames, SwappedIsAnswer DEF WorkersReplies, Delivers, AnswerOK
<1>4. ASSUME NEW reply \in Replies, WorkersPanics(reply) PROVE AnswerOK(answer', named')
  BY <1>4 DEF WorkersPanics, Delivers, AnswerOK
<1>5. ASSUME NEW reply \in Replies, OllamaReplies(reply) PROVE AnswerOK(answer', named')
  <2>1. reply.text \in Seq(Nat) BY RepliesAssumption
  <2>2. Names("ollama", reply) # NoIndex =>
          Len(reply.text) = 1 /\ reply.text[1] \in Digits \cap Positions /\ Names("ollama", reply) = reply.text[1]
    BY DEF Names
  <2>3. NoIndex \notin Positions BY CandidatesAssumption DEF NoIndex, Positions
  <2> QED BY <1>5, <2>1, <2>2, <2>3, WholeOrDigitNames, SwappedIsAnswer DEF OllamaReplies, Delivers, AnswerOK
<1>6. ASSUME NEW reply \in Replies, LlmReplies(reply) PROVE AnswerOK(answer', named')
  <2>1. reply.text \in Seq(Nat) BY RepliesAssumption
  <2>2. Names("llm", reply) # NoIndex =>
          Len(reply.text) = 1 /\ reply.text[1] \in Digits \cap Positions /\ Names("llm", reply) = reply.text[1]
    BY DEF Names
  <2> QED BY <1>6, <2>1, <2>2, MovedIsAnswer DEF LlmReplies, Delivers, AnswerOK
<1>7. CASE Unchanged \/ Rescored \/ Fails \/ FallsBack
  BY <1>7, AsGivenIsAnswer, SortedIsAnswer
  DEF Unchanged, Rescored, Fails, FallsBack, Delivers, AnswerOK
<1> QED BY <1>1, <1>2, <1>3, <1>4, <1>5, <1>6, <1>7 DEF CallNext

LEMMA AnswersAreRight == RerankSpec => []AnswerOK(answer, named)
<1>1. RerankInit => AnswerOK(answer, named) BY DEF RerankInit, CallInit, AnswerOK
<1>2. AnswerOK(answer, named) /\ [RerankNext]_rerankVars => AnswerOK(answer, named)'
  <2> SUFFICES ASSUME AnswerOK(answer, named), [RerankNext]_rerankVars PROVE AnswerOK(answer', named')
    BY DEF AnswerOK, IsAnswer
  <2>1. CASE UNCHANGED callVars BY <2>1 DEF callVars
  <2>2. CASE CallNext BY <2>2, CallsAnswer
  <2> QED BY <2>1, <2>2 DEF RerankNext, rerankVars
<1> QED BY <1>1, <1>2, PTL DEF RerankSpec, rerankVars

\* Whatever a model says, a call delivers every candidate once, or an error.
THEOREM AnswersArePermuted == RerankSpec => []AnswersArePermutations
<1>1. AnswerOK(answer, named) => AnswersArePermutations
  BY DEF AnswerOK, IsAnswer, AnswersArePermutations
<1> QED BY <1>1, AnswersAreRight, PTL

\* A candidate that a reply names beyond doubt comes first.
THEOREM NamedComesFirst == RerankSpec => []NamedCandidateFirst
<1>1. AnswerOK(answer, named) => NamedCandidateFirst
  BY DEF AnswerOK, NamedCandidateFirst
<1> QED BY <1>1, AnswersAreRight, PTL

-----------------------------------------------------------------------------
(***************************************************************************)
(* The scorer.  Sorting keeps every candidate, a candidate that is removed *)
(* as a duplicate has a better one of its surface before it, and what is   *)
(* cut off comes after all that is kept.                                   *)
(***************************************************************************)

\* A sequence of candidates is in order, and has each of cs.
LEMMA BestFirstIsRight ==
  ASSUME NEW n \in Nat, NEW cs, DOMAIN cs = 1 .. n, \A i \in 1 .. n : cs[i].score \in Int
  PROVE  /\ DOMAIN BestFirst(cs) = 1 .. n
         /\ \A i \in 1 .. n : \E k \in 1 .. n : BestFirst(cs)[k] = cs[i]
         /\ \A k \in 1 .. n : BestFirst(cs)[k].score \in Int
         /\ \A j, k \in 1 .. n : j < k => BestFirst(cs)[j].score >= BestFirst(cs)[k].score
<1> DEFINE Better(i, j) == \/ cs[i].score > cs[j].score
                           \/ cs[i].score = cs[j].score /\ i < j
           S == 1 .. n
           R == {p \in S \X S : Better(p[1], p[2])}
           order == InOrder(S, Better)
<1>1. IsFiniteSet(S) /\ Cardinality(S) = n BY FS_Interval
<1>2. Orders(R, S) BY DEF Orders
<1>3. ASSUME NEW k \in 1 .. Cardinality(S), NEW e \in S, Cardinality(Below(R, S, e)) = k - 1
      PROVE  order[k] \in S /\ Cardinality(Below(R, S, order[k])) = k - 1
  <2>1. \A x \in S : Below(R, S, x) = {d \in S : Better(d, x)} BY DEF Below
  <2> HIDE DEF S, R, Better
  <2> QED BY <1>3, <2>1 DEF InOrder
<1>4. DOMAIN order = S BY <1>1 DEF InOrder
<1>5. BestFirst(cs) = [k \in DOMAIN order |-> cs[order[k]]] BY DEF BestFirst
<1>6. ASSUME NEW i \in S, NEW j \in S, <<i, j>> \in R PROVE cs[i].score >= cs[j].score
  BY <1>6
<1> HIDE DEF order, R
<1>7. /\ \A k \in 1 .. Cardinality(S) : order[k] \in S
      /\ \A e \in S : \E k \in 1 .. Cardinality(S) : order[k] = e
      /\ \A j, k \in 1 .. Cardinality(S) : j < k => <<order[j], order[k]>> \in R
  <2> HIDE DEF S
  <2> QED BY <1>1, <1>2, <1>3, SortedByPlace
<1>8. DOMAIN BestFirst(cs) = S /\ \A k \in S : BestFirst(cs)[k] = cs[order[k]] /\ order[k] \in S
  BY <1>1, <1>4, <1>5, <1>7
<1>9. ASSUME NEW i \in S PROVE \E k \in S : BestFirst(cs)[k] = cs[i]
  <2>1. PICK k \in S : order[k] = i BY <1>1, <1>7
  <2> QED BY <1>8, <2>1
<1>10. ASSUME NEW j \in S, NEW k \in S, j < k PROVE BestFirst(cs)[j].score >= BestFirst(cs)[k].score
  <2>1. <<order[j], order[k]>> \in R BY <1>1, <1>7, <1>10
  <2> QED BY <1>6, <1>8, <2>1
<1> QED BY <1>8, <1>9, <1>10

\* What dedup_by leaves.
Kept(cs) == {i \in DOMAIN cs : i = 1 \/ cs[i].surface # cs[i - 1].surface}

\* The first m numbers name what is left, in order.
LeftBy(cs, m, order) ==
  /\ Deduped(cs) = [k \in 1 .. m |-> cs[order[k]]]
  /\ \A k \in 1 .. m : order[k] \in Kept(cs)
  /\ \A e \in Kept(cs) : \E k \in 1 .. m : order[k] = e
  /\ \A j, k \in 1 .. m : j < k => order[j] < order[k]

\* It leaves the first of every run of one surface, in order.
LEMMA DedupedIsRight ==
  ASSUME NEW n \in Nat, NEW cs, DOMAIN cs = 1 .. n
  PROVE  \E m \in Nat : \E order : LeftBy(cs, m, order)
<1> DEFINE S == Kept(cs)
           R == {p \in S \X S : p[1] < p[2]}
           m == Cardinality(S)
           order == InOrder(S, <)
<1>1. S \in SUBSET (1 .. n) BY DEF Kept
<1>2. IsFiniteSet(S) /\ m \in Nat
  <2>1. IsFiniteSet(1 .. n) BY FS_Interval
  <2>2. IsFiniteSet(S) BY <1>1, <2>1, FS_Subset
  <2> QED BY <2>2, FS_CardinalityType
<1> HIDE DEF S
<1>3. Orders(R, S) BY <1>1 DEF Orders
<1>4. ASSUME NEW k \in 1 .. m, NEW e \in S, Cardinality(Below(R, S, e)) = k - 1
      PROVE  order[k] \in S /\ Cardinality(Below(R, S, order[k])) = k - 1
  <2>1. \A x \in S : Below(R, S, x) = {d \in S : d < x} BY DEF Below
  <2> QED BY <1>4, <2>1 DEF InOrder
<1>5. DOMAIN order = 1 .. m BY DEF InOrder
<1>6. Deduped(cs) = [k \in DOMAIN order |-> cs[order[k]]] BY DEF Deduped, Kept, S
<1>7. ASSUME NEW i \in S, NEW j \in S, <<i, j>> \in R PROVE i < j
  BY <1>7
<1> HIDE DEF order, R
<1>8. /\ \A k \in 1 .. m : order[k] \in S
      /\ \A e \in S : \E k \in 1 .. m : order[k] = e
      /\ \A j, k \in 1 .. m : j < k => <<order[j], order[k]>> \in R
  BY <1>2, <1>3, <1>4, SortedByPlace
<1> HIDE DEF m
<1>9. Deduped(cs) = [k \in 1 .. m |-> cs[order[k]]] BY <1>5, <1>6
<1>10. LeftBy(cs, m, order) BY <1>7, <1>8, <1>9 DEF S, LeftBy
<1> QED BY <1>2, <1>10

\* A candidate has the first of its run before it.
LEMMA RunHasFirst ==
  ASSUME NEW n \in Nat, NEW cs, DOMAIN cs = 1 .. n, NEW r \in 1 .. n
  PROVE  \E q \in Kept(cs) : q <= r /\ cs[q].surface = cs[r].surface
<1> DEFINE T == {q \in 1 .. r : \A x \in q .. r : cs[x].surface = cs[r].surface}
<1>1. T \in SUBSET Nat /\ r \in T OBVIOUS
<1>2. PICK q \in T : \A k \in T : q <= k BY <1>1, LeastOf
<1>3. q \in 1 .. n /\ q <= r /\ cs[q].surface = cs[r].surface BY <1>2
<1>4. ASSUME q # 1, cs[q].surface = cs[q - 1].surface PROVE FALSE
  <2>1. q - 1 \in T
    <3>1. q - 1 \in 1 .. r BY <1>3, <1>4
    <3>2. ASSUME NEW x \in q - 1 .. r PROVE cs[x].surface = cs[r].surface
      <4>1. x = q - 1 \/ x \in q .. r BY <1>3
      <4> QED BY <1>2, <1>3, <1>4, <4>1
    <3> QED BY <3>1, <3>2
  <2> HIDE DEF T
  <2> QED BY <1>1, <1>2, <2>1, <1>3
<1> QED BY <1>3, <1>4 DEF Kept

\* F-002 of any candidates.
LEMMA BestAreChosen ==
  ASSUME NEW n \in Nat, NEW cs, DOMAIN cs = 1 .. n, \A i \in 1 .. n : cs[i].score \in Int,
         NEW topK \in Nat, NEW i \in 1 .. n
  PROVE  LET chosen == Truncated(Deduped(BestFirst(cs)), topK)
         IN  \/ \E j \in DOMAIN chosen : chosen[j].surface = cs[i].surface /\ chosen[j].score >= cs[i].score
             \/ Len(chosen) = topK /\ \A j \in DOMAIN chosen : chosen[j].score >= cs[i].score
<1> DEFINE bs == BestFirst(cs)
           ds == Deduped(bs)
           chosen == Truncated(ds, topK)
<1>1. /\ DOMAIN bs = 1 .. n /\ \A k \in 1 .. n : bs[k].score \in Int
      /\ \A j, k \in 1 .. n : j < k => bs[j].score >= bs[k].score
  BY BestFirstIsRight
<1>2. PICK r \in 1 .. n : bs[r] = cs[i] BY BestFirstIsRight
<1> HIDE DEF bs
<1>3. PICK q \in Kept(bs) : q <= r /\ bs[q].surface = bs[r].surface BY <1>1, RunHasFirst
<1>4. PICK m \in Nat : \E order : LeftBy(bs, m, order) BY <1>1, DedupedIsRight
<1>5. PICK order :
        /\ ds = [k \in 1 .. m |-> bs[order[k]]]
        /\ \A k \in 1 .. m : order[k] \in Kept(bs)
        /\ \A e \in Kept(bs) : \E k \in 1 .. m : order[k] = e
        /\ \A j, k \in 1 .. m : j < k => order[j] < order[k]
  BY <1>4 DEF LeftBy
<1>6. PICK p \in 1 .. m : order[p] = q BY <1>5
<1>7. Kept(bs) \subseteq 1 .. n BY <1>1 DEF Kept
<1>8. \A j \in 1 .. m : j <= p => ds[j].score >= cs[i].score
  <2> SUFFICES ASSUME NEW j \in 1 .. m, j <= p PROVE ds[j].score >= cs[i].score OBVIOUS
  <2>1. ds[j] = bs[order[j]] /\ order[j] \in 1 .. n /\ q \in 1 .. n BY <1>5, <1>7
  <2>2. order[j] <= q
    <3>1. CASE j = p BY <1>6, <2>1, <3>1
    <3>2. CASE j # p
      <4>1. j < p BY <3>2
      <4>2. order[j] < order[p] BY <1>5, <4>1
      <4> QED BY <1>6, <2>1, <4>2
    <3> QED BY <3>1, <3>2
  <2>3. order[j] <= r /\ order[j] \in Nat /\ r \in Nat BY <1>3, <2>1, <2>2
  <2>4. bs[order[j]].score >= bs[r].score BY <1>1, <2>1, <2>3
  <2> QED BY <1>2, <2>1, <2>4
<1>9. ds[p].surface = cs[i].surface BY <1>2, <1>3, <1>5, <1>6
<1> HIDE DEF ds
<1>10. DOMAIN ds = 1 .. m /\ Len(ds) = m
  <2> DEFINE X == {bs[order[k]] : k \in 1 .. m}
  <2>1. ds \in [1 .. m -> X] BY <1>5
  <2> HIDE DEF X
  <2>2. ds \in Seq(X) /\ DOMAIN ds = 1 .. m BY <2>1
  <2> QED BY <2>2
<1>11. Min({topK, m}) = IF topK <= m THEN topK ELSE m BY DEF Min
<1>12. /\ Len(chosen) = (IF topK <= m THEN topK ELSE m) /\ DOMAIN chosen = 1 .. Len(chosen)
       /\ \A j \in DOMAIN chosen : chosen[j] = ds[j]
  <2> DEFINE l == IF topK <= m THEN topK ELSE m
             X == Range(ds)
  <2>1. chosen = SubSeq(ds, 1, l) BY <1>10, <1>11 DEF Truncated
  <2>2. l \in 0 .. m BY DEF l
  <2>3. \A j \in 1 .. m : ds[j] \in X BY <1>10 DEF Range
  <2> HIDE DEF l, X
  <2>4. ds \in Seq(X) BY <1>5, <1>10, <2>3
  <2>5. /\ Len(chosen) = l /\ DOMAIN chosen = 1 .. l
        /\ \A j \in 1 .. l : chosen[j] = ds[j]
    BY <1>10, <2>1, <2>2, <2>4
  <2> QED BY <2>5 DEF l
<1> HIDE DEF chosen
<1>13. CASE p <= topK
  <2>1. p \in DOMAIN chosen /\ chosen[p] = ds[p] BY <1>12, <1>13
  <2> QED BY <1>8, <1>9, <2>1 DEF chosen, ds, bs
<1>14. CASE ~(p <= topK)
  <2>1. Len(chosen) = topK BY <1>12, <1>14
  <2>2. ASSUME NEW j \in DOMAIN chosen PROVE chosen[j].score >= cs[i].score
    BY <1>8, <1>12, <1>14, <2>1
  <2> QED BY <2>1, <2>2 DEF chosen, ds, bs
<1> QED BY <1>13, <1>14

\* The candidates of a text are counted and have scores.
LEMMA CandidatesHaveScores ==
  ASSUME NEW text \in Texts, NEW lm \in [Phrases(text) -> LmValues]
  PROVE  \E n \in Nat : /\ DOMAIN AllCandidates(text, lm) = 1 .. n /\ DOMAIN Slices(text) = 1 .. n
                        /\ \A i \in 1 .. n : AllCandidates(text, lm)[i].score \in Int
<1> DEFINE D == DOMAIN text
           P == {p \in D \X D : p[1] <= p[2]}
           n == Cardinality(P)
<1>1. n \in Nat
  <2>1. IsFiniteSet(D)
    <3>1. text \in Seq(Range(text)) BY TextsAssumption
    <3>2. DOMAIN text = 1 .. Len(text) /\ Len(text) \in Nat BY <3>1
    <3>3. IsFiniteSet(1 .. Len(text)) BY <3>2, FS_Interval
    <3> QED BY <3>2, <3>3
  <2>2. IsFiniteSet(D \X D) BY <2>1, FS_Product
  <2>3. IsFiniteSet(P) BY <2>2, FS_Subset
  <2> QED BY <2>3, FS_CardinalityType
<1>2. DOMAIN Slices(text) = 1 .. n BY DEF Slices, InOrder
<1> HIDE DEF n
<1>3. DOMAIN AllCandidates(text, lm) = 1 .. n BY <1>2 DEF AllCandidates
<1>4. ASSUME NEW i \in 1 .. n PROVE AllCandidates(text, lm)[i].score \in Int
  <2>1. AllCandidates(text, lm)[i].score = LmScore(lm, Surfaces(Slices(text)[i]))
    BY <1>2 DEF AllCandidates, CandidateOf
  <2>2. ASSUME NEW words PROVE LmScore(lm, words) \in Int
    <3>1. CASE words \in DOMAIN lm
      <4>1. lm[words] \in LmValues BY <3>1
      <4>2. LmScore(lm, words) = NoScore \/ LmScore(lm, words) = lm[words] BY DEF LmScore
      <4>3. lm[words] \in Int BY <4>1, LmAssumption
      <4> QED BY <4>2, <4>3 DEF NoScore
    <3>2. CASE words \notin DOMAIN lm BY <3>2 DEF LmScore, NoScore
    <3> QED BY <3>1, <3>2
  <2> QED BY <2>1, <2>2
<1> QED BY <1>1, <1>2, <1>3, <1>4

\* F-002: what the scorer leaves out is no better than what it returns.
LEMMA ScoredAreTheBest ==
  ASSUME NEW text \in Texts, NEW lm \in [Phrases(text) -> LmValues], NEW topK \in Nat
  PROVE  AreTheBest(Scored(text, lm, topK), text, lm, topK)
<1> DEFINE cs == AllCandidates(text, lm)
           chosen == Truncated(Deduped(BestFirst(cs)), topK)
<1>1. PICK n \in Nat : /\ DOMAIN cs = 1 .. n /\ DOMAIN Slices(text) = 1 .. n
                       /\ \A i \in 1 .. n : cs[i].score \in Int
  BY CandidatesHaveScores
<1>2. \A i \in 1 .. n : cs[i] = CandidateOf(lm, Slices(text)[i]) BY <1>1 DEF AllCandidates
<1>3. chosen = Scored(text, lm, topK) BY DEF Scored
<1> HIDE DEF cs
<1>4. ASSUME NEW i \in 1 .. n
      PROVE  \/ \E j \in DOMAIN chosen : chosen[j].surface = cs[i].surface /\ chosen[j].score >= cs[i].score
             \/ Len(chosen) = topK /\ \A j \in DOMAIN chosen : chosen[j].score >= cs[i].score
  BY <1>1, BestAreChosen
<1> HIDE DEF chosen
<1> QED BY <1>1, <1>2, <1>3, <1>4 DEF AreTheBest

\* Whatever files, text, language model or reply it finds, a command that ends
\* well prints what is worth having.
THEOREM CommandsPrintTheBest == CommandSpec => []CommandPrintsTheBest
<1>1. RerankInit /\ CommandInit => CommandPrintsTheBest
  <2>1. NotRun.ended = "not run" BY DEF NotRun
  <2> QED BY <2>1 DEF CommandInit, CommandPrintsTheBest
<1>2. CommandPrintsTheBest /\ [CommandNext]_<<routingVars, callVars, command>> => CommandPrintsTheBest'
  <2> SUFFICES ASSUME CommandPrintsTheBest, CommandNext PROVE CommandPrintsTheBest'
    BY DEF CommandPrintsTheBest, AreTheBest
  <2>1. ASSUME NEW given, NEW files, ConvertFails(given, files) PROVE CommandPrintsTheBest'
    BY <2>1 DEF ConvertFails, Ends, CommandPrintsTheBest
  <2>2. ASSUME NEW given, NEW files, NEW found \in 0 .. 2, ConvertMozc(given, files, found)
        PROVE  CommandPrintsTheBest'
    <3> DEFINE printed == IF found = 0 THEN <<"reading">> ELSE [i \in 1 .. found |-> "surface"]
    <3>1. command' = [ended |-> "mozc", printed |-> printed] BY <2>2 DEF ConvertMozc, Ends
    <3>2. printed # <<>>
      <4>1. 1 \in DOMAIN printed OBVIOUS
      <4>2. 1 \notin DOMAIN <<>> OBVIOUS
      <4> HIDE DEF printed
      <4> QED BY <4>1, <4>2
    <3> HIDE DEF printed
    <3> QED BY <3>1, <3>2 DEF CommandPrintsTheBest
  <2>3. ASSUME NEW given, NEW files, NEW text \in Texts, NEW topK \in TopKs,
               NEW lm \in [Phrases(text) -> LmValues], ConvertNgram(given, files, text, lm, topK)
        PROVE  CommandPrintsTheBest'
    <3>1. command' = [ended |-> "ngram", text |-> text, lm |-> lm, topK |-> topK,
                      printed |-> Scored(text, lm, topK)]
      BY <2>3 DEF ConvertNgram, Ends
    <3>2. AreTheBest(Scored(text, lm, topK), text, lm, topK) BY TopKAssumption, ScoredAreTheBest
    <3> QED BY <3>1, <3>2 DEF CommandPrintsTheBest
  <2>4. CASE RerankRejected BY <2>4 DEF RerankRejected, Ends, CommandPrintsTheBest
  <2>5. ASSUME NEW machine, NEW declined, NEW works, NEW reply \in Replies,
               RerankCommand(machine, declined, reply, works)
        PROVE  CommandPrintsTheBest'
    <3>1. IsAnswer(AsGiven) /\ IsAnswer(MovedToFront(reply.text))
      BY RepliesAssumption, AsGivenIsAnswer, MovedIsAnswer
    <3> QED BY <2>5, <3>1 DEF RerankCommand, Ends, CommandPrintsTheBest, IsAnswer
  <2> QED BY <2>1, <2>2, <2>3, <2>4, <2>5 DEF CommandNext
<1> QED BY <1>1, <1>2, PTL DEF CommandSpec
=============================================================================
