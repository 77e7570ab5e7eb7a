----------------------------- MODULE RerankCall -----------------------------
(***************************************************************************)
(* One rerank call from its field to its answer: the mode is resolved for  *)
(* the watched class, the dispatcher or a fallback chain chooses who is    *)
(* asked, and the candidates come back in the order the answer asks for    *)
(* (fallback_chain.rs, local_llm.rs, ollama.rs, workers_ai.rs,             *)
(* local_ngram.rs, memory_estimator.rs under crates/llmime-core/src/       *)
(* inference).  A backend may answer anything, fail, or leave the call to  *)
(* the chain's timeout; what a cloud call goes through on its way is in    *)
(* CloudInference.  Candidates are known by their positions.               *)
(***************************************************************************)
EXTENDS ModeRouting, Sequences, SequencesExt, FiniteSetsExt, Sorting

CONSTANTS
  Scores,      \* the candidates' scores, in tenths
  Sizes,       \* the candidates' lengths in characters
  Replies,     \* what a model may say: json is the best_index of a JSON
               \* object in it, NoIndex, or Inverted if its last closing brace
               \* comes before its first opening one; text all of its digits
               \* and others
  Machines,    \* what is known of a model file and the memory, in tenths of GB
  MaxCalls     \* bound: calls made

ASSUME CandidatesAssumption ==
  Scores \in Seq(Int) /\ Sizes \in Seq(Nat) /\ Len(Scores) = Len(Sizes)
ASSUME RepliesAssumption ==
  \A reply \in Replies : reply.json \in Int /\ reply.text \in Seq(Nat)
ASSUME CallsAssumption == MaxCalls \in Nat

VARIABLES
  llm,         \* the local model: "loaded", "stub", "unavailable"
  call,        \* the call under way, or NoCall
  answer,      \* positions of the candidates in the order delivered
  named,       \* history: the candidate the answering model named, or NoIndex
  calls        \* history: calls made

callVars == <<llm, call, answer, named, calls>>

NoIndex == -1
Inverted == -2
Other == 10    \* any character of a reply that is no digit
\* The prompts number the candidates from one.
Positions == 1 .. Len(Scores)
AsGiven == [i \in Positions |-> i]

-----------------------------------------------------------------------------
(* The memory check and the local model *)

\* estimate_required_gb: 1.2 times the file, or 2 GB if there is none.
RequiredMemory(m) == IF m.size = NoIndex THEN 20 ELSE (m.size * 12) \div 10

\* check_memory_for_model: unknown memory is enough.
MemoryCheck(m) ==
  CASE m.free = NoIndex -> "ok"
    [] m.free # NoIndex /\ m.free < RequiredMemory(m) -> "insufficient"
    [] m.free # NoIndex /\ m.free >= RequiredMemory(m)
         /\ 10 * m.free < 15 * RequiredMemory(m) -> "warning"
    [] OTHER -> "ok"

\* show_memory_warning_dialog, asked only then; without a dialog it goes on.
Refused(m, declined) == MemoryCheck(m) = "insufficient" /\ declined

\* LocalLlmInferencer::new, and new_unavailable wherever it fails: without the
\* feature a file that exists makes a stub.
NewLlm(m, declined) ==
  CASE m.path /\ ~m.feature /\ m.size # NoIndex -> "stub"
    [] m.path /\ m.feature /\ m.size # NoIndex /\ ~Refused(m, declined) -> "loaded"
    [] OTHER -> "unavailable"

-----------------------------------------------------------------------------
(* What an answer says *)

Digits == 0 .. 9
Number(text) == FoldLeft(LAMBDA n, d : 10 * n + d, 0, text)
IsNumber(text) == text # <<>> /\ Range(text) \subseteq Digits
FirstOf(text, wanted) ==
  LET found == {i \in DOMAIN text : text[i] \in wanted}
  IN IF found = {} THEN NoIndex ELSE text[Min(found)]

\* Fault: an index that counts from one is tested as if it counted from zero.
Whole_FromZero(text) ==
  IF IsNumber(text) /\ Number(text) + 1 \in Positions THEN Number(text) + 1
  ELSE FirstOf(text, Digits \cap Positions)

\* parse_best_index of ollama.rs: the number the text is, else its first digit
\* that names a candidate.
WholeOrDigit(text) ==
  IF IsNumber(text) /\ Number(text) \in Positions THEN Number(text)
  ELSE FirstOf(text, Digits \cap Positions)

\* parse_best_index of workers_ai.rs: first the JSON's best_index; if that names
\* no candidate the digits of the text are tried, the JSON's own included.
BestIndex(reply) == IF reply.json \in Positions THEN reply.json ELSE WholeOrDigit(reply.text)

\* Fault: the chosen candidate overwrites the first one.
Swapped_Lost(i) == IF i = NoIndex THEN AsGiven ELSE [AsGiven EXCEPT ![1] = i]

\* candidates.swap(0, best_idx).
Swapped(i) == IF i = NoIndex THEN AsGiven ELSE [AsGiven EXCEPT ![1] = i, ![i] = 1]

\* apply_rerank_response of local_llm.rs: the first digit, whatever follows it,
\* moves one candidate to the front; zero means the first.
MovedToFront(text) ==
  LET digit == FirstOf(text, Digits)
      i == IF digit = 0 THEN 1 ELSE digit
  IN IF i \in Positions
     THEN [k \in Positions |-> IF k = 1 THEN i ELSE IF k <= i THEN k - 1 ELSE k]
     ELSE AsGiven

\* LocalNgramInferencer::rerank: long candidates lose a tenth per character;
\* the sort is stable.
Value(i) == Scores[i] - Sizes[i]
Outscores(i, j) == Value(i) > Value(j) \/ (Value(i) = Value(j) /\ i < j)
Sorted == InOrder(Positions, Outscores)

\* What a reply names beyond doubt: the JSON's index, or a single digit.
Names(backend, reply) ==
  CASE backend = "workers" /\ reply.json \in Positions -> reply.json
    [] reply.json = NoIndex /\ Len(reply.text) = 1
         /\ reply.text[1] \in Digits \cap Positions -> reply.text[1]
    [] OTHER -> NoIndex

-----------------------------------------------------------------------------
(* The call *)

NoCall ==
  [stage |-> "idle", focus |-> "Unknown", open |-> FALSE,
   wanted |-> FALSE, to |-> "ngram", chained |-> FALSE]

CallInit ==
  /\ \E m \in Machines, declined \in BOOLEAN : llm = NewLlm(m, declined)
  /\ call = NoCall
  /\ answer = <<>>
  /\ named = NoIndex
  /\ calls = 0

\* FocusWatcher::current.  History: the field is one the system calls harmless,
\* or the watcher has not caught up with the focus.
Ask ==
  /\ call.stage = "idle" /\ calls < MaxCalls
  /\ calls' = calls + 1
  /\ call' = [NoCall EXCEPT !.stage = "asked", !.focus = watched,
                            !.open = settled => Class(field) = "NonSensitive"]
  /\ answer' = <<>> /\ named' = NoIndex
  /\ UNCHANGED <<llm, routingVars>>

\* History: the user had chosen the cloud himself, and the mode was resolved in
\* a way that lets him.
Asks(way, to, chained) ==
  /\ call.stage = "asked"
  /\ call' = [call EXCEPT !.stage = "running", !.wanted = Wanted(way, Mode),
                          !.to = to, !.chained = chained]
  /\ UNCHANGED <<llm, answer, named, calls, routingVars>>

\* select_inferencer with the resolved mode; its inferencer is asked directly.
Dispatch(way, length) ==
  Asks(way, SelectInferencer(Resolve(way, call.focus, Mode), TokenCount(length)), FALSE)

\* default_fallback_chain with the resolved mode; and new_local_llm_mode.
Chain(way) ==
  Asks(way, Primary(Resolve(way, call.focus, Mode)), TRUE) \/ Asks(way, "llm", TRUE)

Delivers(order, name) ==
  /\ call' = NoCall
  /\ answer' = order /\ named' = name
  /\ UNCHANGED <<llm, calls, routingVars>>

\* A backend's whole handler: the prompt, the request and what its answer does.
WorkersReplies(reply) ==
  /\ call.stage = "running" /\ call.to = "workers" /\ reply.json # Inverted
  /\ Delivers(Swapped(BestIndex(reply)), Names("workers", reply))

\* parse_best_index slices from the first brace to the last: the call panics,
\* and no fallback is asked.
WorkersPanics(reply) ==
  /\ call.stage = "running" /\ call.to = "workers" /\ reply.json = Inverted
  /\ Delivers(<<>>, NoIndex)

OllamaReplies(reply) ==
  /\ call.stage = "running" /\ call.to = "ollama"
  /\ Delivers(Swapped(WholeOrDigit(reply.text)), Names("ollama", reply))

\* There is nobody to ask without a loaded model.
LlmReplies(reply) ==
  /\ call.stage = "running" /\ call.to = "llm" /\ llm = "loaded"
  /\ Delivers(MovedToFront(reply.text), Names("llm", reply))

\* An in-memory n-gram model, and the stub of the local one, change nothing.
Unchanged ==
  /\ call.stage = "running"
  /\ call.to = "ngram" \/ (call.to = "llm" /\ llm = "stub")
  /\ Delivers(AsGiven, NoIndex)

\* The dispatcher's n-gram model may have a file, which may be missing.
Rescored ==
  /\ call.stage = "running" /\ call.to = "ngram" /\ ~call.chained
  /\ Delivers(Sorted, NoIndex) \/ Delivers(<<>>, NoIndex)

\* The backend fails, or its own timeout passes.
MayFail == call.stage = "running" /\ call.to # "ngram" /\ ~(call.to = "llm" /\ llm = "stub")

\* A dispatched call returns the error.
Fails == MayFail /\ ~call.chained /\ Delivers(<<>>, NoIndex)

\* A chain, whose own timeout may pass too, asks its fallbacks.
FallsBack ==
  /\ MayFail /\ call.chained /\ Fallbacks(call.to) # {}
  /\ call' = [call EXCEPT !.to = "ngram"]
  /\ UNCHANGED <<llm, answer, named, calls, routingVars>>

CallNext ==
  \/ Ask
  \/ \E way \in Ways : Chain(way) \/ \E length \in Lengths : Dispatch(way, length)
  \/ \E reply \in Replies :
       WorkersReplies(reply) \/ WorkersPanics(reply) \/ OllamaReplies(reply) \/ LlmReplies(reply)
  \/ Unchanged \/ Rescored \/ Fails \/ FallsBack

RerankInit == RoutingInit /\ CallInit
RerankNext ==
  \/ FocusNext /\ UNCHANGED callVars
  \/ ModeNext /\ UNCHANGED callVars
  \/ CallNext

RerankSpec == RerankInit /\ [][RerankNext]_<<routingVars, callVars>>

-----------------------------------------------------------------------------
(* Properties *)

\* NF-032, from the system's description of the field to the network, whatever
\* modes, overrides and focus changes came before or in between: a call that is
\* with the cloud service was resolved for a harmless field; or the user himself
\* had chosen Performance and the call was not resolved the secure way.  Hybrid
\* alone never leads there.  And a field is harmless if the system says so, or
\* the class of the field with the focus was not the last one stored.
CloudOnlyFromOpenFields ==
  call.stage = "running" /\ call.to = "workers" =>
    /\ call.focus = "NonSensitive" \/ call.wanted
    /\ call.focus = "NonSensitive" => call.open

\* Whatever a model says, a call delivers every candidate once, or an error.
AnswersArePermutations ==
  answer # <<>> => Len(answer) = Len(Scores) /\ Range(answer) = Positions

\* A reply that names a candidate puts it first.
NamedCandidateFirst == named # NoIndex => answer[1] = named
=============================================================================
