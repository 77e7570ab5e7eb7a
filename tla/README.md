# Specifications of llmime

llmime is a Japanese input method: a Rust core (`crates/llmime-core`) that converts
kana to kanji, reranks the candidates with local or cloud language models, and is
driven by a macOS input method (`crates/llmime-imk`), a Windows text service
(`crates/llmime-tsf`) and a command line (`crates/llmime-cli`).  These TLA+ modules model
the parts of it whose correctness depends on the order of events, or on an algorithm that a
handful of examples cannot cover.  TLC checks them on small instances; TLAPS proves the
most important results for every value of the constants.

Paths below are relative to `src/`; `core/` stands for `crates/llmime-core/src/`.
`PROJECT.json` maps every definition to the lines it models, and lists runs,
mutants, findings, hazards and theorems.

## The system

### Components

| Component | State | Operations | Hard because | Correct when |
|---|---|---|---|---|
| Async pipeline (`core/pipeline/async_pipeline.rs`) | bounded channel, worker's current request, cancel flag, permits, spawned tasks | `submit`, `cancel`, debounce window, permit, inference, drop | callers, worker, tasks and cancel interleave; tasks panic; the pipeline is dropped under its requests | every call returns once, the latest input is never dropped, a later input overtakes fewer earlier ones than there are permits, no permit leaks |
| Live conversion (`core/ux/live_conversion.rs`, `imk_adapter.rs`, `tsf_adapter.rs`) | consent file's answer, pipeline | `on_input_change`, `cancel_pending` | consent changes at any time; cancel comes from another thread | a cancel ends the input it was meant for |
| Rerank queue (`core/rerank/rerank_queue.rs`) | pending batch and generation, delayed flush tasks, bounded channel | `enqueue` (merge, replace), delayed flush, `try_send` | each call starts a timer that races with later calls; a full channel drops | no call is lost, doubled or stuck; batches are windows of their calls' tokens |
| Cloud inference (`core/inference/{fallback_chain,workers_ai,retry,cost_guard,cost_monitor}.rs`) | cost counters, deadline and attempts per call | `rerank`: consent, cost guard, retries, bodies, cost record, chain timeout, fallback | timeouts drop the call at any await; guard, record and the reading of the answer are not one step; a gateway's refusal may be charged | every call ends, caps hold up to concurrency, a call is charged for its tries at most and for none after an accepted one, what is recorded was charged |
| Modes and fields (`core/inference/{mode,override_manager,dispatcher,builder}.rs`, `core/field`, field detectors of both systems) | watched class, mode, override and its expiry | focus change, set mode, override, expire, resolve, select | the class is read and stored at different times; overrides expire unseen; there are three ways to resolve a mode | a protected field reaches a cloud engine only before the watcher has caught up, or where the user chose that and his caller heeds it |
| Mode indicator (`mode_indicator.rs` of both systems) | - | shows the mode its caller gives | not modelled: nothing calls it | - |
| Local inference (`core/inference/{local_llm,ollama,local_ngram,memory_estimator}.rs`) and the answers of the cloud client | model handle | memory check, `rerank`, parsing of replies | models say anything | every answer is a permutation of the candidates, and a reply that names one puts it first |
| Kana-kanji conversion (`core/reading_index/*`, `core/user_dict`) | beams of the search | one expansion per position | pruning, fallback and multi-character words interact | every reading has a candidate, candidates spell it, uncut searches are complete |
| Scoring, language model, morphology (`core/{scoring,lm,morphology}`) and the command line | none | slices, scores, sort, duplicates, cut; `convert`, `rerank` | ties, missing scores, other words with the same surface | what is printed is the best |
| Selection triggers (`core/rerank/selection_trigger.rs`, `imk/src/selection_watcher.rs`, `tsf/src/selection_sink.rs`) | remembered and pending selection, composition flag | composition, selection change, poll, shortcut | three debouncers that remember at different moments | a held selection is emitted by the next poll, and never into a composition |
| Rerank UX (`core/rerank/{streaming_boundary,update_gate,animation_scheduler,selection_reranker,inline_popup}.rs`, `inline_popup_layer.rs`, `text_replace.rs`) | detector's tokens, animation, card, undo groups | feed, plan, end of an animation, show, hide, replace | ends are reported late; reranks overlap; the selection moves; insertions fail | the host knows each boundary once, the running highlight is known |
| macOS input method (`llmime-imk`) | registry of sessions, controllers, marked text and panel | callbacks of the input method kit | host callbacks in any order, buffers, reuse of addresses | the screen stands for the session; a consumed key is taken |
| Windows text service (`llmime-tsf`) | preedit, cursor, sinks | keys, activation, text store calls | the manager's view is old, callbacks fail inside locks | a reported change is the change made, a query's where the next insertion goes; the sink survives |
| Model files (`core/inference/{model_downloader,model_scanner}.rs`, detection in `config.rs`) | `.partial` and model files | download, checksum, rename, scan, detect | two downloads share a `.partial`; crashes leave one behind; a write may land after its download has ended | a model found is whole |
| Configuration (`core/config.rs`) | `config.toml` | load with environment, patch and save, edits by hand | read and write are not one step, the write neither | a save loses nothing it does not set, and the next start uses what was saved |
| Consent (`core/consent.rs`) | `consent.json` | record, revoke, read | writes by several processes are torn | a revoked consent stays revoked |
| History (`core/history`) | SQLite tables | record, boost, vacuum, reset | several processes, two-statement updates | a row's count has every selection that succeeded, once |
| Inference support (`latency_tracker`, `warmup`, `token_counter`, `capabilities`) | samples, flags | record, warm up once | - | - |
| Settings application and scripts | - | - | - | - |

### How they interact

A key handler (macOS or Windows adapter) blocks on `LiveConversionHandler::on_input_change`,
which checks consent and submits to the `AsyncPipeline`.  The pipeline's worker hands one request
at a time to spawned tasks that call an `Inferencer`; that is usually a `FallbackChain`, whose
primary may be the Workers AI client with its consent manager and cost guard, and whose
fallbacks are local.  Which inferencer is asked follows from the mode, its temporary override and the
class of the focused field.  Candidates come from the beam search over the reading index.
Independently, boundaries in the typed text are enqueued in the `RerankQueue`, and
selections confirmed by the selection triggers ask for reranking, whose result the popup shows and the
host puts in place.  Consent, configuration, models and history are files shared by processes; the cost
counters are shared by all calls of one process.

## Modules

| Module | Models | Role |
|---|---|---|
| `InferenceService` | what the pipeline promises: call, begin, finish, return, give up | abstract specification |
| `AsyncPipeline` | the pipeline; one action per await point of `submit`, `run_worker` and the spawned task | component; declares the refinement mapping `Service` |
| `LiveConversion` | consent check, submit and cancel on top of `AsyncPipeline` | composition |
| `RerankBatch` | token selection, coalescing, merge | pure operators |
| `RerankService` | what the rerank queue promises: a call waits until it is served or lost | abstract specification |
| `RerankQueue` | `enqueue`, delayed flush, `try_send`, the receiver | component; declares the refinement mapping `Service` |
| `MeteredService` | what a cloud call promises who pays: consent, cap, charges bounded by the tries and none after an accepted one, only charged calls recorded | abstract specification |
| `CloudInference` | one rerank call through chain, client, retry loop, guard and monitor | component; declares the refinement mapping `Metered` |
| `ModeRouting` | field, watcher, modes, override, dispatcher | component |
| `RerankCall` | a call from its field to the candidates it delivers, on top of `ModeRouting` | composition |
| `Scoring` | the n-gram scorer with the tokenizer's readings | pure operators |
| `Command` | the command line, on top of `RerankCall` and `Scoring` | composition |
| `ModelFiles`, `HistoryStore`, `ConfigFile`, `ConsentFile` | the four kinds of shared files | components |
| `Files` | one of the four at a time | composition |
| `MacSession`, `WindowsService`, `RerankFeedback`, `SelectionPopup`, `Selection` | what faces the user | components |
| `Frontend` | one of the five at a time | composition |
| `Lattice` | the beam search over Mozc or user dictionary | algorithm as a state machine |
| `Sorting` | `sort_by` of the standard library | pure operator |
| `*Proofs` | - | proofs, one module per component or composition |
| `DataLemmas` | - | induction, sums and sorting, for the proofs |
| `MC*` | instances for TLC | model checking |

`Files` and `Frontend` join components that share no state: a behaviour chooses one in its initial state
(`part`) and is about that one only.  So one run checks each of them alone, instead of a product in which nothing interacts.
Operators named `X_Something` with a comment that starts with "Fault:" are broken variants of the
definition `X`, used to confirm that a property notices them.  No specification uses them.

### AsyncPipeline

`caller[r]` is where the future of the `submit` call `r` stands, `channel` the mpsc channel,
`worker` the await point of `run_worker`, `current` its local variable, `permits` the semaphore, and `spawned`, `running` and
`releasing` the tasks that were not polled yet, that run the inferencer, and that have answered; all of them own a permit.
`Supersede`, `DebounceElapsed` and
`DebounceClosed` are the branches of the `select!`.  It is `biased`: the channel is polled first, so the timer decides only
when the channel was found empty and open (the guards of `DebounceElapsed`); a request that arrives between the two polls is
one that arrives after the window.  `CheckCancelled`/`CheckPassed` is the `swap` of the flag.  `Spawn` is `tokio::spawn`
and `TaskBegins` the first poll of the task: on a runtime with several threads two spawned tasks may call the inferencer in either
order, so the order of the channel is kept up to the permits only (`BoundedOvertaking`).  `TaskPanics` is an inferencer that
panics (one does: `workers_ai.rs:160` slices a reply whose last closing brace comes before its first opening
one): the reply channel and the permit are dropped with the task, in one step, as nobody observes
them apart.  `Close` happens when the last handle is dropped, which the callers' borrows allow only when
no caller waits.  `ticket`, `sent` and `lastSpawned` are history.  The cancel flag is stored with `Release` and swapped with
`AcqRel`; as the only atomic here it is one variable, read and written in one order.

### LiveConversion

Adds `CheckConsent` (which reads the file) and `SubmitInput` as separate steps, because consent
may change between them, and `CancelPending`.  The platform adapters only block on the handler and turn
an error into an empty candidate list, so they add no state.

### RerankBatch and RerankQueue

A request is a set of token spans and a text context; `Targets`, `CanCoalesce` and `Merge` follow the code,
the tightest-window cut included.  `enqueue` runs under a lock and is one step per outcome
(`EnqueueNothing`, `EnqueueFirst`, `EnqueueMerged`, `EnqueueReplacing`).  A batch that left
`pending` is in `pushed` until its task runs `try_send`, in any order.  Time is not a number: a
timer that wakes without a later update has slept for a whole window; with a later update it may or may not
have.  A window of zero milliseconds is a constant.  `Status` says of each call where its batch is (new, nothing to rerank, waiting,
served, lost) and `Handed` what the worker was given: to who types and to the worker the queue is `RerankService`.

### CloudInference

`stage[c]` walks through the awaits of one call: `consent`, `day`, `hour` checks, `attempt`, `sending`, `errorBody`, `backoff`,
`body`, `recordDay`, `recordHour`, `parse`, `fallback`, `panicked`.  `ChainElapses` drops the future at any of the
awaits; `expired[c]` is the client's own deadline, which covers the sending and the
retries but not the bodies.  A request dropped while it is sent may or may not have been served and charged
(`Dropped`), and so may a refused one: a 502 or 504 can come from a gateway after the service did its work, and is
retried (`Refused`, `ErrorBodyRead`).  The cost is recorded before the answer is read: `Deliver` returns the candidates,
`ParsePanics` is the slice at `workers_ai.rs:160`, which unwinds through the chain, so that the call ends without answer or fallback.  Cost is counted in requests of one price.  The socket's own timeout (30 s) never comes
before the deadline and is left out.  `Meaning` says what a stage is to who pays (idle, asking, agreed, admitted, charged, recorded, local), which maps
the component to `MeteredService`; `StepsLeft` counts the steps a call can still take.  `ResetHour` and `ConsentChanges` come at any time.

### ModeRouting and RerankCall

`field` is what the system says of the focused field; `Class` is the platform detector's answer.  A watcher classifies a
focus change outside its lock (`classifying[w]`) and stores the class later, so that the classes of two changes can be
stored in the wrong order and the watcher keep the wrong one.  An override expires when the clock passes `expires`, and nobody is told.
Nothing outside the tests calls watcher, mode, override and dispatcher together: a call here does what
`tests/nf032_integration.rs` and `tests/p5_e2e_integration.rs` do, and resolves its mode in any of the three ways there are
(`Resolve`): by the class alone, with the override, or secure.  `Wanted` says that the user chose Performance
and that the way heeds him.  `CloudOnlyFromOpenFields` is about all three: what goes to the cloud was classified as harmless or wanted;
the secure way knows no want.  `settled` and the call's `open` are history: that the present field is
the one the watcher knows, and that the call's field was harmless or the watcher had not caught up.  While the class of an older field
stands in the watcher the code cannot know better, so the property asks nothing of the field then, only of the class and the resolution.

A call chooses a chain or the dispatcher's choice, a backend answers, fails, panics, or is left to the chain's
timeout and its fallback.  Candidates are positions; `MovedToFront` and the JSON variants are the three
parsers, each with its own idea of a number (`Replies` is a set of digits and others, not of strings).  The way of a cloud call
through retries and guards is in `CloudInference`.  Whether a local model is loaded follows from the memory check
(`NewLlm`) over files and memories known or not.

### Scoring and Command

A text is what the tokenizer makes of it; a candidate is a consecutive part with its score, sorted stably, duplicates of a
neighbour removed (which is what `dedup_by` does: the same surface with another score in between remains), cut to
`top_k`.  A sort is `InOrder` of the module `Sorting`: the element at a place has as many before it, by score and, the sort being
stable, by the place it had.  `Command` follows `main.rs` from the files that are there to what is printed.

### Shared files

`ModelFiles`: a file is an inode, so that a handle goes on writing after a rename; `got` is what the hasher has seen.  Two
downloads truncate and write one `.partial`.  A stream breaks, lies or is too long, and the process may die at any
step; one bad chunk stands for whatever else the stream brings.  `tokio::fs::File` writes on a blocking thread, so that a download that
broke or was dropped may leave a write behind that lands later (`flying`, `WriteLands`).  `ConsentFile` and `ConfigFile`: `fs::write` is two steps, cut and write, each of which may be the last.
`ConfigFile` knows the mode and the local table, which the patching replaces, and two keys it must keep (`foreign`: credentials and the
models' search paths), edits by hand that do not
parse, and what the next start makes of the file, the default mode included.  `HistoryStore`: a statement is atomic, a method is several, and errors of a statement count as zero rows, as in the code:
a reset whose first DELETE failed goes on to its second.  Keys
are what rows are told apart by; the boost sums over the rows of a reading and a surface, whatever came before them.

### Hosts

`MacSession`: a controller's address is the id of its session; ids that are not in the registry are ignored by `with_session` while the
C functions still answer "consumed".  Text is cut to the caller's buffer by bytes (`Read`); if that leaves no valid
UTF-8 the controller reads nil, which empties the marked text and raises in the list of candidates.  `drawn` says how the last callback that
drew ended: whole, raised (a list with nil, or a second `insertText` outside of any `@try`), or alone, without a client.  `WindowsService`: `claimed` separates `OnTestKeyDown` from `OnKeyDown`; `lent` is
the sink while its callback runs; `view` is the length of the document as the manager last read it, which bounds the ranges it
uses; `change` is what the last call filled the reported change with, by setting, by inserting or by a query, which reports
the insertion without making it.  `RerankFeedback`: positions are sums of the lengths of the tokens before; `told` is what the host was told per position; animations end on the screen
before their end is reported.  `SelectionPopup`: any number of reranks are under way, the card shown is
that of the last to answer; `selected` is the client's selection, which moves meanwhile.  A replacement is an insertion with a second attempt inside an undo
group; it goes where the client's selection is *then* (macOS) or to the ranges its caller gives (Windows), and nobody is told if both attempts
were refused.  The code promises nothing of this that could fail, so the module has no property of its own.
`Selection`: one module for the three debouncers, whose code differs in when a selection is remembered:
when it is seen (macOS) or when it is emitted (core, Windows); only the core's asks for
modifier keys.  The text of a selection is left out: an empty text and an empty range are treated alike by the code
and are one value, `NoRange`.

### Lattice

One step is one turn of the loop over positions: `Expand` cuts the beam, looks up the
matches, extends every path and files the extensions; `Finish` selects the answer.  A path keeps
its placed words (where from, where to, which dictionary entry) instead of surfaces, its last class and its score; `at` is
its place in the code's vector, which decides ties because the sort is stable.  `Length` is the
length the index reports: in characters for Mozc, in bytes for the user dictionary.  Scores
are scaled to integers and the language model is a constant operator.  `Segmentations` is the reference definition that an uncut
search is compared with: the sets of placed words that cover each character once.

## Runs

| Run | Specification and bounds | Shows |
|---|---|---|
| `live_conversion_safety` | `LiveSpec`; 3 inputs, 2 permits, channel of 1, 2 cancels; symmetric inputs | every waiting caller is owed an answer by exactly one party, the latest input is never debounced, a later input overtakes fewer earlier ones than there are permits, a cancel stops what waits in the window, whoever waits can move or somebody can for him, only new calls make work |
| `pipeline_live` | `FairSpec`; 3 requests, 1 permit, channel of 1 | every `submit` returns; the pipeline implements `InferenceService`, of which "closed" is no answer |
| `cancel_outlives_its_target` | `LiveSpec`; 1 permit | finding: a cancel that finds nobody waiting ends a later input |
| `rerank_queue` | `FairSpec`; 5 calls: two that merge beyond the window of 3, two elsewhere, one with nothing to rerank; channel of 1 | calls are accounted for once, a pending batch has a timer that will take it, every call leaves the queue; the queue implements `RerankService`, whose requests are windows |
| `cloud_inference` | `FairSpec`; 2 clients, 4 calls, 1 retry, hour limit 0, day limit 1 (in requests) | overshoot of a cap is at most a request per client, what is recorded was delivered, died in the parser or is about to do either, every call ends, each of its steps brings it nearer to its end; the chain implements `MeteredService`, in which a call is charged for its tries at most and for none after an accepted one |
| `cost_cap_leaks` | as above | finding: an unrecorded request leaves the cap open |
| `rerank_call` | 4 fields of two systems, 2 watchers, all three resolutions, 2 modes to set, overrides of 1 tick, both optional inferencers, lengths on both sides of the threshold, 3 candidates, 9 replies, 16 machines; texts of up to 3 morphemes with the same characters | a cloud call was made for a class known to be harmless, or was wanted and not resolved the secure way, answers are permutations, a named candidate comes first, the command prints the best |
| `files` | 2 downloads of a model of 2 chunks beside another model, 1 late write; 2 processes, 4 keys of which two share reading and surface, 3 rows and 4 selections; 2 savers and 2 edits, the default mode and a name that is none; 3 parties of consent | a model found is whole, counts have every selection, saves that do not overlap lose nothing and are what the next start uses, revoked consent stays revoked |
| `frontend` | 2 controllers at 2 addresses, 3 typed characters of 1 and 3 bytes, buffers that cut inside and between them; documents of 3 units; texts of 3 tokens that split and join, 3 animations; 2 tokens to select, a selection that moves, answers of 3; 3 ranges, delay 2, 6 ticks | see below |
| `mac_reactivation` | as above | finding: after a reactivation keys are consumed and lost |
| `lattice` | all readings up to 3 of 2 characters, all dictionaries of up to 3 of 6 words, both indexes, beam widths 1, 2, 8 | candidates spell the reading, every reading has one, an uncut search finds each segmentation once, beams keep their width |
| `lattice_user` | user dictionary | finding: byte lengths move paths to wrong positions |

`frontend` checks, on macOS, that marked text and panel are the session's texts, or whole characters of their beginning where a buffer is too
small (`StandsFor`), and that after a callback that was cut short the marked text is old only when the session is empty
(`ScreenShowsSession`); on Windows, that a reported change describes the edit and a query's the insertion that follows it (`ChangeDescribesEdit`), and that a sink survives locks; that
the host knows each boundary as the tokens have it now (`HostKnowsBoundaries`); that a running highlight is the one the scheduler can end; and for the three debouncers that they are silent
while composing, that a held selection is emitted by the next poll, and that macOS emits what is selected.

**Why the bounds are enough.**  Three requests with one channel slot put one in the worker, one
in the channel and one blocked in `send`, which is every position a request can have; a second permit lets
two tasks end in any order.  Two cancels distinguish "the flag was set twice" from "set once".  Five rerank calls
cover every branch of `enqueue`, the cut of the merge, a timer for each generation, and a full
channel.  Two clients are the smallest number that races between guard and record, and a limit of zero puts the cap
at the boundary; four calls let each client come back after the other overshot.  Two watchers can store
their classes in the wrong order; the fields are one of each way to a class.  Two downloads, savers and
processes race in every way a third could; one late write is enough to meet the next download's file; consent has three parties so that a revoke can meet a torn write of two
others.  Two addresses allow a controller to be born where another died; three characters of one and three bytes
reach both buffers' limits.  Three ranges and
three delays of time allow a selection to be replaced, repeated and interrupted.  Three
characters of a reading allow a word inside, before, after and across another; a beam width of 8 is never exceeded, 1 and
2 are.  The theorems below do not depend on these bounds.

`MCRerankCall` splits the product of routing, answers and commands into parts that hardly touch; each
behaviour is about one of them, and each part keeps the whole of the state its properties read.

**Deadlock** is checked where the system never stops, and for the pipeline it is also the invariant `NobodyIsStuck`, which speaks of
guards instead of ENABLED.  `AsyncPipeline` has an explicit `Quiescent` step, so a state in which
something is still owed and nothing can move would be reported; `cloud_inference` and `frontend` never stop.  `rerank_queue` (all calls
made), the `lattice` runs (the search returned), `rerank_call` (the command ended, the clock at its bound) and `files` (bounds reached) do stop, and `cancel_outlives_its_target` bounds its cancels and inputs.

**Fairness.**  The pipeline: weak fairness of the worker, of each task and of each receiving caller, because the
tokio runtime polls every ready task and `rerank` is obliged to return; strong fairness of each
`send`, because the channel's semaphore serves blocked senders in order, so one cannot be overtaken for ever.  Nobody is obliged
to submit, cancel, abandon or drop.  The queue: timers wake and spawned tasks run.
The cloud client: the process runs its own steps and the chain's timer fires; the service, the network and
the client's own deadline owe nothing.  The other modules need no fairness: their properties
say what holds at every moment, or what the answer of a call is.

## Proofs

All theorems hold for every value of the constants under the named assumptions of the component's module.  Every
invariant, action property and refinement that a run checks is a theorem; what is left to TLC alone is liveness.  The theorems
`PermitsAreConserved`, `ClosedUnheard`, `BatchesStayWindows` and `CloudTypeCorrect` say more of the inside of a component than
the refinement or the invariant that rests on them, and only the latter is checked in a run: a lost permit is found by `NobodyIsStuck`, a "closed" that a caller
hears by `InferenceService`, a batch cut wrong by `RerankService`, one repeat too many by `EveryStepBringsTheEnd`.

**Data** (`DataLemmas`).  Lengths, sums and sorts need induction over data, and the library's induction theorems take
an operator as a parameter.  Here a predicate is a *set*: if a set of numbers has 0 and with each number the next, it
has all of them (`InductionOnNat`), and likewise for the subsets of a finite set (`InductionOnSubsets`); both by the minimal
counterexample that a well-founded set of pairs has (`WFMin`).  From these follow the sums (`SumTakesOut`, `SumOfUnion`, `SumOfRenamed`,
`SumIsMonotone`: the `CHOOSE` in the community module's fold has a solution, and only one) and the sorts (`SortIsRight`: a total order gives each
element a place of its own, so that what `InOrder` chooses exists and is unique).

**Pipeline** (`AsyncPipelineProofs`).  `TypeCorrect` is inductive by itself.  The properties
are not: `BoundedOvertaking` needs to know that tickets in the channel increase and lie above the worker's and the
last spawned (`OrderInv`), so that what a task passes is spawned or running itself and owns one of the permits (`PermitInv`); `EveryWaiterIsOwed` needs that a request is in one place only, that who is
in none has a reply, and that an unsent request is nowhere (`OwnerInv`, which rests on `OrderInv` for the uniqueness of
tickets); `PermitsConserved` needs finiteness and disjointness of the two sets of tasks (`PermitInv`).
`LatestSurvives` and `ClosedUnheard` follow from the same invariants.

**Refinement** (`AsyncPipelineProofs`).  `PipelineImplementsService`: under the mapping
`Service`, initial states map to initial states; submitting, receiving, abandoning, a task's first poll, its release
and its panic map to the service's actions and everything else to a stutter.  `LiveImplementsPipeline`: every step of
`LiveConversion` is a step of the pipeline or none, so that the pipeline's theorems hold under its adapters.  On that rests
`CancelsStopTheirTargets`: a request that was in the window when the cancel came is never queued again, and while the worker holds it the
flag is up (`CancelInv`).

**Rest** (`AsyncPipelineProofs`).  The two halves of liveness that need no fairness.  `NobodyGetsStuck`: if there is a permit at all, whoever waits
can move, or the worker or a task can; a worker that waits for a permit finds one free or a task that owns it (`PermitInv`), and one that has exited left
nobody behind (`ExitInv`).  It is assumed that `max_concurrent` is not zero, which the code does not check: with no permits the
pipeline takes one request and waits for ever.  `OnlyNewCallsMakeWork`: `WorkLeft` weighs callers, channel, worker and tasks so that every step but a call's first
takes some away (the sets it counts are finite, `CallsAreFinite`).  Restarted windows, cancels and panics therefore cannot keep the pipeline busy.

**Rerank queue** (`RerankQueueProofs`).  `PendingBatchHasTimer`: the timer spawned by the last call is asleep, because a
timer with the batch's generation and its last update finds the window elapsed and takes the batch.  `CallsAreHeldOnce`: `OnceInv` says of
each call that at most one batch has it, at one place, and that one has it if there was something to rerank; a step
moves one batch, or all of the channel's, and a new call is in none.  `HeldOnceIsCounted` turns it
into the sum of cardinalities that the run checks.  `BatchesStayWindows`: each batch, in whatever place, `IsWindow`.  A merge of two windows that
overflows keeps `WindowSize` consecutive tokens of the sorted union; the sort has every token once, so they are that many and all
are tokens of the batch's calls (`TightestWindowIsWindow`).  The invariant says that of the channel too, from which batches are received.
`QueueImplementsService` rests on both invariants (`QueueInv`): a call's first batch is its arrival; receiving a batch serves its calls, which no other batch
has (`OnceInv`), by a window of their tokens (`WindowInv`); a full or closed channel and the end of the receiver lose theirs; merging, replacing, timers and
the ways into the channel are seen by nobody.

**Cloud inference** (`CloudInferenceProofs`).  `OvershootIsBounded` holds because a client is counted from the check
of the guard to the record: at the check the counter is below the limit and at most all the other clients are
already past it (`CostInv`, by cardinalities of sets of clients at a stage).
`RecordsAreAccountedFor` is of the same shape (`Recorded`): the counter is what was delivered, what died in the parser and the clients
between record and answer.  `CloudImplementsMeteredService` maps the stages to the seven phases of a metered call; attempts, backoffs and error bodies
are stutters, and a charge is possible only while the charges are fewer than the tries, because each try was counted before it was sent (`ChargesFit`).  `CallsComeToTheirEnd`: a step to a stage of higher rank is only the sending of a request, which uses up one of the tries, and
whoever sends has one left (`TryLeft`).

**Routing** (`RerankCallProofs`).  `CloudSeesOpenFieldsOnly`: a class that is stored while the focus has stayed is that of the present
field (`FieldInv`); only Performance leads to the cloud by either route (`OnlyPerformanceGoesOut`), and only a harmless class or the user's own choice
leads to Performance, whichever way the mode is resolved (`OnlyOpenFieldsGoOut`).

**Answers and commands** (`RerankCallProofs`).  `AnswersArePermuted` and `NamedComesFirst` follow from one invariant (`AnswerOK`): what each parser finds
is a candidate or nothing, whatever the reply; a swap, a move to the front and a sort keep every candidate; and of a single digit
all three make the candidate it names (`DigitIsItsNumber`).  `CommandsPrintTheBest`: in the sorted candidates each run of equal
surfaces is led by its best score, which is the one that `dedup_by` keeps (`RunHasFirst`), so that what a cut of the rest leaves out is
no better than what it keeps (`BestAreChosen`).  It is a theorem of `CommandSpec`, in which the command is the only thing that runs.

**Shared files** (`FilesProofs`).  `RevokedConsentStays`: after a revoke that nothing crossed nobody is writing "yes", and a torn "no" never reads as
"yes" (`ConsentInv`).  `FoundModelIsWhole`: as long as no download began beside another or beside a write that one had left, the one at work is the only one that
writes (`ActiveWritesAlone`) and the contents of the `.partial` file are what the hasher has
seen (`DownloadInv`).  `LoneSavesKeepCredentials`: a saver that is alone writes the file it read with its own keys replaced, credentials and search paths kept (`SettingsInv`, `PatchingIsFaithful`).
`SelectionsCount`: the count is not always the number of conversions, because an UPDATE increments every row of its key.  Per key, the counts add
up to the conversions recorded or more, and to more only if two of its rows were used again after they were inserted (`CountedTwice`), which
neither a vacuum, that takes rows used once, nor a reset undoes halfway (`HistoryInv`).

**What faces the user** (`FrontendProofs`).  `CompositionsAreSilent`, `WatcherIsCurrent` and `HeldSelectionsAreEmitted` follow from one invariant of the
debouncers (`SelectionInv`): what is pending, where it came from, and since when.  `ChangesDescribeEdits` rests on what a splice keeps of a sequence
(`SplicingKeepsTheRest`) and on that nothing moves the insertion point between a query and the insertion after it (`EditInv`), `SinksSurvive` on where the sink is during a lock, `ScreensShowSessions` on
what a buffer leaves of a text (`ReadStandsFor`, `DrawnStands`) and on that an inactive controller shows nothing
and has no session (`ScreenInv`), `HighlightsAreKnown` on the shape of the ids.  `BoundariesAreKnown` (`DetectorInv`): positions of tokens grow strictly, and texts with a common prefix have its
tokens at the same positions, so that what is not announced again is still what the host was told, and what is announced is told once per position.

**Beam search** (`LatticeProofs`).  `ReadingsConvert`: some path is always alive (`Alive`) at or after
the current position.  Cutting a beam keeps its best path, which exists because the order on paths is transitive
and irreflexive and the beam finite; extending it succeeds because a match lies inside the
reading, and if there is none the fallback does.  `PathsTile`: the words of a path spell what it has consumed.  Both are
stated for an index that counts in the unit of the search (`CountsCharacters`), that is
for the Mozc index, and for the user dictionary on readings of one-byte characters; the run
`lattice_user` shows what happens otherwise.

The beams themselves are `Cut` (`BeamsAreCut`): no two paths of a beam were inserted at the same place, so that the order is total
and a cut leaves `beam_width` paths; this needs that paths come from positions already expanded.  `SegmentationsAreFound` compares an uncut search with all
segmentations (`Searched`): the paths of a beam are the covers of the text up to there whose last word begins before the present position, each of them once.  A
path extended by a match is such a cover (`WordCovers`), and a cover without its last word was in an earlier beam (`RestCovers`).

**Only model-checked.**  Liveness itself: `EveryCallReturns` of `AsyncPipeline`, `EveryCallEnds` of `CloudInference`, and `EveryCallLeavesQueue`.  They rest on fairness, and a
proof would need ENABLED, which is beyond the prover; what they need besides fairness (no deadlock, no endless work) is proved for the first two, and for the
queue that a pending batch has its timer.  And what the four runs that expect a violation show.

## Findings

1. **A cancel outlives its target** (`async_pipeline.rs:57` vs `:116`).  The flag stays set when no request is in the window and
   cancels the next, unrelated input.
2. **The hourly cap leaks** (`config.toml.sample:11` vs `workers_ai.rs:322`).  A request served but dropped by a timeout is charged by the
   service and unknown to the guard.
3. **After a reactivation every key is consumed and lost** (`ffi.rs:21` vs `LlmimeIMController.m:52`).  The session ends at deactivation and begins only when the
   controller is made; the C functions answer "consumed" for an id they do not know.
4. **The user dictionary counts bytes where the search counts characters** (`lattice.rs:92` vs `user_dict/mod.rs:115`).  A kana
   word lands three positions further per character, or is skipped and leaves the reading without a candidate.

Met while modelling, and not made into runs:

- A selection that was emitted once is not emitted again when it is selected again (`selection_watcher.rs:27` vs `:89`), and one made with a
  modifier does not suppress the one pending before it (`requirements.md:597` vs `selection_trigger.rs:69`).
- A path of the beam search forgets the word costs before its last word (`lattice.rs:397`, `:436` vs `:148`); the unit test passes through a tie and the stability of the sort.
- `config.rs:269` and `:277` promise that other fields are kept; a file that does not parse loses them.
- `ScoredCandidate`s are made unique by `dedup_by`, which compares neighbours of the order by score: equal surfaces with other scores between them stay.
- Two downloads of one model at once, or one that begins while a write of a broken one is still to land, can install a file that neither of them checked.
- Two focus changes may store their classes in the wrong order, and the watcher keeps the class of the older field until the next change (`focus_watcher.rs:27`).
- With more than one permit, of two tasks spawned in order the later may call the inferencer first (`async_pipeline.rs:126`).
- An answer that makes `parse_best_index` panic is recorded and lost, without a fallback (`workers_ai.rs:160`); a 502 or 504 of a gateway is retried and may be charged twice (`workers_ai.rs:213`), which no counter sees.
- The core's trigger and the Windows sink emit the range they last saw, which may not be selected any more (`selection_trigger.rs:78`).
- A host that withdraws the sink from inside a call on it is undone, as the sink is put back after the lock.
- A replacement refused twice is recorded as made (`text_replace.rs:48`).
- `OnTestKeyDown` claims the digits while composing and `OnKeyDown` does not consume them; `commit()` of the text service drops the text; the request flag of the forced rerank has no reader.
- On macOS a replacement uses the range selected when the candidate is chosen, not the one that was reranked.
- `mode_indicator.rs:5` calls Pro the cloud model; the dispatcher routes it to the local one.  The override is not reset when the focus is lost (F-063), and a missing local model does not fall
  back to the cloud (NF-033).
- The warm-up request of `warmup.rs` goes to its endpoint without asking for consent.

## Not modelled

- *What models and dictionaries compute*: prompts, n-gram probabilities, token ids, the loading of Mozc files and of the
  user dictionary's table.  They are constants or nondeterministic answers.
- *The mode indicators*: nothing outside their tests calls them, and they draw the mode they are given.
- *Blocking threads that outlive a timeout* (`local_llm.rs:156`): nothing in the repository bounds or promises anything about them, so there is nothing to state.
- *Inference support*: latency statistics and the one-shot warm-up touch no state that anything else reads; capabilities are data.
- *Windows registration* (`dll.rs`), what the two `inline_popup_layer.rs` draw, and the paths of `paths.rs`, a lookup of environment variables.
- *`config_ffi.rs`, `settings_ffi.rs`*: not part of any module tree, so they are not compiled.
- *The settings application*: a form in Swift whose saves are those of `ConfigFile`; *scripts* for evaluation and packaging.
- *Time in numbers*: delays are "a window has passed" or a small clock.

## Where to go on

An abstract editor (a consumed key changes the composition, a commit
inserts what was composed) that a repaired `MacSession` would implement; the lattice together with `Scoring` once the latter is used behind it; a measure of
the work left for the rerank queue's timers, like those of the pipeline and the cloud client.
