------------------------------- MODULE Command -------------------------------
(***************************************************************************)
(* The command line (crates/llmime-cli/src/main.rs): one conversion or one *)
(* rerank, from the files it finds to the lines it prints.  The beam       *)
(* search that converts with a Mozc dictionary is in Lattice; here it      *)
(* finds some number of candidates.                                        *)
(***************************************************************************)
EXTENDS RerankCall, Scoring

CONSTANTS
  Texts,      \* what the tokenizer makes of a reading: sequences of morphemes
  LmValues,   \* what the language model may say of a phrase
  TopKs       \* numbers of candidates asked for

ASSUME TextsAssumption == \A text \in Texts : text \in Seq(Range(text))
ASSUME LmAssumption == LmValues \subseteq Int
ASSUME TopKAssumption == TopKs \subseteq Nat

VARIABLE command   \* the command that ended, and what it printed

NotRun == [ended |-> "not run"]
CommandInit == command = NotRun

Ends(how) ==
  /\ command = NotRun
  /\ command' = how
  /\ UNCHANGED <<routingVars, callVars>>

Phrases(text) == {Surfaces(Slices(text)[i]) : i \in DOMAIN Slices(text)}

\* `files` are there and can be read; a Mozc dictionary that is given as an
\* argument is used even if it is not there.
UsesMozc(given, files) == given \/ "mozc" \in files
Needed(given, files) == IF UsesMozc(given, files) THEN {"lm", "mozc"} ELSE {"lm", "dict"}

ConvertFails(given, files) ==
  /\ ~(Needed(given, files) \subseteq files)
  /\ Ends([ended |-> "error", printed |-> <<>>])

\* run_convert_mozc: without candidates the reading itself is printed.
ConvertMozc(given, files, found) ==
  /\ UsesMozc(given, files) /\ Needed(given, files) \subseteq files
  /\ Ends([ended |-> "mozc", printed |-> IF found = 0 THEN <<"reading">> ELSE [i \in 1 .. found |-> "surface"]])

\* run_convert.
ConvertNgram(given, files, text, lm, topK) ==
  /\ ~UsesMozc(given, files) /\ Needed(given, files) \subseteq files
  /\ Ends([ended |-> "ngram", text |-> text, lm |-> lm, topK |-> topK,
           printed |-> Scored(text, lm, topK)])

\* Another mode, or candidates that are no JSON.
RerankRejected == Ends([ended |-> "error", printed |-> <<>>])

\* run_rerank: the status is "unavailable" if the model could not be loaded or
\* its inference fails.
RerankCommand(machine, declined, reply, works) ==
  LET model == NewLlm(machine, declined) IN
  CASE model = "stub" -> Ends([ended |-> "ok", printed |-> AsGiven])
    [] model = "loaded" /\ works -> Ends([ended |-> "ok", printed |-> MovedToFront(reply.text)])
    [] OTHER -> Ends([ended |-> "unavailable", printed |-> <<>>])

CommandNext ==
  \/ \E given \in BOOLEAN, files \in SUBSET {"mozc", "lm", "dict"} :
       \/ ConvertFails(given, files)
       \/ \E found \in 0 .. 2 : ConvertMozc(given, files, found)
       \/ \E text \in Texts, topK \in TopKs : \E lm \in [Phrases(text) -> LmValues] :
            ConvertNgram(given, files, text, lm, topK)
  \/ RerankRejected
  \/ \E machine \in Machines, declined, works \in BOOLEAN, reply \in Replies :
       RerankCommand(machine, declined, reply, works)

CommandSpec ==
  RerankInit /\ CommandInit /\ [][CommandNext]_<<routingVars, callVars, command>>

-----------------------------------------------------------------------------
(* Properties *)

\* A command that ended well printed something worth having: the best phrases
\* of the text by the language model (F-002), at least the reading with a Mozc
\* dictionary, and every candidate once after a rerank.
CommandPrintsTheBest ==
  /\ command.ended = "ngram" =>
       AreTheBest(command.printed, command.text, command.lm, command.topK)
  /\ command.ended = "mozc" => command.printed # <<>>
  /\ command.ended = "ok" =>
       Len(command.printed) = Len(Scores) /\ Range(command.printed) = Positions
=============================================================================
