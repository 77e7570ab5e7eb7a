---------------------------- MODULE MCRerankCall ----------------------------
EXTENDS Command
\* A password field that the system shows, one that it does not, an ordinary
\* field, and a Windows field with a sensitive scope among others.
MCFields ==
  {[os |-> "macos", trusted |-> TRUE, role |-> "AXSecureTextField"],
   [os |-> "macos", trusted |-> FALSE, role |-> "AXTextField"],
   [os |-> "macos", trusted |-> TRUE, role |-> "AXTextArea"],
   [os |-> "windows", scopes |-> {0, 79}]}
\* Tenths: the second candidate overtakes the first by its length, the third ties.
MCScores == <<10, 9, 7>>
MCSizes == <<3, 1, 1>>
MCReplies ==
  {[json |-> NoIndex, text |-> t] : t \in {<<2>>, <<1, 2>>, <<0, 3>>, <<Other, 9, 3>>, <<Other>>, <<4>>}}
  \cup {[json |-> 3, text |-> <<Other, 3, Other, 0, 9>>], [json |-> 7, text |-> <<Other, 7, Other, 0, 2>>],
        [json |-> Inverted, text |-> <<2>>]}
\* No file, too little memory, just enough, plenty, unknown; a build without models.
MCMachines ==
  {[path |-> p, feature |-> f, size |-> s, free |-> m] :
     p \in BOOLEAN, f \in BOOLEAN, s \in {NoIndex, 10}, m \in {NoIndex, 11, 12, 40}}

\* Three morphemes that spell the same characters in different ways; one with an
\* IPAdic reading, one with a UniDic reading, one with none.
MCTexts ==
  LET one == [surface |-> <<"a">>, columns |-> 9, col7 |-> "k", col9 |-> "*"]
      two == [surface |-> <<"a", "a">>, columns |-> 17, col7 |-> "*", col9 |-> "k"]
      bare == [surface |-> <<"a">>, columns |-> 4, col7 |-> "*", col9 |-> "*"]
  IN {<<two, one, two>>, <<one, bare, one>>, <<two>>, <<>>}

(* The full product is too large, and its parts hardly touch: a behaviour is *)
(* about where calls go, what they answer, or the command.                 *)
VARIABLE part
mcVars == <<part, routingVars, callVars, command>>

MCInit ==
  /\ part \in {"routes", "answers", "command"}
  /\ RerankInit /\ CommandInit
  /\ part # "answers" => llm = "loaded"
  /\ part = "command" => current = "Privacy" /\ field = CHOOSE f \in Fields : f.os = "windows"

MCNext ==
  /\ UNCHANGED part
  /\ \/ part = "routes" /\ (FocusNext \/ ModeNext) /\ UNCHANGED <<callVars, command>>
     \/ part = "routes" /\ CallNext /\ answer' = <<>> /\ UNCHANGED command
     \/ part = "answers" /\ CallNext /\ UNCHANGED command
     \/ part = "command" /\ CommandNext

MCSpec == MCInit /\ [][MCNext]_mcVars

\* Who reports a focus change does not matter.
MCSymmetry == Permutations(Watchers)
=============================================================================
