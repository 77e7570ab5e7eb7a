----------------------------- MODULE ConfigFile -----------------------------
(***************************************************************************)
(* config.toml (crates/llmime-core/src/config.rs): read at start with      *)
(* environment variables before it, patched by the settings application    *)
(* and edited by hand.  A save reads the file, and then writes it in two   *)
(* steps: fs::write truncates and then writes.  Of the file's keys the     *)
(* model knows the mode, what the settings show of the local_llm table as  *)
(* one value, and two that the settings never show: the credentials of     *)
(* workers_ai and the model_search_paths of local_llm.                     *)
(***************************************************************************)
EXTENDS Integers

CONSTANTS
  Savers,      \* settings applications
  ModeNames,   \* what input_mode may be set to: modes and others
  InputModes,  \* those that parse as a mode
  LocalTables, \* what the settings may set in local_llm
  MaxEdits     \* bound: edits by hand

ASSUME InputModesAssumption == InputModes \subseteq ModeNames /\ MaxEdits \in Nat

Absent == "absent"   \* a key that is not in the table, a variable that is not set
Odd == "odd"         \* local_llm is there but is no table
DefaultMode == "privacy"
Foreign == {"credentials", "model_search_paths"}

ASSUME NamesAssumption ==
  Absent \notin ModeNames /\ Odd \notin LocalTables /\ DefaultMode \in InputModes

\* A truncated file parses as the empty table; of one that does not parse
\* nothing is kept.
EmptyTable == [parses |-> TRUE, foreign |-> {}, mode |-> Absent, local |-> Absent]
Unparsable == [EmptyTable EXCEPT !.parses = FALSE]

VARIABLES
  file,        \* the contents of config.toml
  saving,      \* per saver: its stage, the table it will write, the snapshot it saves
  edits,       \* bound
  entered,     \* history: the foreign keys the file was given, by hand
  lone,        \* history: since then every save read a whole file that parsed and
               \* ended before anything else touched the file
  saved        \* history: the last snapshot saved, or none since another edit

configVars == <<file, saving, edits, entered, lone, saved>>

NoSnapshot == [mode |-> Odd, local |-> Odd]
Resting == [stage |-> "none", table |-> EmptyTable, snapshot |-> NoSnapshot]
Snapshots == [mode : ModeNames \cup {Absent}, local : LocalTables \cup {Absent}]
Files ==
  [parses : {TRUE}, foreign : SUBSET Foreign, mode : ModeNames \cup {Absent},
   local : LocalTables \cup {Absent}]
  \cup [parses : {TRUE}, foreign : SUBSET {"credentials"}, mode : ModeNames \cup {Absent},
        local : {Odd}]
  \cup {Unparsable}

ConfigInit ==
  /\ file = EmptyTable
  /\ saving = [s \in Savers |-> Resting]
  /\ edits = 0
  /\ entered = {} /\ lone = TRUE
  /\ saved = NoSnapshot

Others(s) == \E t \in Savers \ {s} : saving[t].stage # "none"

\* Someone edits the file by hand.
Edit(f) ==
  /\ edits < MaxEdits
  /\ edits' = edits + 1
  /\ file' = f
  /\ entered' = f.foreign
  /\ lone' = \A s \in Savers : saving[s].stage = "none"
  /\ saved' = NoSnapshot
  /\ UNCHANGED saving

\* Fault: the table is built from the snapshot alone.
Patched_Fresh(f, snapshot) ==
  [EmptyTable EXCEPT !.mode = snapshot.mode, !.local = snapshot.local]

\* SettingsSnapshot::save: the snapshot put into what parses of the file; a
\* local_llm that is no table is left alone.
Patched(f, snapshot) ==
  [parses |-> TRUE, foreign |-> f.foreign, mode |-> snapshot.mode,
   local |-> IF f.local = Odd THEN Odd ELSE snapshot.local]

\* save, up to fs::write.
ReadForSave(s, snapshot) ==
  /\ saving[s].stage = "none"
  /\ saving' = [saving EXCEPT ![s] =
       [stage |-> "read", table |-> Patched(file, snapshot), snapshot |-> snapshot]]
  /\ lone' = (lone /\ ~Others(s) /\ file.parses /\ file.local # Odd)
  /\ UNCHANGED <<file, edits, entered, saved>>

\* fs::write, first half and second half.
Truncate(s) ==
  /\ saving[s].stage = "read"
  /\ file' = EmptyTable
  /\ saving' = [saving EXCEPT ![s].stage = "truncated"]
  /\ UNCHANGED <<edits, entered, lone, saved>>

\* What another wrote in between may show through.
WriteTable(s) ==
  /\ saving[s].stage = "truncated"
  /\ \/ file' = saving[s].table
     \/ file # EmptyTable /\ file' = Unparsable
  /\ saved' = saving[s].snapshot
  /\ saving' = [saving EXCEPT ![s] = Resting]
  /\ UNCHANGED <<edits, entered, lone>>

\* The application dies while it saves, or cannot write.
SaveBreaks(s) ==
  /\ saving[s].stage # "none"
  /\ saving' = [saving EXCEPT ![s] = Resting]
  /\ lone' = (lone /\ saving[s].stage = "read")
  /\ UNCHANGED <<file, edits, entered, saved>>

ConfigNext ==
  \/ \E f \in Files : Edit(f)
  \/ \E s \in Savers :
       \/ \E snapshot \in Snapshots : ReadForSave(s, snapshot)
       \/ Truncate(s) \/ WriteTable(s) \/ SaveBreaks(s)

-----------------------------------------------------------------------------
(* Reading *)

\* SettingsSnapshot::load.
LoadSnapshot ==
  IF ~file.parses \/ file.local = Odd THEN NoSnapshot
  ELSE [mode |-> file.mode, local |-> file.local]

Or(value, default) == IF value = Absent THEN default ELSE value

\* LlmimeConfig::load_inner: the environment before the file before the default;
\* credentials must come from one of the two, a mode must be one.
Load(env) ==
  LET mode == Or(env.mode, Or(file.mode, DefaultMode))
      credentials == env.credentials \/ "credentials" \in file.foreign
  IN CASE ~file.parses \/ file.local = Odd -> "ParseError"
       [] file.parses /\ file.local # Odd /\ ~credentials -> "Missing"
       [] file.parses /\ file.local # Odd /\ credentials /\ mode \notin InputModes -> "InvalidValue"
       [] OTHER -> mode

-----------------------------------------------------------------------------
(* Properties *)

ConfigTypeOK ==
  /\ file \in Files
  /\ saving \in [Savers -> [stage : {"none", "read", "truncated"}, table : Files,
                            snapshot : Snapshots \cup {NoSnapshot}]]
  /\ edits \in 0 .. MaxEdits
  /\ saved \in Snapshots \cup {NoSnapshot}

Quiet == \A s \in Savers : saving[s].stage = "none"

\* config.rs:268, "preserving other fields (workers_ai etc.)": saves that follow
\* one another on a file that parses lose neither the credentials nor the search
\* paths that were entered by hand, whatever they set, and what was saved last is
\* what the settings show and what the next start uses.
LoneSavesAreFaithful ==
  lone /\ Quiet =>
    /\ entered \subseteq file.foreign
    /\ saved # NoSnapshot =>
         /\ LoadSnapshot = saved
         /\ "credentials" \in entered /\ Or(saved.mode, DefaultMode) \in InputModes =>
              Load([credentials |-> FALSE, mode |-> Absent]) = Or(saved.mode, DefaultMode)
=============================================================================
