----------------------------- MODULE ModelFiles -----------------------------
(***************************************************************************)
(* Downloading a model and finding one on disk                             *)
(* (crates/llmime-core/src/inference/model_downloader.rs,                  *)
(* model_scanner.rs, LlmimeConfig::detect_local_model in config.rs).       *)
(* Downloads share one .partial file, which each truncates and then writes *)
(* through its own handle: a file is known by its inode, and a handle      *)
(* keeps it after a rename.  A write goes on in another thread: the next   *)
(* one waits for it, but a download that breaks leaves it to land later.   *)
(* A model is the chunks 1 .. Chunks; a stream may turn to other data, be  *)
(* too long, or break.                                                     *)
(***************************************************************************)
EXTENDS Integers, Sequences, FiniteSets, FiniteSetsExt

CONSTANTS
  Downloads,   \* downloads, in any processes
  Chunks,      \* length of the model, in chunks
  OtherModel,  \* a .gguf file elsewhere: its preference score and size, or NoModel
  MaxInodes,   \* bound: files ever created
  MaxLate      \* bound: writes of broken downloads that are still to land

Orphan == "orphan"   \* whose write it is after its download broke

ASSUME ChunksAssumption == Chunks \in Nat /\ MaxInodes \in Nat /\ MaxLate \in Nat
ASSUME OrphanAssumption == Orphan \notin Downloads

NoFile == 0
NoModel == [preference |-> -1, size |-> 0]
Whole == [i \in 1 .. Chunks |-> i]
Hole == 0            \* what a write past the end leaves before it
Bad == Chunks + 1    \* data of no model, to the end of its stream

VARIABLES
  stage,       \* per download: "idle" (not running), "writing", "checked"
  handle,      \* per download: the inode of `file`
  got,         \* per download: chunks received, which the hasher has seen
  partial,     \* inode of the .partial file
  dest,        \* inode of the model file
  content,     \* per inode: the data
  flying,      \* writes under way: set of [by, file, at, chunk]
  overlapped   \* history: a download began while another was under way, or a write
               \* that a broken one had left

downloadVars == <<stage, handle, got, partial, dest, content, flying, overlapped>>

DownloadInit ==
  /\ stage = [d \in Downloads |-> "idle"]
  /\ handle = [d \in Downloads |-> NoFile]
  /\ got = [d \in Downloads |-> <<>>]
  /\ partial = NoFile /\ dest = NoFile
  /\ content = <<>> /\ flying = {}
  /\ overlapped = FALSE

Becomes(d, s) == stage' = [stage EXCEPT ![d] = s]
InFlight(d) == {w \in flying : w.by = d}

\* The function returns and drops its file and its hasher.
Returns(d) ==
  /\ Becomes(d, "idle")
  /\ handle' = [handle EXCEPT ![d] = NoFile]
  /\ got' = [got EXCEPT ![d] = <<>>]

\* Fault: an existing .partial is opened as it is.
CreatePartial_Keeps ==
  IF partial # NoFile THEN UNCHANGED <<partial, content>>
  ELSE /\ Len(content) < MaxInodes
       /\ partial' = Len(content) + 1
       /\ content' = Append(content, <<>>)

\* File::create: a new file, or the old one cut to nothing.
CreatePartial ==
  IF partial # NoFile
  THEN partial' = partial /\ content' = [content EXCEPT ![partial] = <<>>]
  ELSE /\ Len(content) < MaxInodes
       /\ partial' = Len(content) + 1
       /\ content' = Append(content, <<>>)

\* download, up to the creation of the .partial file; the request may fail
\* before, which changes nothing.
StartDownload(d) ==
  /\ stage[d] = "idle"
  /\ CreatePartial
  /\ handle' = [handle EXCEPT ![d] = partial']
  /\ got' = [got EXCEPT ![d] = <<>>]
  /\ Becomes(d, "writing")
  /\ overlapped' = (overlapped \/ flying # {}
                    \/ \E e \in Downloads \ {d} : stage[e] \in {"writing", "checked"})
  /\ UNCHANGED <<dest, flying>>

\* ensure_default_model: a file that is there is taken as it is; otherwise the
\* user is asked.
EnsureDefaultModel(d) == dest = NoFile /\ StartDownload(d)

\* A chunk put at an offset of its own.
Written(data, at, chunk) ==
  [i \in 1 .. Max({Len(data), at}) |->
     IF i = at THEN chunk ELSE IF i \in DOMAIN data THEN data[i] ELSE Hole]

\* A chunk is hashed, and its write begins when the one before has landed.
ReceiveChunk(d, chunk) ==
  /\ stage[d] = "writing" /\ InFlight(d) = {}
  /\ Len(got[d]) <= Chunks /\ \A i \in 1 .. Len(got[d]) : got[d][i] # Bad
  /\ got' = [got EXCEPT ![d] = Append(@, chunk)]
  /\ flying' = flying \cup {[by |-> d, file |-> handle[d], at |-> Len(got[d]) + 1, chunk |-> chunk]}
  /\ UNCHANGED <<stage, handle, partial, dest, content, overlapped>>

WriteLands(w) ==
  /\ content' = [content EXCEPT ![w.file] = Written(@, w.at, w.chunk)]
  /\ flying' = flying \ {w}
  /\ UNCHANGED <<stage, handle, got, partial, dest, overlapped>>

\* The stream or the disk fails, or the future is dropped: the .partial file
\* stays, and a write under way is not recalled.  With a process that dies its
\* write is gone.
Breaks(d) ==
  /\ stage[d] \in {"writing", "checked"}
  /\ Returns(d)
  /\ LET late == {[w EXCEPT !.by = Orphan] : w \in InFlight(d)}
     IN \/ flying' = flying \ InFlight(d)
        \/ /\ Cardinality({w \in flying : w.by = Orphan} \cup late) <= MaxLate
           /\ flying' = (flying \ InFlight(d)) \cup late
  /\ UNCHANGED <<partial, dest, content, overlapped>>

\* The stream ends and the file is flushed; a hash of what was received that is
\* not the expected one removes the .partial file, whoever has it open.
CheckSum(d) ==
  /\ stage[d] = "writing" /\ InFlight(d) = {}
  /\ \/ got[d] = Whole /\ Becomes(d, "checked") /\ UNCHANGED <<handle, got, partial>>
     \/ got[d] # Whole /\ Returns(d) /\ partial' = NoFile
  /\ UNCHANGED <<dest, content, flying, overlapped>>

\* rename, which fails if another download took the file away.
Rename(d) ==
  /\ stage[d] = "checked"
  /\ \/ partial = NoFile /\ Returns(d) /\ UNCHANGED <<partial, dest>>
     \/ partial # NoFile /\ Returns(d) /\ dest' = partial /\ partial' = NoFile
  /\ UNCHANGED <<content, flying, overlapped>>

DownloadNext ==
  \/ \E d \in Downloads :
       \/ StartDownload(d) \/ EnsureDefaultModel(d)
       \/ \E chunk \in {Len(got[d]) + 1, Bad} : ReceiveChunk(d, chunk)
       \/ Breaks(d) \/ CheckSum(d) \/ Rename(d)
  \/ \E w \in flying : WriteLands(w)

-----------------------------------------------------------------------------
(* Finding a model *)

\* preference_score: earlier patterns score higher, none scores nothing.
PreferenceScore(family) ==
  CASE family = "qwen2.5" -> 3 [] family = "qwen" -> 2 [] family = "gemma" -> 1 [] OTHER -> 0

\* scan_local_models over a search path that holds the model directory: files
\* whose extension is gguf, which the .partial file's is not.
Scanned ==
  {[file |-> f, preference |-> PreferenceScore("qwen2.5"), size |-> Len(content[f])] :
     f \in {dest} \ {NoFile}}
  \cup (IF OtherModel = NoModel THEN {}
        ELSE {[file |-> NoFile, preference |-> OtherModel.preference, size |-> OtherModel.size]})

\* The order of the scan: preferred names, then small files.
ComesBefore(a, b) ==
  a.preference > b.preference \/ (a.preference = b.preference /\ a.size <= b.size)

\* detect_local_model without a configured path: any of the first.
Detected == {m \in Scanned : \A o \in Scanned : ComesBefore(m, o)}

-----------------------------------------------------------------------------
(* Properties *)

DownloadTypeOK ==
  /\ stage \in [Downloads -> {"idle", "writing", "checked"}]
  /\ partial \in 0 .. Len(content) /\ dest \in 0 .. Len(content)
  /\ \A d \in Downloads : handle[d] \in 0 .. Len(content) /\ Len(got[d]) <= Chunks + 1
  /\ partial # NoFile => partial # dest
  /\ \A w \in flying : w.by \in Downloads \cup {Orphan} /\ w.file \in 1 .. Len(content)
  /\ \A d \in Downloads : Cardinality(InFlight(d)) <= 1

\* Unless a download began while another, or a write that one had left, was
\* under way, the model found on disk is whole at every moment: streams that
\* broke or lied, processes that died and what they left behind never show.
DetectedIsWhole == ~overlapped => \A m \in Detected : m.file # NoFile => content[m.file] = Whole
=============================================================================
