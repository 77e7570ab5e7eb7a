----------------------------- MODULE ConsentFile ----------------------------
(***************************************************************************)
(* consent.json (crates/llmime-core/src/consent.rs), read before every     *)
(* request to the cloud and written by any process of the input method.    *)
(* fs::write opens the file and cuts it to nothing, and then writes; two   *)
(* writers write over one another.  A record of a refusal is one character *)
(* longer than one of consent ("false", "true"), so that its last          *)
(* character survives below a shorter one.                                 *)
(***************************************************************************)
EXTENDS FiniteSets

CONSTANT Parties   \* processes that ask for, give or revoke consent

Nobody == [stage |-> "none", value |-> "empty"]

VARIABLES
  consent,     \* the file: "missing", "empty", "yes", "no", or "garbled" JSON
  writing,     \* per party: what it is about to write, and how far it is
  revoked,     \* history: a revoke has returned, and since it began nobody has
               \* begun or been in the middle of a record_consent
  recording    \* history: a record_consent began or was under way since each
               \* party's revoke began

consentVars == <<consent, writing, revoked, recording>>

ConsentInit ==
  /\ consent \in {"missing", "yes", "no", "empty"}
  /\ writing = [p \in Parties |-> Nobody]
  /\ revoked = FALSE
  /\ recording = [p \in Parties |-> FALSE]

Readable == consent \in {"yes", "no"}

\* Fault: what cannot be read counts as consent.
IsConsented_Default == consent # "no"

\* is_consented: nothing that cannot be read is consent.
IsConsented == consent = "yes"

Writers(value) == {p \in Parties : writing[p].stage # "none" /\ writing[p].value = value}

\* record_consent, up to the write.
RecordConsent(p) ==
  /\ writing[p] = Nobody
  /\ writing' = [writing EXCEPT ![p] = [stage |-> "begun", value |-> "yes"]]
  /\ revoked' = FALSE
  /\ recording' = [q \in Parties |-> TRUE]
  /\ UNCHANGED consent

\* revoke_consent, up to the write; a file that is there but cannot be read ends
\* it with an error.
RevokeConsent(p) ==
  /\ writing[p] = Nobody
  /\ consent = "missing" \/ Readable
  /\ writing' = [writing EXCEPT ![p] = [stage |-> "begun", value |-> "no"]]
  /\ recording' = [recording EXCEPT ![p] = Writers("yes") # {}]
  /\ UNCHANGED <<consent, revoked>>

\* The first half of fs::write.
TruncateConsent(p) ==
  /\ writing[p].stage = "begun"
  /\ consent' = "empty"
  /\ writing' = [writing EXCEPT ![p].stage = "truncated"]
  /\ UNCHANGED <<revoked, recording>>

\* What a file holds once `new` is written over it from its beginning.
Over(old, new) == IF new = "yes" /\ old \in {"no", "garbled"} THEN "garbled" ELSE new

\* The second half.
WriteConsent(p) ==
  /\ writing[p].stage = "truncated"
  /\ consent' = Over(consent, writing[p].value)
  /\ revoked' = IF writing[p].value = "no" THEN revoked \/ ~recording[p] ELSE FALSE
  /\ writing' = [writing EXCEPT ![p] = Nobody]
  /\ UNCHANGED recording

\* The process dies, or the disk is full.
WriteBreaks(p) ==
  /\ writing[p] # Nobody
  /\ writing' = [writing EXCEPT ![p] = Nobody]
  /\ UNCHANGED <<consent, revoked, recording>>

ConsentNext ==
  \E p \in Parties :
    RecordConsent(p) \/ RevokeConsent(p) \/ TruncateConsent(p) \/ WriteConsent(p) \/ WriteBreaks(p)

ConsentSpec == ConsentInit /\ [][ConsentNext]_consentVars

-----------------------------------------------------------------------------
(* Properties *)

ConsentTypeOK ==
  /\ consent \in {"missing", "empty", "yes", "no", "garbled"}
  /\ writing \in [Parties -> {Nobody} \cup [stage : {"begun", "truncated"}, value : {"yes", "no"}]]
  /\ revoked \in BOOLEAN
  /\ recording \in [Parties -> BOOLEAN]

\* Once a revoke has returned, and nobody was giving consent while it ran or has
\* begun to since, there is no consent: not while others revoke again, not when
\* one of them dies half way, not when their writes cross.
RevokedStaysRevoked == revoked => ~IsConsented
=============================================================================
