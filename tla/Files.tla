------------------------------- MODULE Files -------------------------------
(***************************************************************************)
(* The files the input method keeps.  They share no state: a behaviour is  *)
(* about one of them.                                                      *)
(***************************************************************************)
EXTENDS ModelFiles, HistoryStore, ConfigFile, ConsentFile

VARIABLE which   \* the file this behaviour is about

filesVars == <<which, downloadVars, historyVars, configVars, consentVars>>

FilesInit ==
  /\ which \in {"model", "history", "config", "consent"}
  /\ DownloadInit /\ HistoryInit /\ ConfigInit /\ ConsentInit
  /\ which # "consent" => consent = "missing"

FilesNext ==
  \/ which = "model" /\ DownloadNext
       /\ UNCHANGED <<which, historyVars, configVars, consentVars>>
  \/ which = "history" /\ HistoryNext
       /\ UNCHANGED <<which, downloadVars, configVars, consentVars>>
  \/ which = "config" /\ ConfigNext
       /\ UNCHANGED <<which, downloadVars, historyVars, consentVars>>
  \/ which = "consent" /\ ConsentNext
       /\ UNCHANGED <<which, downloadVars, historyVars, configVars>>

FilesSpec == FilesInit /\ [][FilesNext]_filesVars

\* The type invariants of the files.
FilesTypeOK == DownloadTypeOK /\ HistoryTypeOK /\ ConfigTypeOK /\ ConsentTypeOK
=============================================================================
