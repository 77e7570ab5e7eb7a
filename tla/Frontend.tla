------------------------------ MODULE Frontend ------------------------------
(***************************************************************************)
(* The parts of the input method that face the user.  They share no state: *)
(* a behaviour is about one of them.                                       *)
(***************************************************************************)
EXTENDS MacSession, WindowsService, RerankFeedback, SelectionPopup, Selection

VARIABLE part   \* which of the parts this behaviour is about

frontendVars == <<part, macVars, winVars, feedbackVars, popupVars, selVars>>

FrontendInit ==
  /\ part \in {"macos", "windows", "feedback", "popup", "selection"}
  /\ MacInit /\ WinInit /\ FeedbackInit /\ PopupInit /\ SelInit
  /\ part # "selection" => variant = "trigger"
  /\ part # "feedback" => ~reducedMotion

FrontendNext ==
  \/ part = "macos" /\ MacNext
       /\ UNCHANGED <<part, winVars, feedbackVars, popupVars, selVars>>
  \/ part = "windows" /\ WinNext
       /\ UNCHANGED <<part, macVars, feedbackVars, popupVars, selVars>>
  \/ part = "feedback" /\ FeedbackNext
       /\ UNCHANGED <<part, macVars, winVars, popupVars, selVars>>
  \/ part = "popup" /\ PopupNext
       /\ UNCHANGED <<part, macVars, winVars, feedbackVars, selVars>>
  \/ part = "selection" /\ SelNext
       /\ UNCHANGED <<part, macVars, winVars, feedbackVars, popupVars>>

FrontendSpec == FrontendInit /\ [][FrontendNext]_frontendVars

\* The type invariant of all parts.
FrontendTypeOK == MacTypeOK /\ WinTypeOK /\ SelTypeOK
=============================================================================
