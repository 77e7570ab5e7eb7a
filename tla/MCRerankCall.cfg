SPECIFICATION MCSpec
CONSTANTS
  Fields <- MCFields
  Watchers = {w1, w2}
  SetModes = {"Performance", "Hybrid"}
  Durations = {1}
  Configured = {"workers", "llm"}
  Lengths = {6, 7}
  Threshold = 3
  MaxTime = 1
  Scores <- MCScores
  Sizes <- MCSizes
  Replies <- MCReplies
  Machines <- MCMachines
  MaxCalls = 1
  Texts <- MCTexts
  LmValues = {1, 2, 3}
  TopKs = {1, 2, 4}
CHECK_DEADLOCK FALSE
SYMMETRY MCSymmetry
INVARIANTS
  CloudOnlyFromOpenFields
  AnswersArePermutations
  NamedCandidateFirst
  CommandPrintsTheBest
