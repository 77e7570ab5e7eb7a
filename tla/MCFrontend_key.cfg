SPECIFICATION FrontendSpec
CONSTANTS
  Addresses = {"c1", "c2"}
  Chars = {"a", "k"}
  Bytes <- MCBytes
  Index <- MCIndex
  MaxCandidates = 2
  CandidateBuffer = 5
  TextBuffer = 7
  MaxPreedit = 3
  Letters = {"x", "r"}
  Shortcut = "r"
  MaxText = 3
  Surfaces <- MCSurfaces
  Deltas <- MCDeltas
  MinDelta = 20
  HighlightDelta = 30
  MaxTokens = 3
  MaxAnimations = 3
  Tokens <- MCTokens
  Confidences <- MCConfidences
  MaxPopup = 2
  MaxAnswer = 3
  Variants = {"trigger", "watcher", "sink"}
  Ranges = {a, b, c}
  NoRange = NoRange
  Delay = 2
  MaxTime = 6

INVARIANTS
  ConsumedIsTaken
