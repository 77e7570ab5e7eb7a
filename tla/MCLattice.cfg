CONSTANTS
  Chars = {"k", "a"}
  Wide = {"k"}
  Texts <- MCTexts
  MaxReading = 3
  MaxEntries = 3
  Readings <- MCReadings
  Dictionaries <- MCDictionaries
  Kinds = {"mozc", "user"}
  BeamWidths = {1, 2, 8}
  TopK = 2
  CostAlpha = 1
  PosAlpha = 1
  OovCost = 10
  Lm <- MCLm
SPECIFICATION Spec
INVARIANTS
  TypeOK
  PathsTileReading
  EveryReadingConverts
  EverySegmentationFound
CHECK_DEADLOCK FALSE
