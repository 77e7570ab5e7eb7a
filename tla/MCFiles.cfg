SPECIFICATION FilesSpec
CONSTANTS
  Downloads = {d1, d2}
  Chunks = 2
  OtherModel <- MCOtherModel
  MaxInodes = 2
  MaxLate = 1
  Processes = {p1, p2}
  Keys <- MCKeys
  MaxRows = 3
  MaxChosen = 4
  Savers = {s1, s2}
  ModeNames = {"privacy", "x"}
  InputModes = {"privacy"}
  LocalTables = {"m"}
  MaxEdits = 2
  Parties = {c1, c2, c3}
SYMMETRY MCSymmetry
INVARIANTS
  DetectedIsWhole
  EverySelectionCounts
  LoneSavesAreFaithful
  RevokedStaysRevoked
CHECK_DEADLOCK FALSE
