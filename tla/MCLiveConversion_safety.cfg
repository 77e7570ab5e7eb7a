SPECIFICATION LiveSpec
CONSTANTS
  Requests = {r1, r2, r3}
  MaxConcurrent = 2
  BufferSize = 1
  Debounce = TRUE
  NoRequest = NoRequest
  MaxCancels = 2
SYMMETRY Symmetry
INVARIANTS
  TypeOK
  EveryWaiterIsOwed
  LatestIsNeverDebounced
  NobodyIsStuck
  CancelStopsItsTarget
PROPERTIES
  BoundedOvertaking
  OnlyCallsMakeWork
