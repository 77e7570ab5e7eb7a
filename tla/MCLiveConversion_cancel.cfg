SPECIFICATION LiveSpec
CONSTANTS
  Requests = {r1, r2, r3}
  MaxConcurrent = 1
  BufferSize = 1
  Debounce = TRUE
  NoRequest = NoRequest
  MaxCancels = 2
SYMMETRY Symmetry
CHECK_DEADLOCK FALSE
INVARIANT CancelSparesLaterInput
