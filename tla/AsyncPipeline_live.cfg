SPECIFICATION FairSpec
CONSTANTS
  Requests = {r1, r2, r3}
  MaxConcurrent = 1
  BufferSize = 1
  Debounce = TRUE
  NoRequest = NoRequest
PROPERTIES
  EveryCallReturns
  ImplementsService
