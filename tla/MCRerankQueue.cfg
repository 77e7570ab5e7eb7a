SPECIFICATION FairSpec
CONSTANTS
  WindowSize = 3
  CharGap = 2
  Calls <- MCCalls
  Event <- MCEvent
  ChannelCapacity = 1
  ZeroWindow = FALSE
CHECK_DEADLOCK FALSE
INVARIANTS
  EveryCallOnce
  PendingHasTimer
PROPERTIES
  EveryCallLeavesQueue
  ImplementsService
