SPECIFICATION Spec
CONSTANTS
  Clients = {c1, c2}
  MaxRetries = 1
  HourLimit = 0
  DayLimit = 1
  MaxCalls = 4
PROPERTY CapRejectsWhenExceeded
