\* One event in the standard stream, no fault.
SPECIFICATION FairSpec
CONSTANTS
  e1 = e1
  e2 = e2
  e3 = e3
  w1 = w1
  w2 = w2
  k1 = k1
  Event = {e1}
  Worker = {w1, w2}
  NoEvent = NoEvent
  High = {}
  Key = {k1}
  NoKey = NoKey
  KeyOf <- Unkeyed
  Limit = 1
  MaxRetries = 1
  BatchSize = 2
  MaxCopies = 2
  FaultKind = {}
  MaxFaults = 0
PROPERTY EventsEnd
CHECK_DEADLOCK FALSE
