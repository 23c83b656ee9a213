\* Two workers, three events, two of them for one message, every fault.
SPECIFICATION Spec
CONSTANTS
  e1 = e1
  e2 = e2
  e3 = e3
  w1 = w1
  w2 = w2
  k1 = k1
  Event = {e1, e2, e3}
  Worker = {w1, w2}
  NoEvent = NoEvent
  High = {e1, e3}
  Key = {k1}
  NoKey = NoKey
  KeyOf <- SameKey
  Limit = 1
  MaxRetries = 1
  BatchSize = 2
  MaxCopies = 2
  FaultKind = {"enqueue", "read", "publish", "ack", "redis", "expiry", "process", "machine"}
  MaxFaults = 3
INVARIANTS NothingVanishes OneEventPerKey DuplicateOfKept OneTaskPerEntry WithinLimit
SYMMETRY Workers
CHECK_DEADLOCK FALSE
