\* An adapter without a lookup: two clicks, two keys.
SPECIFICATION Spec
CONSTANTS
  p1 = p1
  p2 = p2
  p3 = p3
  p4 = p4
  b1 = b1
  b2 = b2
  b3 = b3
  Poster = {p1, p2}
  NoPoster = NoPoster
  OtherHolder = {}
  Pooled = Pooled
  Kind <- ApproveApprove
  Bill = {b1, b2}
  PreCheck = FALSE
  KeyDedup = TRUE
  MaxRetries = 1
  MaxCalls <- OnceEach
  FaultKind = {}
  MaxFaults = 0
INVARIANT AtMostOneBill
CHECK_DEADLOCK FALSE
