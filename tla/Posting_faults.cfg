\* Every entry point races with every other, over every pair of faults.
SPECIFICATION Spec
CONSTANTS
  p1 = p1
  p2 = p2
  p3 = p3
  p4 = p4
  b1 = b1
  b2 = b2
  b3 = b3
  Poster = {p1, p2, p3, p4}
  NoPoster = NoPoster
  OtherHolder = {}
  Pooled = Pooled
  Kind <- OneOfEach
  Bill = {b1, b2, b3}
  PreCheck = TRUE
  KeyDedup = FALSE
  MaxRetries = 2
  MaxCalls <- OnceEach
  FaultKind = {"refused", "lost", "crash", "timeout", "revert", "pool",
               "lookup", "late"}
  MaxFaults = 2
INVARIANTS AtMostOneBill PostedIsReal BillsNeedApproval
PROPERTY ImplementsPostOnce
SYMMETRY MCSymmetry
CHECK_DEADLOCK FALSE
