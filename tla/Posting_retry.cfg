\* No process dies: the drain retries what was refused or left unanswered.
SPECIFICATION FairSpec
CONSTANTS
  p1 = p1
  p2 = p2
  p3 = p3
  p4 = p4
  b1 = b1
  b2 = b2
  b3 = b3
  Poster = {p1, p2}
  NoPoster = NoPoster
  OtherHolder = {}
  Pooled = Pooled
  Kind <- ApproveDrain
  Bill = {b1, b2, b3}
  PreCheck = TRUE
  KeyDedup = FALSE
  MaxRetries = 2
  MaxCalls <- OnceEach
  FaultKind = {"refused", "lost", "lookup", "late", "timeout", "unlock"}
  MaxFaults = 4
PROPERTIES JobSettles FailedPostRecovers
CHECK_DEADLOCK FALSE
