\* A click handled twice at once: by two workers and by the direct path.
SPECIFICATION CSpec
CONSTANTS
  w1 = w1
  w2 = w2
  p1 = p1
  e1 = e1
  b1 = b1
  b2 = b2
  b3 = b3
  Poster = {w1, w2, p1}
  Worker = {w1, w2}
  NoPoster = NoPoster
  OtherHolder <- Sessions
  Pooled = Pooled
  Kind <- OneApprover
  Bill = {b1, b2, b3}
  PreCheck = TRUE
  KeyDedup = FALSE
  MaxRetries = 1
  MaxCalls <- OneClick
  FaultKind = {"lost", "crash", "revert", "unlock"}
  MaxFaults = 1
  MaxTroubles = 2
  Event = {e1}
  NoEvent = NoEvent
  EngineRetries = 1
  MaxDeliveries = 2
INVARIANTS LockIsLive PlanExcludesPosts EngineNeverPosts RowFirst ReferenceMeansPosted ClickPlansAbort
PROPERTY BothPathsPostOnce
SYMMETRY MCSymmetry
CHECK_DEADLOCK FALSE
