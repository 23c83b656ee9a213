\* Two workers, one producer, operators retrying, skipping, replaying; one worker may die.
SPECIFICATION FairSpec
CONSTANTS
  r1 = r1
  r2 = r2
  r3 = r3
  k1 = k1
  k2 = k2
  w1 = w1
  w2 = w2
  p1 = p1
  p2 = p2
  Row = {r1, r2}
  Key = {k1}
  NoKey = NoKey
  Target = {"observer", "unknown"}
  Handled = {"observer"}
  Producer = {p1}
  Worker = {w1, w2}
  NoRow = NoRow
  MaxAttempts = 2
  BatchSize = 2
  MaxRetries = 1
  MaxCrashes = 1
INVARIANTS ClaimExclusive DispatchBudget
PROPERTIES SucceededSticks RowsSettle
CHECK_DEADLOCK FALSE
