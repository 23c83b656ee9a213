\* Two clicks, two sweeps and two windows with any one fault.
SPECIFICATION FairSpec
CONSTANTS
  u1 = u1
  u2 = u2
  t1 = t1
  t2 = t2
  Undoer = {u1, u2}
  Reaper = {t1, t2}
  MaxWindows = 2
  TellsReversed = FALSE
  FaultKind = {"raise", "refused", "lost", "late", "write", "crash"}
  MaxClicks = 1
  MaxFaults = 1
INVARIANTS ReversedIsReal ExpiryAnnouncedOnce ReversalRecorded
PROPERTIES ImplementsUndo WindowsSettle
CHECK_DEADLOCK FALSE
