\* Two callers without any lock write one row in every way, and may die.  The
\* clearing of an exception code stands for the writes that only move updated_at.
SPECIFICATION Spec
CONSTANTS
  w1 = w1
  w2 = w2
  f1 = f1
  f2 = f2
  Writer = {w1, w2}
  Op <- SnoozeAndSwap
  Target <- MainTarget
  Flag = {f1, f2}
  Code = {}
  NoCode = NoCode
  CASAttempts = 2
INVARIANT ApprovedBeforePosting
PROPERTIES ImplementsLifecycle LegalStep AuditShowsRaces FlagsStick
SYMMETRY Symmetric
CHECK_DEADLOCK FALSE
