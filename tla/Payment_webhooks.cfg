\* Two payments of an item, one of them redelivered, and two concurrent calls, one of
\* which dies.
SPECIFICATION FairSpec
CONSTANTS
  c1 = c1
  c2 = c2
  p1 = p1
  p2 = p2
  Caller = {c1, c2}
  Payment = {p1, p2}
  NoPayment = NoPayment
  MaxDeliveries <- Deliveries
  MaxCrashes = 1
INVARIANT AuditIsRight
PROPERTIES ImplementsLedger ConfirmationArrives
CHECK_DEADLOCK FALSE
