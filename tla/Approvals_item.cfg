\* Two requests, the sweep and two signature calls on one item, one trouble.
SPECIFICATION Spec
CONSTANTS
  r1 = r1
  r2 = r2
  s1 = s1
  g1 = g1
  g2 = g2
  a = a
  b = b
  q = q
  Request = {r1, r2}
  Sweep = {s1}
  Signing = {g1, g2}
  Person = {a, b, q}
  Requester = q
  NoOne = NoOne
  MaxRequests = 2
  MaxSignings = 3
  MaxTroubles = 1
  MaxEvents = 5
INVARIANTS CardBudget EntryHasCard
PROPERTIES TwoPeopleSign TakenBackByEarlier
SYMMETRY MCSymmetry
CHECK_DEADLOCK FALSE
