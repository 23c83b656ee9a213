\* One request and two signature calls at a time, and nothing fails.
SPECIFICATION Spec
CONSTANTS
  r1 = r1
  r2 = r2
  s1 = s1
  g1 = g1
  g2 = g2
  a = a
  b = b
  q = q
  Request = {r1}
  Sweep = {}
  Signing = {g1, g2}
  Person = {a, b, q}
  Requester = q
  NoOne = NoOne
  MaxRequests = 1
  MaxSignings = 3
  MaxTroubles = 0
  MaxEvents = 4
PROPERTY TwoPeopleStand
CHECK_DEADLOCK FALSE
