CONSTANTS
  c1 = c1
  c2 = c2
  c3 = c3
  c4 = c4
  k1 = k1
  k2 = k2
  b1 = b1
  b2 = b2
  Caller = {c1, c2, c3, c4}
  Key = {k1, k2}
  Body = {b1, b2}
  Order = {o1, o2}
  KeyOf <- Keys
  BodyOf <- Bodies
  MaxFaults = 1
  MaxPrunes = 1
  None = None
SPECIFICATION FairSpec
INVARIANTS ResponseIsOutcome
PROPERTIES ImplementsOneShot CallsAreAnswered
CHECK_DEADLOCK FALSE
