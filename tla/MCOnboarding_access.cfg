CONSTANTS
  r1 = r1
  r2 = r2
  Request = {r1, r2}
  s1 = s1
  s2 = s2
  Seller = {s1, s2}
  None = None
  HandedIn <- SomeHandedIn
  MaxEvents = 3
SPECIFICATION FairSpec
INVARIANTS ReviewIsComplete CurrentUnlessOverlapped
PROPERTIES AccessSettles
CHECK_DEADLOCK FALSE
