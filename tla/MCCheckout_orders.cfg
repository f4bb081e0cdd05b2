CONSTANTS
  r1 = r1
  r2 = r2
  s1 = s1
  s2 = s2
  u1 = u1
  u2 = u2
  None = None
  Request = {r1, r2}
  Session = {s1, s2}
  User = {u1, u2}
  Owner <- OneCustomer
  Address = {"home"}
  Units = 2
  Cashable = TRUE
  Trusted = {u1, u2}
  CouponLimit = 1
  CouponInput = {"keep"}
  MaxCalls = 3
  MaxFaults = 1
SPECIFICATION FairSpec
INVARIANTS UnitsConserved
PROPERTIES SessionsClose HoldsEnd OrderTakesItsHold OrderIsFinal
CHECK_DEADLOCK FALSE
