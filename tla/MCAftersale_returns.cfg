CONSTANTS
  i1 = i1
  r1 = r1
  r2 = r2
  w1 = w1
  a1 = a1
  u1 = u1
  u2 = u2
  p1 = p1
  p2 = p2
  Item = {i1}
  Quantity = 2
  Price = 3
  Request = {r1, r2}
  Deduction = {0, 1}
  None = None
  Worker = {w1}
  Kept = {}
  Returned = {"SALE"}
  MaxFaults = 1
  Adjustment = {a1}
  Person = {u1, u2}
  Period = {p1, p2}
  Worth <- Paise
  Selects <- Dates
SPECIFICATION Spec
INVARIANTS RefundedOnce ReturnedIsReversed PendingAddsUp SettledByItsPin
SYMMETRY Symmetry
CHECK_DEADLOCK FALSE
