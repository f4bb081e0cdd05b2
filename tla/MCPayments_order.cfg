CONSTANTS
  Item = {i1, i2}
  Payment = {p1, p2}
  Charge = {1, 2}
  h1 = h1
  h2 = h2
  Handler = {h1, h2}
  MaxFaults = 1
  None = None
SPECIFICATION Spec
SYMMETRY Symmetry
INVARIANTS CapturedOnce PaidIsCaptured RefundIsOwed DeadKeepsNoStock
PROPERTIES OrderMovesOn
CHECK_DEADLOCK FALSE
