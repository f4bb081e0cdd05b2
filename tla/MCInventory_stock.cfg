CONSTANTS
  Sku = {s1}
  Warehouse = {w1, w2}
  Hold = {h1, h2}
  IdemKey = {k1}
  Caller = {c1, c2}
  Adjustment = {a1}
  Staff = {p1, p2, p3}
  Transfer = {t1}
  MaxQty = 1
  MaxOnHand = 1
  Ceiling = 9
  BatchSize = 1
  None = None
SPECIFICATION Spec
SYMMETRY Symmetry
INVARIANTS TypeOK LedgerReplays TransitMatchesTransfers ReservedMatchesHolds OneHoldPerRow
PROPERTIES ImplementsPromises
CHECK_DEADLOCK FALSE
