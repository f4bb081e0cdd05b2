CONSTANTS
  i1 = i1
  i2 = i2
  p1 = p1
  p2 = p2
  k1 = k1
  k2 = k2
  e1 = e1
  e2 = e2
  e3 = e3
  e4 = e4
  e5 = e5
  Item = {i1, i2}
  Parcel = {p1}
  Key = {k1}
  Tracker = {t1}
  Report = {e1, e2, e3, e4, e5}
  Says <- News
  MaxCodes = 2
  None = None
SPECIFICATION FairSpec
INVARIANTS ParcelMatchesItems
PROPERTIES ProvedWithLastCode ParcelsArrive
CHECK_DEADLOCK FALSE
