CONSTANTS
  s1 = s1
  s2 = s2
  Seller = {s1, s2}
  Eligible = {s1, s2}
  Clerk = {k1}
  MaxStock = 3
  MaxOrder = 2
  Nil = Nil
  Wanted = {s1}
  CartId = {1, 2}
  Request = {r1, r2}
  MaxQty = 1
  MaxEvents = 2
SPECIFICATION StorefrontSpec
INVARIANT SuspensionGoesThrough
CHECK_DEADLOCK FALSE
