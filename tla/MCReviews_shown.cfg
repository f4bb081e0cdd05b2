CONSTANTS
  Review = {r1, r2}
  Bought = {r1}
  User = {u1, u2}
  Request = {q1, q2}
  FlagAt = 2
  MaxAsks = 4
  Nil = Nil
SPECIFICATION ReviewsSpec
SYMMETRY Symmetry
INVARIANTS ShownIsTrue
CHECK_DEADLOCK FALSE
