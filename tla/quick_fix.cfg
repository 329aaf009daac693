CONSTANTS
  Fixes = {q1, q2}
  Promotions = {p1}
  Branches = {b1, b2}
SPECIFICATION QFSpec
INVARIANTS
  UndisturbedIsDelivered
  PromotedIsOnTarget
  NoTreeLeft
CHECK_DEADLOCK FALSE
