SPECIFICATION AdminMembersSpec
CONSTANTS
  o1 = o1
  o2 = o2
  t1 = t1
  t2 = t2
  t3 = t3
  Operators = {o1, o2}
  Orders = {t1, t2, t3}
  Cookies = {}
  Nobody = Nobody
  MaxNow = 1
  MaxOrders = 6
SYMMETRY MembersSymmetry
PROPERTIES
  OwnerRemains
CHECK_DEADLOCK FALSE
