\* Four calls on the cart of one user.
SPECIFICATION Spec
CONSTANTS
  c1 = c1
  c2 = c2
  c3 = c3
  c4 = c4
  u = u
  p = p
  q = q
  Calls = {c1, c2, c3, c4}
  Users = {u}
  Products = {p, q}
  Null = Null
  MaxQuantity = 1
SYMMETRY CartSymmetry
INVARIANTS
  ExactUnlessRaced
  NothingInvented
  CartsExpire
CHECK_DEADLOCK FALSE
