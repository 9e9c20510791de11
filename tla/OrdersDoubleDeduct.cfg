SPECIFICATION Spec
CONSTANTS
  Orders = {o1}
  Products = {p1}
  Requests = {r1, r2}
  NoProduct = NoProduct
  NoRequest = NoRequest
  MaxStock = 2
  MaxEdits = 0
INVARIANTS DeductedOnce
CHECK_DEADLOCK FALSE
