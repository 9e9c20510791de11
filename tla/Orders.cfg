SPECIFICATION MCSpec
CONSTANTS
  Orders = {o1, o2}
  Products = {p1}
  Requests = {r1, r2}
  NoProduct = NoProduct
  NoRequest = NoRequest
  MaxStock = 2
  MaxEdits = 1
INVARIANTS NoOversell StatusesAgree FulfilledIsBacked
PROPERTIES AtomicLifecycle
CHECK_DEADLOCK FALSE
