\* A goroutine lost after the acknowledgement leaves a paid order out of production.
SPECIFICATION LiveSpec
CONSTANTS
  north = north
  south = south
  mug = mug
  cap = cap
  Stores = {north, south}
  Variants = {mug, cap}
  StoreOf <- Owner
  Tracked = {mug}
  InitialStock <- TwoEach
  Carts <- AnyCart
  Orders = {o1}
  EmailQueueUp = TRUE
  MaxDeliveries = 2
  Redelivered = {o1}
PROPERTIES
  EveryPaidOrderProduced
\* A shop whose orders are all settled and shipped has nothing left to do.
CHECK_DEADLOCK FALSE
