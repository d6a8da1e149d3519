\* Two shoppers after two mugs, mixed and empty carts, redelivered events, crashes.
SPECIFICATION LiveSpec
CONSTANTS
  north = north
  south = south
  mug = mug
  cap = cap
  Stores = {north, south}
  Variants = {mug, cap}
  StoreOf <- Owner
  Tracked = {mug}
  InitialStock <- TwoEach
  Carts <- AnyCart
  Orders = {o1, o2}
  EmailQueueUp = TRUE
  MaxDeliveries = 2
  Redelivered = {o1}
INVARIANTS
  TypeOK
  ProductionWasPaid
  OrderAgreesWithMoney
  StockAccounted
PROPERTIES
  ImplementsLedger
  ChargeIsRecorded
\* A shop whose orders are all settled and shipped has nothing left to do.
CHECK_DEADLOCK FALSE
