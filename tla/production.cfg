\* Three orders, each delivered twice, with errors and restarts; day 2 is a weekend.
\* Operators and the simulator overlap on one item; errors and restarts.
SPECIFICATION MCSpec
CONSTANTS
  Items = {i1}
  Callers = {c1, c2}
  OperatorMoves = {"shipped", "on_hold"}
  MaxRuns = 1
  MaxWrites = 4
  Orders = {1, 2, 3}
  Deliveries = {1, 2}
  Horizon = 3
  Weekend = {2}
  MaxOrders <- OnePerDay
INVARIANTS
  AuditTrail
  ShippingFollowsTheRow
  BookingsMatchPromises
  DaysAreKept
PROPERTIES
  ShippedEventuallyMarked
\* Every goroutine may have run to its end; nobody has to move an item on.
CHECK_DEADLOCK FALSE
