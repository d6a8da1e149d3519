\* Three processes, each restarted once, race over three files with two faults;
\* then two bookings of one creator, two mutations in flight.
SPECIFICATION MCSpec
CONSTANTS
  Boots = {p1, p2, p3}
  Marketplace = 3
  MaxRestarts = 1
  MaxFaults = 2
  Bookings = {b1, b2}
  Calls = {c1, c2}
  MaxFailures = 1
INVARIANTS
  MigratedInOrder
  TypeOK
  PayoutAgrees
  CountedOnce
PROPERTIES
  DeployServes
  ImplementsEscrow
\* Every process may serve, or be given up; every booking may be completed or declined.
CHECK_DEADLOCK FALSE
