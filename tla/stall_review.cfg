\* Two processes migrate in two files; one stall, two faults.
SPECIFICATION ReviewSpec
CONSTANTS
  Boots = {b1, b2}
  Marketplace = 2
  MaxRestarts = 1
  Stalls = {s1}
  MaxFilings = 2
  MaxDecisions = 3
  MaxFaults = 2
INVARIANTS
  DecisionIsOnRecord
  SuspensionHolds
\* Every stall may be decided and every process serve.
CHECK_DEADLOCK FALSE
