\* Two callers, a budget of two calls, two months, two failing database calls.
SPECIFICATION BudgetLiveSpec
CONSTANTS
  Calls = {c1, c2}
  Limit = 2
  MaxMonth = 2
  MaxRows = 7
  MaxFaults = 2
INVARIANTS
  CounterMatchesLog
  BudgetHolds
PROPERTIES
  EveryCallEnds
\* Nobody has to ask the provider anything.
CHECK_DEADLOCK FALSE
