\* Two campaigns, two API instances, two recipients.
SPECIFICATION LiveSpec
CONSTANTS
  Campaigns = {c1, c2}
  Instances = {i1, i2}
  Recipients = {r1, r2}
  MaxEdits = 2
  MaxFaults = 2
INVARIANTS
  QueuedOnce
  RowTellsTheMails
PROPERTIES
  DueIsDecided
\* The owner may schedule nothing.
CHECK_DEADLOCK FALSE
