\* Two mails to one address, two workers, two attempts each.
SPECIFICATION LiveSpec
CONSTANTS
  ann = ann
  MaxJobs = 2
  Workers = {w1, w2}
  MaxRetries = 2
  MaxFaults = 1
  MaxExtra = 1
  Recipients = {ann}
  To <- ToAnn
  Reports = {"clicked", "bounced"}
INVARIANTS
  TypeOK
  JobsAccounted
  SuppressionHolds
  MailsPerAttempt
PROPERTIES
  EveryJobEnds
\* When every job has ended the worker waits for the next.
CHECK_DEADLOCK FALSE
