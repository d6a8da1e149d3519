SPECIFICATION LiveSpec
CONSTANTS
  Tickets = {t1}
  Handlers = {h1}
  Drafters = {d1}
  Checkers = {c1, c2}
  BatchSize = 1
  AlertBatch = 1
  MaxDraftsPerDay = 1
  MaxMails = 2
  MaxReplies = 1
  MaxFaults = 1
CHECK_DEADLOCK FALSE
INVARIANT FirstResponseIsFirst
INVARIANT ReplyReopens
INVARIANT AlertedOncePerHour
PROPERTY OverdueIsReported
