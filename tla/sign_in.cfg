\* One account of any audience, two devices, two requests, six seconds, one fault;
\* three requests in the limiter at a time, two a window, two failing calls.
SPECIFICATION MCSpec
CONSTANTS
  Devices = {d1, d2}
  Requests = {r1, r2}
  AccessTTL = 1
  RefreshTTL = 2
  RequestTime = 1
  MaxNow = 5
  MaxFaults = 1
  Arrivals = {a1, a2, a3}
  Limit = 2
  MaxMissed = 2
CONSTRAINT Followed
SYMMETRY Symmetry
INVARIANTS
  SignOutHolds
  ClosingHolds
  SessionSurvives
  WindowIsCapped
\* Nobody has to sign in.
CHECK_DEADLOCK FALSE
