\* Three requests at a time, two a window, one failing call.
SPECIFICATION LimiterLiveSpec
CONSTANTS
  Arrivals = {r1, r2, r3}
  Limit = 2
  MaxMissed = 1
PROPERTY RefusalEnds
