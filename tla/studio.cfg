\* Two copy requests and one catalogue request about a product, two tones, three runs.
SPECIFICATION Spec
CONSTANTS
  Desks = {d1, d2}
  Catalogues = {c1}
  Tones = {1, 2}
  MaxScore = 2
  Threshold = 1
  Neutral = 0
  MaxRuns = 3
  MaxFaults = 1
INVARIANTS
  PublishedWasRated
  VectorIsCurrent
\* The creator may ask for nothing.
CHECK_DEADLOCK FALSE
