\* Two keys, two overlapping requests, two windows of time.
SPECIFICATION Spec
CONSTANTS
  Keys = {k1, k2}
  Requests = {r1, r2}
  Limit = 2
  Window = 2
  Second = 2
  MaxClock = 4
SYMMETRY Symmetry
INVARIANTS
  NeverMoreThanLimit
PROPERTIES
  RetryAfterHonest
