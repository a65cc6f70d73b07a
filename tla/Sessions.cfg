\* Two tenants, two concurrent requests, two rises of the session version.
CHECK_DEADLOCK FALSE
SPECIFICATION Spec
CONSTANTS
  Tenants = {t1, t2}
  Requests = {r1, r2}
  MaxVersion = 3
SYMMETRY Symmetry
INVARIANTS
  TypeOK
  LiveTokensHaveMembership
  RotationsDistinct
PROPERTIES
  RefusedForGood
  ImplementsActiveSessions
