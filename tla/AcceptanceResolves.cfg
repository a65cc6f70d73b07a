\* An account without password and an invitation to a second tenant.
CHECK_DEADLOCK FALSE
SPECIFICATION Spec
CONSTANTS
  Tenants = {t1, t2}
  Copies = {c1}
  Requests = {r1}
INVARIANT UserIsResolved
