\* Two tenants with two invitations each, two concurrent requests.
CHECK_DEADLOCK FALSE
SPECIFICATION Spec
CONSTANTS
  Tenants = {t1, t2}
  Copies = {c1, c2}
  Requests = {r1, r2}
SYMMETRY Symmetry
INVARIANTS
  TypeOK
  ActivatesOnce
  SuperAdministratorIsGlobal
PROPERTIES
  NewcomersAreNew
