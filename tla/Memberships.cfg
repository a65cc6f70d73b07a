\* Two users, two concurrent requests, one role to delete, one change of each membership.
CHECK_DEADLOCK FALSE
SPECIFICATION FairSpec
CONSTANTS
  Users = {u1, u2}
  Roles = {"administrator", "user", "custom"}
  Custom = {"custom"}
  Requests = {r1, r2}
  MaxRevision = 1
INVARIANTS
  TypeOK
  AdministratorRemains
PROPERTIES
  NoLostUpdate
  ImplementsRegistry
  EveryRequestEnds
