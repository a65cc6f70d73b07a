\* Two users and one custom role; two requests, edited once each.
CHECK_DEADLOCK FALSE
SPECIFICATION Spec
CONSTANTS
  Users = {u1, u2}
  Custom = {c}
  Requests = {q1, q2}
  Operations = {"CreateRole", "UpdateRole", "DeleteRole", "UpdateMembership", "CreateInvitation"}
  MaxRevision = 2
SYMMETRY MCSymmetry
INVARIANTS
  TypeOK
  RolesInUse
  NeverLockedOut
  PermissionHasCause
PROPERTIES
  PermissionsSeen
