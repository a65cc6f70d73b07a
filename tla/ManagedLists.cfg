\* Three rows on pages of one, two sort values; lists whose values move, stay
\* or become empty, and the audit log over midnight.
CHECK_DEADLOCK FALSE
SPECIFICATION Spec
CONSTANTS
  Kinds = {"tenants", "roles", "invitations", "translation-overrides", "audit"}
  Ids <- MCIds
  Values <- MCValues
  PageSize = 1
  MaxDay = 1
INVARIANTS
  TypeOK
  ListedOnce
  NeverTwice
