\* Invitations by e-mail, within one day: an anonymized row at a page's end.
CHECK_DEADLOCK FALSE
SPECIFICATION Spec
CONSTANTS
  Kinds = {"invitations"}
  Ids <- MCIds
  Values <- MCValues
  PageSize = 1
  MaxDay = 0
INVARIANT CursorContinues
