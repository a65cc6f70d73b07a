\* Two commands of any of five builds.  It ends when the starts are used up.
SPECIFICATION Spec
CONSTANTS
  Commands = {c1, c2}
  Last = 3
  Checksums = {"a", "b"}
  Builds <- MCBuilds
  Absent = Absent
  NotApplied = NotApplied
  Nobody = Nobody
  Orphan = Orphan
  Nothing = Nothing
  MaxStarts = 3
CHECK_DEADLOCK FALSE
INVARIANTS
  LedgerReadHolds
  DoneMeansReady
PROPERTIES
  AppliedOnTop
