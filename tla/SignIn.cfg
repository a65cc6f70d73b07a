\* Two tabs, a user and a super administrator, two attempts, two lifetimes of
\* the cookies.  It ends when the time and the tokens are used up.
SPECIFICATION SignInSpec
CONSTANTS
  Users = {user, admin}
  SuperAdmins = {admin}
  Tabs = {t1, t2}
  VerificationTTL = 1
  AttemptTTL = 1
  MaxClock = 2
  MaxTokens = 2
  MaxAttempts = 2
SYMMETRY Symmetry
CHECK_DEADLOCK FALSE
INVARIANTS
  ActsAsAsked
PROPERTIES
  LinkFollowsPassword
