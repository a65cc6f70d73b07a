\* One job and two workers that crash, run late and lose replies; fair loops.
SPECIFICATION FairSpec
CONSTANTS
  Jobs = {j1}
  Workers = {w1, w2}
  MaxAttempts = 2
  MaxSlow = 1
  MaxCrashes = 1
INVARIANTS
  TypeOK
  OneHolder
  DeliveryAgrees
  DuplicatesHaveCause
  AuditAgrees
PROPERTIES
  LeaseGuardsOutcome
  ImplementsDelivery
  EveryMailSettles
  LapsedAreAnonymized
