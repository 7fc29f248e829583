SPECIFICATION FairSpec
CONSTANTS
  Creates = {"c1", "c2"}
  Deletes = {"d1"}
  Gets = {"g1"}
  Lists = {"l1"}
  Naming <- ThreeRequests
  Body <- Bodies
  MayFail = TRUE
  MaxCrashes = 1
INVARIANT ServedIsWhole
INVARIANT NoLostTemplate
INVARIANT UnlistedOnceDeleted
PROPERTY ConflictSeen
PROPERTY Recovers
CHECK_DEADLOCK FALSE
