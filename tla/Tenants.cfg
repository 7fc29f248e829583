SPECIFICATION FairSpec
CONSTANTS
  Instances <- I2
  Orgs = {"o1"}
  OrgOf <- I2OneOrg
  Puts = {"p1", "p2"}
  Dels = {"d1", "d2"}
  InstOf <- I2PutDel
  Blueprint <- I2Plan
  Async = TRUE
  Faults = {}
  OrgQuota = 2
  MaxRestarts = 0
INVARIANT RemovalJustified
INVARIANT RepoSecretHasOwner
PROPERTY Isolation
PROPERTY PutTerminates
PROPERTY ClusterEventuallyRemoved
CHECK_DEADLOCK FALSE
