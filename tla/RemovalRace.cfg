SPECIFICATION Spec
CONSTANTS
  Instances <- I2
  Orgs = {"o1"}
  OrgOf <- I2OneOrg
  Puts = {"p1", "p2"}
  Dels = {"d1"}
  InstOf <- I2PutDel1
  Blueprint <- I2Plan
  Async = FALSE
  Faults = {}
  OrgQuota = 2
  MaxRestarts = 0
INVARIANT ReadyKeepsCluster
CHECK_DEADLOCK FALSE
