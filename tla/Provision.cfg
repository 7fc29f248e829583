SPECIFICATION Spec
CONSTANTS
  Instances <- I2
  Orgs = {"o1", "o2"}
  OrgOf <- I2TwoOrgs
  Puts = {"p1", "p2"}
  Dels = {}
  InstOf <- I2Put
  Blueprint <- I2Plan
  Async = TRUE
  Faults = {"input", "kube", "demiurge", "cf", "slow"}
  OrgQuota = 1
  MaxRestarts = 0
INVARIANT SuccessIsComplete
CHECK_DEADLOCK FALSE
