SPECIFICATION Spec
CONSTANTS
  Instances <- I1
  Orgs = {"o1"}
  OrgOf <- I1Org
  Puts = {"p1", "p2"}
  Dels = {}
  InstOf <- I1Put2
  Blueprint <- I1FullPlan
  Async = FALSE
  Faults = {"input", "kube", "demiurge", "cf", "slow"}
  OrgQuota = 2
  MaxRestarts = 0
INVARIANT OneProvisioner
INVARIANT SuccessIsComplete
CHECK_DEADLOCK FALSE
