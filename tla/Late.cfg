SPECIFICATION Spec
CONSTANTS
  Instances <- I1
  Orgs = {"o1"}
  OrgOf <- I1Org
  Puts = {"p1"}
  Dels = {"d1"}
  InstOf <- I1PutDel
  Blueprint <- I1Plan
  Async = TRUE
  Faults = {"slow"}
  OrgQuota = 2
  MaxRestarts = 0
INVARIANT DeletedMeansGone
CHECK_DEADLOCK FALSE
