SPECIFICATION Spec
CONSTANTS
  Instances <- I1
  Orgs = {"o1"}
  OrgOf <- I1Org
  Puts = {"p1"}
  Dels = {"d1", "d2"}
  InstOf <- I1PutDel2
  Blueprint <- I1FullPlan
  Async = TRUE
  Faults = {"input", "kube", "demiurge", "cf"}
  OrgQuota = 2
  MaxRestarts = 1
INVARIANT TypeOK
INVARIANT RemovalJustified
INVARIANT DeletedMeansGone
INVARIANT FailedMeansStopped
PROPERTY KeepsLifecycle
CHECK_DEADLOCK FALSE
