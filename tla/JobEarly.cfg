SPECIFICATION Spec
CONSTANTS
  Uuids = {"u1"}
  Calls = {"c1", "c2", "c3"}
  OpOf <- OpsU1
  UuidOf <- AllU1
  Jobs = {"j1", "j2"}
  Hooks <- HooksU1
  Saving = {"j1", "j2"}
  MaxFailures = 0
INVARIANT OnlyEndedDeleted
CHECK_DEADLOCK FALSE
