SPECIFICATION FairSpec
CONSTANTS
  Builtin <- OneOffering
  Slack = 0
  Creates = {"c1", "c2"}
  Deletes = {"d1", "d2"}
  Lookups = {"l1"}
  Namings <- Updates
  Wanted <- WantC1
  MayFail = TRUE
INVARIANT NoLostOffering
INVARIANT BlueprintsMatchList
INVARIANT ListedIsFound
INVARIANT SearchInBounds
PROPERTY Answered
CHECK_DEADLOCK FALSE
