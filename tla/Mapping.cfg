SPECIFICATION Spec
CONSTANTS
  Instances = {"i1", "i2"}
  Binds = {"b1"}
  Shows = {"v1", "v2"}
  Views = {"w1"}
  SecretCalls = {"s1"}
  Cases <- LongerNameCase
  Names = {"s1", "s2"}
  Secrets <- AllSecrets
  Public <- Visibilities
  MayFail = FALSE
INVARIANT MappingAsDocumented
CHECK_DEADLOCK FALSE
