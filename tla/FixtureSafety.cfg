SPECIFICATION Spec
CONSTANTS
  BodyStatus <- MCBodyStatus
  Platforms = {"unix", "windows"}
  Faults = {"prepare", "boot", "spawn", "io", "stray", "stuck", "signal", "ownerKilled", "providerKilled"}
INVARIANTS
  TypeOK
  RootOutlivesGroup
  VerdictIsEarned
PROPERTY
  OwnershipKept
CHECK_DEADLOCK FALSE
