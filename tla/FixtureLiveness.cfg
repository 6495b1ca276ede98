SPECIFICATION OwnerSpec
CONSTANTS
  BodyStatus <- MCBodyStatus
  Platforms = {"unix", "windows"}
  Faults = {"boot", "prepare", "spawn", "io", "stray", "stuck", "signal", "ownerKilled", "providerKilled"}
PROPERTIES
  WaitsOnlyForTheBody
  LeaseReachesChild
  ProviderReclaims
CHECK_DEADLOCK FALSE
