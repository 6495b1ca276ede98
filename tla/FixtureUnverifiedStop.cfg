SPECIFICATION Spec
CONSTANTS
  BodyStatus <- MCBodyStatus
  Platforms = {"unix"}
  Faults = {"stuck"}
INVARIANT
  SupervisorStopsFirst
CHECK_DEADLOCK FALSE
