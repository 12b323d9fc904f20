\* MemoryPeim returns once.
CONSTANTS
  Builds = {"NB1_FIXED"}
  DeviceTrees <- MCNb1Trees
SPECIFICATION Spec
INVARIANTS DeviceReservationsHold
CHECK_DEADLOCK FALSE
