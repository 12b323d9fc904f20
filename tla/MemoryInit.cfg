\* MemoryPeim returns once.
CONSTANTS
  Builds = {"shared", "LG_PIL_FIXED", "NB1_FIXED"}
  DeviceTrees <- MCDeviceTrees
SPECIFICATION Spec
INVARIANTS TypeOK SharedReservationsHold FreeMemoryIsCacheable Nb1LayoutIsItsMemory
PROPERTIES MemoryPeimReturns
CHECK_DEADLOCK FALSE
