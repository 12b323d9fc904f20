CONSTANTS
  FirstHandles <- MCFirst
  Children <- MCChildren
  BridgeHandles = {"bridge"}
  PciHandles = {"adapter", "disk"}
  DisplayHandles = {"adapter"}
  OutputHandles = {"simpleFb", "bare", "pciGop"}
  PathHandles = {"simpleFb", "pciGop"}
  DriverOptions <- MCDriverOptions
  PlatformOffers <- MCPlatformOffers
  CapsuleLists <- MCCapsuleLists
  PcdPlatformBootTimeOut = 2
  MaxReboots = 1
SPECIFICATION FairSpec
INVARIANTS HotkeysStartTheirOptions GraphicsAreConsoles UpdatesEndTheBoot
PROPERTY BootEnds
\* Behaviours end with the option of the last boot.
CHECK_DEADLOCK FALSE
