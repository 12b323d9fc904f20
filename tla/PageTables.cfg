\* A behaviour ends after MaxCalls calls.
CONSTANTS
  TT_ENTRY_COUNT = 2
  RootTableEntryCount = 2
  Types = {"Device", "WriteBack"}
  Requests <- MCRequests
  MaxTables = 7
  MaxCalls = 2
SPECIFICATION FairSpec
INVARIANTS TypeOK EveryTableIsLinkedOnce NoStaleTranslation
PROPERTIES ImplementsAddressMap CallsReturn
CHECK_DEADLOCK FALSE
