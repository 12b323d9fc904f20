\* Nothing follows ExitBootServices.
CONSTANTS
  ResetPins = {0, 89}
  MaxTouches = 5
SPECIFICATION FairSpec
INVARIANTS TypeOK BusIsOpenWhilePolled BusIsClosedWhenTheOsStarts WokenReaderFindsReport
PROPERTIES ReportsAdvance ProbeEnds
CHECK_DEADLOCK FALSE
