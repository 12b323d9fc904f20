CONSTANTS
  MaxStarts = 2
  MaxNotify = 1
SPECIFICATION Spec
INVARIANT BoundIsPolled
CHECK_DEADLOCK FALSE
