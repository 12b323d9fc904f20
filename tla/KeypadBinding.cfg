\* The fault of KbdFreeNotifyList ends a behaviour.
CONSTANTS
  MaxStarts = 3
  MaxNotify = 2
SPECIFICATION Spec
INVARIANTS TypeOK ContextsAreLive SignalsAnEvent AllOrNothing
CHECK_DEADLOCK FALSE
