CONSTANTS
  KEYPAD_EFI_KEY_MAX_COUNT = 3
  KeyData <- LiveKeyData
  NullCode = "null"
  Fns = {f}
  h1 = h1
  h2 = h2
  Handles = {h1, h2}
  Toggles <- LiveToggles
  MaxTyped = 2
SPECIFICATION FairSpec
PROPERTIES NotifyDrains ReadReturns
