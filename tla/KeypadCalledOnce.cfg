CONSTANTS
  KEYPAD_EFI_KEY_MAX_COUNT = 3
  KeyData <- MCKeyData
  NullCode = "null"
  Fns = {f}
  h1 = h1
  h2 = h2
  Handles <- MCHandles
  Toggles <- MCToggles
  MaxTyped = 3
SPECIFICATION Spec
PROPERTY CalledOncePerKeystroke
