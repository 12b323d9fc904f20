\* Four slots, three keys: 4 * 4 index pairs and every content of the ring.
CONSTANTS
  KEYPAD_EFI_KEY_MAX_COUNT = 4
  k0 = k0
  k1 = k1
  k2 = k2
  KeyData <- MCKeyData
  ZeroKey = k0
SPECIFICATION Spec
INVARIANT TypeOK
PROPERTY ImplementsFifo
