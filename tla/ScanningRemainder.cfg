SPECIFICATION Spec
CONSTANTS
  Planned = 3
  Classes = {timeout}
  MaxGroups = 1
  Xor <- OneBitXor
INVARIANT
  ScanningSkipsOnlyBacked
