SPECIFICATION Spec
CONSTANTS
  Planned = 3
  Classes = {timeout, refused}
  MaxGroups = 1
  Xor <- OneBitXor
INVARIANTS
  OrderIsABijection
  ResultsAreInOnePlace
  WholeRecordIsResumedExactly
  NothingUnbackedIsSkipped
