SPECIFICATION Spec
CONSTANT
  MaxEvents = 5
INVARIANTS
  CriticalIsDurable
  OrderedAndOnce
  NothingIsLostSilently
  FinalHasTerminal
