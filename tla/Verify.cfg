SPECIFICATION Spec
CONSTANTS
  Hosts <- TwoHosts
  Ports <- TwoPorts
  Pairs <- FourPairs
  NetOf <- Network
  HostKey <- Addresses
  ScanLabel <- OwnLabels
  LabelOf <- Labels
  SectionRows = 1
  Orders <- OneOrder
  Outcomes = {"open", "filtered"}
  Versions = {1, 2}
INVARIANTS
  WholeRecordVerifies
  VerifiedIsTheScan
  KilledRecordIsRead
  SectionsAgree
  HandoffIsWhatIsOpen
