SPECIFICATION Spec
CONSTANTS
  MaxFlight = 11
  MaxRecord = 2
  HeaderSize = 1
  MaxLeafDer = 4
  MaxChainKept = 1
  DerSize <- MCDerSize
  Servers <- MCServers
INVARIANTS
  FlightIsBounded
  LearnedStands
  SurveyIsTruthful
