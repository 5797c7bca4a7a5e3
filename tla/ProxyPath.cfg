SPECIFICATION Spec
CONSTANTS
  MaxHops = 3
  MaxHeader = 3
  HandshakeBudget = 2
  ConnectBudget = 4
INVARIANTS
  VerdictIsAboutTheDestination
  OnlySilenceIsRetried
  ExchangeIsBounded
  GreetingIsTheDestinations
  EveryoneHearsTheirOwn
