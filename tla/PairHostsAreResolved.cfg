SPECIFICATION Spec
CONSTANTS
  EtcServices <- MCEtcServices
  BuiltinServices <- MCBuiltinServices
  Bits <- MCBits
  MinIpv6Prefix = 2
  DefaultMaxTargets = 14
  MaxExpandable = 24
  Resolver <- MCResolver
  Hash <- MCHash
  Requests <- MCRequests
  Facts <- MCFacts
INVARIANTS
  PairHostsAreResolved
