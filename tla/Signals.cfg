SPECIFICATION Spec
CONSTANTS
  Handlers = {sigint, sigterm, again}
INVARIANTS
  NoSignalIsLost
PROPERTIES
  FlagEscalates
  SignalsAreObeyed
CHECK_DEADLOCK FALSE
