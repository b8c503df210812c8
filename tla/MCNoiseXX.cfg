SPECIFICATION Spec
CONSTANTS
  MAX_COUNTER = 2
  Servers <- MCServers
  MaxConnections = 2
  MaxQueue = 2
INVARIANTS
  NonceUsedOnce
  KeysAgree
  GenuineServerAccepted
  TransportOnlyWithGenuine
CHECK_DEADLOCK FALSE
