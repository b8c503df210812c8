SPECIFICATION Spec
CONSTANTS
  Accounts = {alice, bob}
  None = None
  MaxCreds = 2
  MaxConnections = 4
INVARIANTS
  PairedOnlyByOwnAccount
  LinkedDeviceCanLogIn
PROPERTIES
  LinkedDeviceShowsNoQr
CHECK_DEADLOCK FALSE
