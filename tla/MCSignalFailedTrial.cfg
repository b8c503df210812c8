SPECIFICATION Spec
CONSTANTS
  MAX_SKIPPED_MESSAGE_KEYS = 8
  MAX_STORED_MESSAGE_KEYS = 8
  MAX_PREVIOUS_SESSIONS = 5
  A = A
  B = B
  slot1 = slot1
  slot2 = slot2
  Device <- MCDevice
  Slots = {slot1}
  InitialPreKeys <- TwoPreKeys
  MaxOpens <- Reopener
  MaxBodies = 4
  MaxDeliveries = 2
  MaxCrashes = 0
INVARIANTS
  MessagesStayDecryptable
CHECK_DEADLOCK FALSE
