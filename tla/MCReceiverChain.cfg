SPECIFICATION Spec
CONSTANTS
  MAX_SKIPPED_MESSAGE_KEYS = 3
  MAX_STORED_MESSAGE_KEYS = 2
  Counters <- MCCounters
  ratchetKey = ratchetKey
  seed = seed
INVARIANTS
  TypeOK
  RightKeyForCounter
  EachKeyHandedOutOnce
  StoreBounded
  RecentKeysKept
PROPERTIES
  WorkPerMessageBounded
CHECK_DEADLOCK FALSE
