SPECIFICATION Spec
CONSTANTS
  Nibble = 6
  Digits <- MCDigits
  HexLetters <- MCHexLetters
  Letters <- MCLetters
  Accented <- MCAccented
  Single <- MCSingle
  Double <- MCDouble
  NaN = NaN
  Absent = Absent
  Base = 36
  WaHeader <- MCWaHeader
  EdgeMark <- MCEdgeMark
  RoutingInfos <- MCRoutingInfos
  MaxReads = 12
  LongStream = 100
  None = None
  Conversations <- MCConversations
  LongestTried = 60
INVARIANTS
  FramesInOrder
  NodesComeBack
  SelfDelimiting
CHECK_DEADLOCK FALSE
