SPECIFICATION Spec
CONSTANTS
  GroupBits = 4
  Short = 3
  Long = 4
  None = None
  Base <- Byte
  encodeContent <- MCEncode
  decodeContent <- MCDecode
  textOf <- extractText
  contentOf <- unwrapMessage
  Devices <- MCDevices
  Members <- MCMembers
  Texts <- MCTexts
  FirstId = 31
  Stocked <- MCStocked
  Batch = 2
  Least = 1
  MaxUploads <- MCMaxUploads
  MaxDrops = 1
INVARIANTS
  BundlesAreHeld
  EveryCopyOpens
  TextsComeBack
  ShownAgainOnlyWithoutKey
  TicksAreTrue
  TargetsAreTheAudience
  NothingIsLeft
CHECK_DEADLOCK FALSE
