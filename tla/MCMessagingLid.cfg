SPECIFICATION Spec
CONSTANTS
  GroupBits = 4
  Short = 3
  Long = 4
  None = None
  Base <- Byte
  encodeContent <- MCEncode
  decodeContent <- MCDecode
  textOf <- extractText
  contentOf <- unwrapMessage
  Devices <- MCLidDevices
  Members <- MCMembers
  Texts <- MCLidTexts
  FirstId = 31
  Stocked <- MCLidStocked
  Batch = 2
  Least = 1
  MaxUploads <- MCLidMaxUploads
  MaxDrops = 1
INVARIANT TargetsAreTheAudience
CHECK_DEADLOCK FALSE
