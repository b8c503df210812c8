SPECIFICATION Spec
CONSTANTS
  GroupBits = 3
  Short = 3
  Long = 6
  KeyLength = 2
  None = None
  Own <- MCOwn
  Subjects <- MCSubjects
  Seals <- MCSeals
  LongestCut = 24
INVARIANTS
  FieldsComeBack
  CutLosesOnlyTheTail
  OpensOnlyWhereSealed
CHECK_DEADLOCK FALSE
