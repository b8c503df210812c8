SPECIFICATION Spec
CONSTANTS
  q1 = q1
  q2 = q2
  p1 = p1
  None = None
  Queries = {}
  Pings = {}
  IdOf <- UniqueIds
  Frames <- PairDeviceOnly
  Refs <- MCRefs
  InitialCreds = {}
  ListenersAct = TRUE
  EndsEarly = FALSE
  MaxChunks = 2
  ChunkFrames = 1
INVARIANTS
  ClosedStopsTimers
CHECK_DEADLOCK FALSE
