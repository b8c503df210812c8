SPECIFICATION Spec
CONSTANTS
  q1 = q1
  q2 = q2
  p1 = p1
  None = None
  Queries = {}
  Pings = {}
  IdOf <- UniqueIds
  Frames <- SuccessOnly
  Refs <- MCRefs
  InitialCreds <- Paired
  ListenersAct = FALSE
  EndsEarly = FALSE
  MaxChunks = 2
  ChunkFrames = 1
INVARIANTS
  ClosedStaysClosed
CHECK_DEADLOCK FALSE
