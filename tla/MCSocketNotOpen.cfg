SPECIFICATION Spec
CONSTANTS
  q1 = q1
  q2 = q2
  p1 = p1
  None = None
  Queries = {}
  Pings = {p1}
  IdOf <- UniqueIds
  Frames <- NoFrames
  Refs <- MCRefs
  InitialCreds <- Paired
  ListenersAct = FALSE
  EndsEarly = TRUE
  MaxChunks = 2
  ChunkFrames = 1
INVARIANTS
  FailedConnectCloses
  ClosedDisconnects
  NoUnhandledRejection
CHECK_DEADLOCK FALSE
