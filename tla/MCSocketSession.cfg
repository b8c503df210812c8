SPECIFICATION FairSpec
CONSTANTS
  q1 = q1
  q2 = q2
  p1 = p1
  None = None
  Queries = {q1}
  Pings = {p1}
  IdOf <- UniqueIds
  Frames <- AllFrames
  Refs <- MCRefs
  InitialCreds = {}
  ListenersAct = FALSE
  EndsEarly = FALSE
  MaxChunks = 3
  ChunkFrames = 2
INVARIANTS
  TypeOK
  ClosedStopsTimers
  ClosedDisconnects
  OneCloseUpdate
  ClosedSettlesQueries
  PendingRequestsWait
PROPERTIES
  PairingAttemptEnds
  DroppedTransportReported
CHECK_DEADLOCK FALSE
