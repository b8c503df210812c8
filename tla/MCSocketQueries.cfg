SPECIFICATION FairSpec
CONSTANTS
  q1 = q1
  q2 = q2
  p1 = p1
  None = None
  Queries = {q1, q2}
  Pings = {p1}
  IdOf <- SharedIds
  Frames <- NoFrames
  Refs <- MCRefs
  InitialCreds = {}
  ListenersAct = TRUE
  EndsEarly = FALSE
  MaxChunks = 3
  ChunkFrames = 2
PROPERTIES
  EveryQuerySettles
CHECK_DEADLOCK FALSE
