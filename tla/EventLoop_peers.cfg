CONSTANTS
  MaxConn = 2
  max_connections = 1
  FrameSize = 2
  kReadChunk = 3
  ParserBound = 4
  kMaxFramesPerIteration = 2
  max_pending_frames = 1
  Window = 1
  MaxSent = 4
  MaxTimer = 1
SPECIFICATION FairSpec
INVARIANT TypeOK
INVARIANT ReportedExactlyOnce
INVARIANT WithinLimit
INVARIANT LastFramesHandled
INVARIANT ClosedNotPolled
 
PROPERTY OutputLeaves
