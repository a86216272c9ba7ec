SPECIFICATION Spec
CONSTANTS
  Cap = 8
  Word = 2
  Bodies = {0, 3}
  MaxMsgs = 4
  SockBuf = 2
  MaxChunk = 2
  JunkLen <- Junk
INVARIANT RegionUntouched
CHECK_DEADLOCK FALSE
