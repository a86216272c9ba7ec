SPECIFICATION Spec
CONSTANTS
  Cap = 8
  Word = 2
  Bodies = {0, 3}
  MaxMsgs = 3
  SockBuf = 16
  MaxChunk = 9
  JunkLen <- Junk
INVARIANT OnlyCompletePackets
CHECK_DEADLOCK FALSE
