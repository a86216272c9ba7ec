SPECIFICATION FairSpec
CONSTANTS
  Cap = 8
  Word = 2
  Bodies = {0, 3, 4, 5}
  MaxMsgs = 3
  SockBuf = 4
  MaxChunk = 3
  JunkLen <- Junk
INVARIANTS TypeOK PacketsInOrder EarlierMessagesUnspoilt RecentWritesIntact
PROPERTIES SilentAfterClose EventuallyHandled
CHECK_DEADLOCK FALSE
