SPECIFICATION FairSpec
CONSTANTS
  Period = 2
  WriteIdle = 2
  ReadIdle = 6
  MaxAge = 7
  MaxDelay = 3
INVARIANTS TypeOK SocketKept StaysInTouch
PROPERTIES SilenceNoticed HandshakeCompletes
