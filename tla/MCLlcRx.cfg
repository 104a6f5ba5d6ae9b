SPECIFICATION FairSpec
CONSTANTS
  PACKET_MAX_SIZE = 6
  MaxOverlong = 3
  Frames <- MCFrames
  DataLength <- MCDataLength
INVARIANTS
  TypeOK
  OnlyWholePackets
  ReadyBetweenFrames
PROPERTIES
  CleanFramesKept
  WholePacketsHandedOut
