SPECIFICATION Spec
CONSTANTS
  Word = 4
  PURGE_TIMEOUT = 0
  BI_LINK_TIMEOUT = 0
  MAX_ROUTE_ENTRIES = 2
  TTL = 2
  Start = 3
  MaxSeconds = 1
  MaxOgms = 2
  MaxAgain = 2
  MaxBusy = 1
  Node <- MCNode
  Links <- MCLine
  Talks <- MCLineTalks
  MessageLength = 222
  Typists <- MCLineTypists
INVARIANTS
  TypeOK
  PacketsBounded
\* Nobody has to speak, and the bounds stop the clocks.
CHECK_DEADLOCK FALSE
