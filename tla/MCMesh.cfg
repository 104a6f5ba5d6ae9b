SPECIFICATION Spec
CONSTANTS
  Word = 4
  PURGE_TIMEOUT = 0
  BI_LINK_TIMEOUT = 0
  MAX_ROUTE_ENTRIES = 4
  TTL = 3
  Start = 2
  MaxSeconds = 2
  MaxOgms = 1
  MaxAgain = 1
  MaxBusy = 3
  Node <- MCNode
  Links <- MCLinks
  Talks <- MCTalks
  MessageLength = 232
  Typists = {}
INVARIANTS
  GatewaysHeardUs
  RoutesLeadOn
  MessagesLeadOn
  TablesTidy
\* Nobody has to speak, and the bounds stop the clocks.
CHECK_DEADLOCK FALSE
