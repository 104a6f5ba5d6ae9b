SPECIFICATION Spec
CONSTANTS
  Word = 8
  PURGE_TIMEOUT = 1
  BI_LINK_TIMEOUT = 1
  MAX_ROUTE_ENTRIES = 2
  TTL = 2
  Start = 0
  MaxSeconds = 4
  MaxOgms = 4
  MaxAgain = 1
  MaxBusy = 2
  Node <- MCPair
  Links <- MCLink
  Talks = {}
  MessageLength = 0
  Typists <- MCPair
PROPERTIES
  PropagatedLinksConfirmed
CHECK_DEADLOCK FALSE
