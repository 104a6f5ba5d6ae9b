SPECIFICATION Spec
CONSTANTS
  MAX_CMD_BUF = 4
  NULL = NULL
  Key <- MCKeys
  Block <- MCBlocks
INVARIANTS
  TypeOK
  CommandAsTyped
  ListingExact
