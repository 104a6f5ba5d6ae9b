SPECIFICATION FairSpec
CONSTANTS
  Size = 3
  Longest = 4
  Most = 3
  Writers <- MCWriters
  Outputs <- MCOutputs
INVARIANTS
  TypeOK
  OutputsWhole
PROPERTIES
  ImplementsFifo
  OutputsFinish
  Drains
