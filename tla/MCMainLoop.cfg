SPECIFICATION FairSpec
CONSTANTS
  SECOND = 61
  BITE = 30
  Errors <- MCErrors
  Values <- MCValues
INVARIANTS
  TypeOK
  SecondsCounted
  SettingsKept
  CommandsWhole
PROPERTIES
  ReportTrue
  StuckIsReset
