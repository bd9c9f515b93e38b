CONSTANTS
  club = club
  office = office
  Programs = {club, office}
  Steps <- WithRename
  Available <- AllAvailable
  SchemaVersions <- OneBehind
  Tables <- TheTables
  NoColumn = NoColumn
  StartOld = TRUE
  StartVersions <- EachVersion
  Commands = {"db:load", "db:up", "db:migrate", "db:down"}
  MaxInterrupts = 3
SPECIFICATION MigratorFairSpec
INVARIANTS MigratorTypeOK ConnectedIsCurrent RecordedIsApplied
PROPERTY GetsConnected
CHECK_DEADLOCK FALSE
