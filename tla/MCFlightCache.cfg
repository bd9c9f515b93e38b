CONSTANTS
  Stored = 0
  Days = {1, 2}
  Today = 1
  LastDay = 2
  None = none
  MaxWrites = 2
  MaxRefreshes = 2
  MaxNesting = 2
  MayCancel = TRUE
  MayShare = TRUE
SPECIFICATION FairSpec
INVARIANTS MirrorUnlessDisturbed EditsSeeTheRow
PROPERTY CatchesUp
CHECK_DEADLOCK FALSE
