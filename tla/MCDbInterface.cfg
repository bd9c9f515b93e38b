CONSTANTS
  create = create
  merge = merge
  mergeOne = mergeOne
  gui = gui
  Keepalive = keepalive
  None = none
  Program <- Operation
  Piecewise <- StatementWise
  Clients = {create, mergeOne, gui}
  MaxMishaps = 1
  MaxCloses = 1
  MayCancel = TRUE
SPECIFICATION FairSpec
INVARIANTS TypeOK DoneUnlessInterrupted
PROPERTY EveryStatementEnds
CHECK_DEADLOCK FALSE
