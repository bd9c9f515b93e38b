CONSTANTS
  Kinds = {"serial", "tcp", "file"}
  Targets = {t1, t2}
  NoStream = NoStream
  MaxOutages = 1
  MaxActions = 2
SPECIFICATION ManagedFairSpec
INVARIANTS ShownIsTrue UsesTheSettings
PROPERTY Recovers
CHECK_DEADLOCK FALSE
