CONSTANTS
  Waiters = {w1, w2, w3}
  Notifiers = {n1, n2}
  Free = free
SPECIFICATION WaiterFairSpec
INVARIANTS WaiterTypeOK NoLostWakeup
PROPERTIES ImplementsGate EveryWaitReturns
CHECK_DEADLOCK FALSE
