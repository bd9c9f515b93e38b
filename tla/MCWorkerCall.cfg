CONSTANTS
  Calls = {c1, c2, c3}
  TempCalls = {c1}
  MaxNesting = 2
  MaxProgress = 2
SPECIFICATION FairSpec
INVARIANTS StackOutlivesUse
PROPERTIES ImplementsBlockingCall EveryCallEnds
CHECK_DEADLOCK FALSE
