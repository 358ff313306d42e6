SPECIFICATION FairWorkerSpec
CONSTANT
  N = 3
INVARIANTS
  ReadsOwnQueue
  AwaitsCreation
  NameIsFree
PROPERTIES
  OrphansLeave
  StopEnds
CHECK_DEADLOCK FALSE
