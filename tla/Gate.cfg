\* Three calls are enough for two that race and a third that comes late.
SPECIFICATION FairSpec
CONSTANTS
  Calls = {e1, e2, e3}
  Changes = {"breaks", "splits", "loses", "narrows"}
  Of <- Patch
  NoChange = NoChange
  StoreFaults = FALSE
  MaxStarts = 2
INVARIANTS
  TypeOK
  VerdictHasCause
  RejectedOnce
PROPERTIES
  EvaluationsSettle
CHECK_DEADLOCK FALSE
