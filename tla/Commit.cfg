\* Two jobs, one edit by somebody else, two attempts per call.
SPECIFICATION FairSpec
CONSTANTS
  Jobs = {j1, j2}
  Token <- OwnToken
  NoToken = none
  AutoPatch = autoPatch
  MaxRetries = 2
  StoreFaults = TRUE
  MaxEdits = 1
INVARIANTS
  TypeOK
  DoneWasDone
  ReviewedIsApproved
  TrailIsDocumented
PROPERTIES
  NothingSentLate
  EveryJobReturns
CHECK_DEADLOCK FALSE
