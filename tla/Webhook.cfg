\* Three deliveries of a failure event and an ordinary one, one restart.
SPECIFICATION FairSpec
CONSTANTS
  Events = {fail1, start1}
  Triggering = {fail1}
  Deliveries = {d1, d2, d3}
  NoEvent = NoEvent
  StoreFaults = TRUE
  MaxStarts = 2
INVARIANTS
  TypeOK
  OnePipelinePerEvent
  AnswersAreTrue
  OneOutcome
  MergeRequestsAreGated
PROPERTIES
  EverythingEnds
CHECK_DEADLOCK FALSE
