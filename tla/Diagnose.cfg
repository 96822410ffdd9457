\* The whole of one Diagnose, with and without Phoenix.
SPECIFICATION FairSpec
CONSTANTS
  Sessions = {1, 2, 3}
  StoreFaults = TRUE
INVARIANTS
  TypeOK
  VerdictHasCause
  TrailMatchesReturn
  NoStraySession
  RetryUsesAnother
PROPERTIES
  DiagnoseEnds
CHECK_DEADLOCK FALSE
