\* One job, and one edit between its read and its push.
SPECIFICATION Spec
CONSTANTS
  Jobs = {j1}
  Token <- OwnToken
  NoToken = none
  AutoPatch = autoPatch
  MaxRetries = 3
  StoreFaults = FALSE
  MaxEdits = 1
INVARIANTS
  PatchedWhatItReplaces
CHECK_DEADLOCK FALSE
