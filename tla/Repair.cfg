\* The default four iterations would only repeat what three show.
SPECIFICATION FairSpec
CONSTANTS
  a = a
  ab = ab
  c = c
  Texts = {a, ab, c}
  Begins <- LongerTexts
  Versions <- Contents
  Diffs <- Answers
  NoDiff = NoDiff
  MaxIterations = 3
  StoreFaults = TRUE
  MaxEdits = 1
INVARIANTS
  TypeOK
  ApprovedAsPrompted
  PromptIsFresh
  TrailTellsTheLoop
  StopsAfterTwo
PROPERTIES
  RepairReturns
CHECK_DEADLOCK FALSE
