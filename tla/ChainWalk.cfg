\* Up to three entries written, two damages, a walk racing the writer.
SPECIFICATION Spec
CONSTANTS
  Bodies = {x, y}
  ClockSteps <- Ticking
  MaxEntries = 3
  MaxFaults = 2
INVARIANTS
  WalkedIsWritten
  UndamagedAccepted
CHECK_DEADLOCK FALSE
