\* Two instances, three appenders, clocks that tie, differ and step back.
SPECIFICATION Spec
CONSTANTS
  i1 = i1
  i2 = i2
  a1 = a1
  a2 = a2
  a3 = a3
  Instances <- TwoInstances
  Appenders <- ThreeAppenders
  Host <- SharedHost
  Events = {ev1}
  NoEvent = NoEvent
  Nobody = Nobody
  ClockSteps <- Stepping
  MaxCalls = 1
  MaxTries = 2
SYMMETRY Workmates
INVARIANTS
  TypeOK
  OneTxnPerInstance
  PredecessorRecorded
  OneEntryPerEvent
  OneEntryPerCall
  AnswersAreRecorded
