\* One instance whose clock moves on between two appends.
SPECIFICATION FairSpec
CONSTANTS
  i1 = i1
  i2 = i2
  a1 = a1
  a2 = a2
  a3 = a3
  Instances <- OneInstance
  Appenders <- TwoAppenders
  Host <- SingleHost
  Events = {ev1}
  NoEvent = NoEvent
  Nobody = Nobody
  ClockSteps <- Ticking
  MaxCalls = 2
  MaxTries = 2
INVARIANTS
  LinearChain
  NeverRefused
PROPERTIES
  ImplementsLog
  EveryCallReturns
