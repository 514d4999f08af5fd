SPECIFICATION Spec
CONSTANTS
  t1 = t1
  t2 = t2
  k1 = k1
  k2 = k2
  Target <- MCTarget
  Knob <- MCKnob
  Schedules <- MCSchedules
  MaxDelay = 1
  MaxLosses = 1
  MaxClock = 10
  None = None
INVARIANTS
  ResetLeavesHealthy
  PhaseTakesHold
  RecoversAfterPhases
CHECK_DEADLOCK FALSE
