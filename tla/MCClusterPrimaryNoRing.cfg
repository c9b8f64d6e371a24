SPECIFICATION Spec
CONSTANTS
  Worker = {w1, w2}
  Slot = {io0}
  NoSlot = NoSlot
  MaxAttempts = 1
  DelayBase = 1
  DelayMax = 2
  StableTicks = 2
  SteadyTicks = 2
  RawBootTicks = 0
  FloorTicks = 2
  AckTicks = 2
  RingEnabled = FALSE
  RestartOnDivergence = FALSE
  DrainDelay = FALSE
  Budget = 0
PROPERTIES HealthyNeverKilled
CHECK_DEADLOCK FALSE
