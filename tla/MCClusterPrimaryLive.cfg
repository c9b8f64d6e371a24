SPECIFICATION FairSpec
CONSTANTS
  Worker = {w1, w2}
  Slot = {io0}
  NoSlot = NoSlot
  MaxAttempts = 2
  DelayBase = 1
  DelayMax = 2
  StableTicks = 3
  SteadyTicks = 3
  RawBootTicks = 3
  FloorTicks = 2
  AckTicks = 2
  RingEnabled = TRUE
  RestartOnDivergence = FALSE
  DrainDelay = TRUE
  Budget = 1
PROPERTIES FaultsResolved ShutdownEnds
CHECK_DEADLOCK FALSE
