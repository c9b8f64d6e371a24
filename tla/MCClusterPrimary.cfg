SPECIFICATION Spec
CONSTANTS
  Worker = {w1, w2, w3}
  Slot = {io0, io1}
  MaxAttempts = 1
  StableTicks = 2
  SteadyTicks = 2
  RawBootTicks = 1
  FloorTicks = 2
  AckTicks = 2
  RingEnabled = TRUE
  RestartOnDivergence = TRUE
  DrainDelay = TRUE
  Budget = 1
  NoSlot = NoSlot
  DelayBase = 1
  DelayMax = 2
SYMMETRY Symmetry
INVARIANTS FleetMatchesAccounts
PROPERTIES SupervisorSpec HealthyNeverKilled
CHECK_DEADLOCK FALSE
