\* respawns: two slots, an attempt limit the back-off doubles under.  life: two exchanges and one
\* WebSocket connection, in every role, with and without a budget.  ring: four
\* bytes whose positions wrap after two revolutions; frames smaller and larger
\* than the ring, and one larger than the reader accepts.
SPECIFICATION ThreadsSpec
CONSTANTS
  Slot = {io0, io1}
  MaxAttempts = 3
  DelayBase = 2
  DelayMax = 7
  StableTicks = 2
  Request = {r1, r2}
  Socket = {c1}
  Cap = 4
  Mod = 8
  HeaderBytes = 2
  FrameSizes <- SizesWithOversized
  MaxFrame = 5
  MaxPending = 2
  MaxAge = 1
  MaxFrames = 3
INVARIANTS SlotAccounting OrderlyStop NoLostWakeup
PROPERTIES FlapperExhausts BoundedStopEnds StreamSpec StalledPeerIsReported
CHECK_DEADLOCK FALSE
