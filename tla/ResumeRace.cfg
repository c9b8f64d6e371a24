\* Two clients of one topic.
SPECIFICATION Spec
CONSTANTS
    Clients = {c1, c2}
    MaxLogged = 4
    MaxFrames = 1
CHECK_DEADLOCK FALSE
INVARIANT RacedHasNoGap
