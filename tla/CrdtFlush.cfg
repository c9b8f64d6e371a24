\* Two mounts and two callers of flush(); two edits, one of them taken while a flush runs.
SPECIFICATION Spec
CONSTANTS
  Holder = {h1, h2}
  Flusher = {f1, f2}
  MaxEdits = 2
  SnapshotEvery = 2
PROPERTY OkMeansDurable
CHECK_DEADLOCK FALSE
