\* Upgrades: four attempts over three in flight, one of them a cursor's, three
\* permits, one accept per tick and two deferred.  Messages: four frames of
\* three connections, two permits, one per connection, two waiting.
\* Authority: two mounts, one flush, two edits.  Channel: two edits on each side.
SPECIFICATION WaitsSpec
CONSTANTS
  u1 = u1
  u2 = u2
  u3 = u3
  u4 = u4
  c1 = c1
  c2 = c2
  c3 = c3
  f1 = f1
  f2 = f2
  f3 = f3
  f4 = f4
  Attempts = {u1, u2, u3, u4}
  MaxConcurrent = 3
  CursorMax = 1
  MaxConnections = 3
  Budget = 1
  MaxDeferred = 2
  Conns = {c1, c2, c3}
  Frames = {f1, f2, f3, f4}
  GlobalConcurrent = 2
  ConnConcurrent = 1
  MaxQueue = 2
  Holder = {h1, h2}
  Flusher = {p1}
  MaxEdits = 2
  SnapshotEvery = 2
  BufferCap = 1
ACTION_CONSTRAINT ArrivalOrder
INVARIANTS ReservationsExact PermitsExact
PROPERTIES UpgradesSettle WaitersSettle EditsSettle Converges
CHECK_DEADLOCK FALSE
