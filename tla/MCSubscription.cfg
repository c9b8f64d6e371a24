SPECIFICATION Spec
CONSTANTS
  room = room
  tap = tap
  club = club
  a1 = a1
  a2 = a2
  Topics = {room, tap, club}
  PluginOwned = {club}
  Derived <- MCDerived
  Attempts = {a1, a2}
  Batches <- MCBatches
  MaxSubs = 2
  MaxPending = 2
  MaxEpoch = 2
SYMMETRY MCSymmetry
INVARIANTS AccountsExact
PROPERTIES AcksAreTruthful LandingsActOnTheMoment HistoryIsEntitled
CHECK_DEADLOCK FALSE
