\* lock: four calls over three keys, two of which may be registered, with one
\* clear().  queue: three keys for two live-key slots, two of four tasks at a
\* time; every bound can bind, and tasks are pushed again for ever.
SPECIFICATION PluginsSpec
CONSTANTS
  c1 = c1
  c2 = c2
  c3 = c3
  c4 = c4
  k1 = k1
  k2 = k2
  k3 = k3
  Call = {c1, c2, c3, c4}
  Key = {k1, k2, k3}
  None = None
  MaxKeys = 2
  MaxWaitersPerKey = 2
  MaxClears = 1
  NoKey = NoKey
  QueueKey = {q1, q2, q3}
  Task = {t1, t2, t3, t4}
  Waiter = {d1}
  concurrency = 2
  maxSize = 1
  maxKeys = 2
  maxPendingTotal = 2
  maxRunningTotal = 2
ACTION_CONSTRAINT ArrivalOrder
INVARIANTS ExclusivePerKey HeldIsActive AccountsExact
PROPERTIES FifoHandover WaitersProgress NoOvertaking TasksSettle
CHECK_DEADLOCK FALSE
