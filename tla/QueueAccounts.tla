---------------------------- MODULE QueueAccounts ----------------------------
(***************************************************************************)
(* What a queue of the queue plugin (src/plugins/queue/server.js) keeps,   *)
(* and what its accounts promise.  TaskQueue says how they change.         *)
(***************************************************************************)
EXTENDS Integers, Sequences, FiniteSets, SequencesExt

CONSTANTS QueueKey,         \* queue keys
          Task,             \* task identities
          Waiter,           \* outstanding drain() calls
          concurrency,      \* running tasks per key
          maxSize,          \* waiting tasks per key
          maxKeys,          \* live keys
          maxPendingTotal,  \* waiting tasks over all keys
          maxRunningTotal,  \* running tasks over all keys
          NoKey

\* What the constants must satisfy.
ASSUME TaskQueueAssumption ==
    /\ {concurrency, maxSize, maxKeys, maxPendingTotal, maxRunningTotal} \subseteq Nat \ {0}
    /\ IsFiniteSet(QueueKey) /\ IsFiniteSet(Task) /\ IsFiniteSet(Waiter)
    /\ NoKey \notin QueueKey

VARIABLES live,       \* the keys of `queues`
          items,      \* per key: q.items
          runningIn,  \* per key: q.running
          drains,     \* per key: q.drains
          held,       \* the keys whose q.lineNode is set
          line,       \* serviceLine
          pendingCurrent, runningCurrent,
          inFlight,   \* per task: the key whose slot it runs in, or NoKey
          turn,       \* the rest of the synchronous turn: [step, key, settled]
          owes        \* history, per drain call: the tasks it was called to wait for

queueVars == <<live, items, runningIn, drains, held, line, pendingCurrent, runningCurrent,
               inFlight, turn, owes>>

Idle == [step |-> "idle", key |-> NoKey, settled |-> FALSE]

WaitingTasks == UNION {ToSet(items[k]) : k \in QueueKey}
InSlot(k)    == {t \in Task : inFlight[t] = k}
RunningTasks == {t \in Task : inFlight[t] # NoKey}

\* The tasks of key k the caller has an unsettled promise for.
Unsettled(k) == ToSet(items[k]) \cup InSlot(k)

Startable(k) == items[k] # <<>> /\ runningIn[k] < concurrency

-----------------------------------------------------------------------------

\* Types, and the bounds that are counts of something the queue holds.
QueueTypeOK ==
    /\ live \subseteq QueueKey /\ held \subseteq QueueKey /\ line \in Seq(QueueKey)
    /\ items \in [QueueKey -> Seq(Task)]
    /\ runningIn \in [QueueKey -> 0..concurrency]
    /\ drains \in [QueueKey -> SUBSET Waiter]
    /\ pendingCurrent \in 0..maxPendingTotal
    /\ runningCurrent \in 0..maxRunningTotal
    /\ inFlight \in [Task -> QueueKey \cup {NoKey}]
    /\ turn \in [step : {"idle", "schedule", "pump", "cleanup"}, key : QueueKey \cup {NoKey},
                settled : BOOLEAN]
    /\ owes \in [Waiter -> SUBSET Task]

\* A task waits or runs in one place, once.
OnePlaceEach ==
    /\ \A k \in QueueKey : IsInjective(items[k]) /\ ToSet(items[k]) \cap RunningTasks = {}
    /\ \A j, k \in QueueKey : j # k => ToSet(items[j]) \cap ToSet(items[k]) = {}

\* Between turns the service line names exactly the keys with startable work,
\* each once, and is empty unless the running budget is spent: no key with work
\* is forgotten, no slot idles beside waiting work, and no place outlives its
\* key (queue/server.js:308-313).
LineIsExact ==
    turn = Idle =>
        /\ ToSet(line) = {k \in live : Startable(k)}
        /\ held = ToSet(line) /\ IsInjective(line)
        /\ line # <<>> => runningCurrent = maxRunningTotal

\* A drain() call stays registered with a key until every task it was called to
\* wait for there has settled: cleanup never resolves it early.
DrainWaitsForAll ==
    \A d \in Waiter : \A k \in QueueKey : owes[d] \cap Unsettled(k) # {} => d \in drains[k]

\* The incremental accounts never drift from what they count, on any path through
\* push, start, settlement and clear: a drifted counter sheds work for ever or
\* lets more tasks run than the budget allows, and between turns a key is live
\* exactly while it has work, so that it gives its maxKeys slot back, no sooner
\* than the drains of the key allow.
AccountsExact ==
    /\ QueueTypeOK
    /\ OnePlaceEach
    /\ LineIsExact
    /\ DrainWaitsForAll
    /\ pendingCurrent = Cardinality(WaitingTasks)
    /\ \A k \in QueueKey : runningIn[k] = Cardinality(InSlot(k))
    /\ runningCurrent = Cardinality(RunningTasks)
    /\ turn = Idle => live = {k \in QueueKey : Unsettled(k) # {}}
    /\ Cardinality(live) <= maxKeys

\* A key never starts a task while a key that was in line before it is passed
\* over: one visit per turn of the line, whatever arrives meanwhile.
NoOvertaking ==
    [][\A j, k \in QueueKey :
          (runningIn'[j] > runningIn[j] /\ k # j /\ k \in held)
              => (line # <<>> /\ Head(line) = j)]_queueVars

=============================================================================
