----------------------------- MODULE TaskQueue -----------------------------
(***************************************************************************)
(* The queue plugin (src/plugins/queue/server.js): a FIFO of waiting tasks *)
(* per key, at most `concurrency` of them running per key and              *)
(* maxRunningTotal over all keys, and a service line in which every key    *)
(* with startable work holds one place.                                    *)
(*                                                                         *)
(* A call or a task's settlement runs to completion on the JavaScript      *)
(* thread.  The scheduler loop inside it is unrolled: `turn` names what    *)
(* the synchronous turn in progress has left to do, and no call and no     *)
(* settlement starts until it is idle again.                               *)
(*                                                                         *)
(* Abstracted: a task is a model value, pushed again once it has settled;  *)
(* whether it resolved or threw (both paths do the same), the cumulative   *)
(* totals, the peaks, and argument validation.                             *)
(***************************************************************************)
EXTENDS QueueAccounts, OrderedRemoval

Outstanding(t) == \E k \in QueueKey : t \in Unsettled(k)

Init ==
    /\ live = {} /\ held = {} /\ line = <<>>
    /\ items = [k \in QueueKey |-> <<>>]
    /\ runningIn = [k \in QueueKey |-> 0]
    /\ drains = [k \in QueueKey |-> {}]
    /\ pendingCurrent = 0 /\ runningCurrent = 0
    /\ inFlight = [t \in Task |-> NoKey]
    /\ turn = Idle
    /\ owes = [d \in Waiter |-> {}]

(***************************************************************************)
(* The helpers.  `l` and `h` are the line and its holders as the caller    *)
(* has left them.                                                          *)
(***************************************************************************)
\* Slip: a served key is not put back in line.
MarkReadyNot(k, l, h) == line' = l /\ held' = h
\* markReady(key, q)
MarkReady(k, l, h) ==
    IF k \notin h /\ items'[k] # <<>> /\ runningIn'[k] < concurrency
    THEN line' = Append(l, k) /\ held' = h \cup {k}
    ELSE line' = l /\ held' = h

\* Slip: the shift forgets the aggregate counter.
StartUncounted(k) ==
    /\ items' = [items EXCEPT ![k] = Tail(@)]
    /\ inFlight' = [inFlight EXCEPT ![Head(items[k])] = k]
    /\ pendingCurrent' = pendingCurrent
    /\ runningIn' = [runningIn EXCEPT ![k] = @ + 1]
    /\ runningCurrent' = runningCurrent + 1
\* start(key, q): the oldest waiting task takes a slot.
Start(k) ==
    /\ items' = [items EXCEPT ![k] = Tail(@)]
    /\ inFlight' = [inFlight EXCEPT ![Head(items[k])] = k]
    /\ pendingCurrent' = pendingCurrent - 1
    /\ runningIn' = [runningIn EXCEPT ![k] = @ + 1]
    /\ runningCurrent' = runningCurrent + 1

StartNothing == UNCHANGED <<items, inFlight, pendingCurrent, runningIn, runningCurrent>>

(***************************************************************************)
(* push(key, task).  A shed push changes nothing but its statistics: every *)
(* bound is checked before anything is allocated.                          *)
(***************************************************************************)
Admits(k) ==
    /\ IF k \in live THEN Len(items[k]) < maxSize ELSE Cardinality(live) < maxKeys
    /\ pendingCurrent < maxPendingTotal

Push(k, t) ==
    /\ turn = Idle /\ ~Outstanding(t)
    /\ Admits(k)
    /\ live' = live \cup {k}
    /\ items' = [items EXCEPT ![k] = Append(@, t)]
    /\ pendingCurrent' = pendingCurrent + 1
    /\ turn' = [step |-> "schedule", key |-> k, settled |-> FALSE]
    /\ UNCHANGED <<runningIn, drains, held, line, runningCurrent, inFlight, owes>>

(***************************************************************************)
(* schedule(key, q), then pump(); a settlement then calls cleanup(key).    *)
(***************************************************************************)
\* Slip: the shortcut is taken past the keys already in line.
ShortcutPast(k) == Startable(k) /\ runningCurrent < maxRunningTotal
\* The scheduler would put the key in line and take it straight back out.
Shortcut(k) == line = <<>> /\ Startable(k) /\ runningCurrent < maxRunningTotal

Schedule ==
    LET k == turn.key IN
    /\ turn.step = "schedule"
    /\ IF Shortcut(k) THEN Start(k) ELSE StartNothing
    /\ MarkReady(k, line, held)
    /\ turn' = [step |-> "pump", key |-> k, settled |-> turn.settled]
    /\ UNCHANGED <<live, drains, owes>>

Budget == runningCurrent < maxRunningTotal

\* One iteration of the loop in pump().
PumpOne ==
    LET k == Head(line) IN
    /\ turn.step = "pump" /\ line # <<>> /\ Budget
    /\ IF k \in live /\ Startable(k)
       THEN Start(k) /\ MarkReady(k, Tail(line), held \ {k})
       ELSE StartNothing /\ line' = Tail(line) /\ held' = held \ {k}
    /\ UNCHANGED <<live, drains, turn, owes>>

PumpEnd ==
    /\ turn.step = "pump" /\ (line = <<>> \/ ~Budget)
    /\ turn' = IF turn.settled THEN [step |-> "cleanup", key |-> turn.key, settled |-> TRUE] ELSE Idle
    /\ UNCHANGED <<live, items, runningIn, drains, held, line, pendingCurrent, runningCurrent,
                   inFlight, owes>>

\* Slip: a key with waiting tasks but nothing running is taken for finished.
FinishedSlots(k, waiting) == runningIn[k] = 0
\* The test of cleanup(key), where `waiting` says whether q.items holds a task.
Finished(k, waiting) == runningIn[k] = 0 /\ ~waiting

\* cleanup(key): unmarkReady, delete, resolve the drains.
Retire(ks) ==
    /\ live' = live \ ks
    /\ drains' = [k \in QueueKey |-> IF k \in ks THEN {} ELSE drains[k]]

Cleanup ==
    LET k == turn.key
        gone == {j \in {k} \cap live : Finished(j, items[j] # <<>>)} IN
    /\ turn.step = "cleanup"
    /\ Retire(gone)
    /\ line' = Without(line, gone)
    /\ held' = held \ gone
    /\ turn' = Idle
    /\ UNCHANGED <<items, runningIn, pendingCurrent, runningCurrent, inFlight, owes>>

\* A running task resolves or throws.
Settle(t) ==
    LET k == inFlight[t] IN
    /\ turn = Idle /\ k # NoKey
    /\ inFlight' = [inFlight EXCEPT ![t] = NoKey]
    /\ runningIn' = [runningIn EXCEPT ![k] = @ - 1]
    /\ runningCurrent' = runningCurrent - 1
    /\ owes' = [d \in Waiter |-> owes[d] \ {t}]
    /\ turn' = [step |-> "schedule", key |-> k, settled |-> TRUE]
    /\ UNCHANGED <<live, items, drains, held, line, pendingCurrent>>

(***************************************************************************)
(* clear(key), and clear() over every live key: the waiting tasks are      *)
(* rejected, the running ones go on.                                       *)
(***************************************************************************)
\* Slip: a cleared key keeps its place in the service line.
GiveBackNone(ks) == UNCHANGED <<line, held>>
\* unmarkReady(q) for each of the keys.
GiveBack(ks) ==
    /\ line' = Without(line, ks)
    /\ held' = held \ ks

Clear(ks) ==
    LET dropped == UNION {ToSet(items[k]) : k \in ks} IN
    /\ turn = Idle
    /\ ks # {} /\ ks \subseteq live
    /\ items' = [k \in QueueKey |-> IF k \in ks THEN <<>> ELSE items[k]]
    /\ pendingCurrent' = pendingCurrent - Cardinality(dropped)
    /\ GiveBack(ks)
    /\ Retire({k \in ks : Finished(k, FALSE)})
    /\ owes' = [d \in Waiter |-> owes[d] \ dropped]
    /\ UNCHANGED <<runningIn, runningCurrent, inFlight, turn>>

(***************************************************************************)
(* drain(key), and drain() over every live key (Promise.all of the rest):  *)
(* the call waits in q.drains of each key that has work.                   *)
(***************************************************************************)
Pending(d) == \E k \in QueueKey : d \in drains[k]

Drain(d, ks) ==
    /\ turn = Idle /\ ~Pending(d)
    /\ ks # {} /\ ks \subseteq live
    /\ drains' = [k \in QueueKey |-> IF k \in ks THEN drains[k] \cup {d} ELSE drains[k]]
    /\ owes' = [owes EXCEPT ![d] = UNION {Unsettled(k) : k \in ks}]
    /\ UNCHANGED <<live, items, runningIn, held, line, pendingCurrent, runningCurrent,
                   inFlight, turn>>

TurnStep == Schedule \/ PumpOne \/ PumpEnd \/ Cleanup

Next ==
    \/ \E k \in QueueKey, t \in Task : Push(k, t)
    \/ TurnStep
    \/ \E t \in Task : Settle(t)
    \/ \E ks \in {{k} : k \in QueueKey} \cup {live} : Clear(ks)
    \/ \E d \in Waiter, ks \in {{k} : k \in QueueKey} \cup {live} : Drain(d, ks)

Spec == Init /\ [][Next]_queueVars

\* A synchronous turn ends, and every task settles: nothing else is assumed.
\* Settle needs strong fairness because other turns come between.
Fairness == WF_queueVars(TurnStep) /\ \A t \in Task : SF_queueVars(Settle(t))
FairSpec == Spec /\ Fairness

\* Every accepted task is eventually settled, however busy the other keys are.
TasksSettle == \A t \in Task : Outstanding(t) ~> ~Outstanding(t)

=============================================================================
