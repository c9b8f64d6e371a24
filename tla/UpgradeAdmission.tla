-------------------------- MODULE UpgradeAdmission --------------------------
(***************************************************************************)
(* Admission of WebSocket upgrades (utils/upgrade-admission.js, utils/     *)
(* connection-permit.js, handleUpgrade and openConnection of               *)
(* handler/realtime.js): the ceiling on upgrades in flight with its cursor *)
(* lane, the permits held for a connection's whole life, and the per-tick  *)
(* pacing with its finite ring of deferred accepts.                        *)
(***************************************************************************)
EXTENDS UpgradeGate

vars == <<gate, stage, destroyed, ring, spent, scheduled>>

Init ==
    /\ gate = [inFlight |-> 0, cursorInFlight |-> 0, permits |-> 0,
               slot |-> [u \in Attempts |-> Nothing],     \* "main", "cursor"
               permit |-> [u \in Attempts |-> Nothing]]   \* "reserved", "carried"
    /\ stage = [u \in Attempts |-> "new"]
    /\ destroyed = {}
    /\ ring = [slots |-> [i \in 0..(MaxDeferred - 1) |-> Nothing], head |-> 0, tail |-> 0, depth |-> 0]
    /\ spent = 0
    /\ scheduled = FALSE

-----------------------------------------------------------------------------
(* What an attempt holds.                                                  *)

\* tryAcquire, tryAcquireCursor
HasSlot(g, lane) ==
    /\ g.inFlight < MaxConcurrent
    /\ lane = "cursor" => g.cursorInFlight < CursorMax

\* The gate with what attempt u has of it, and the counters, changed.
WithSlot(g, u, lane, inFlight, cursorInFlight) ==
    [inFlight |-> inFlight, cursorInFlight |-> cursorInFlight, permits |-> g.permits,
     slot |-> [g.slot EXCEPT ![u] = lane], permit |-> g.permit]

WithPermit(g, u, permit, permits) ==
    [inFlight |-> g.inFlight, cursorInFlight |-> g.cursorInFlight, permits |-> permits,
     slot |-> g.slot, permit |-> [g.permit EXCEPT ![u] = permit]]

TakeSlot(g, u, lane) ==
    WithSlot(g, u, lane, g.inFlight + 1,
             IF lane = "cursor" THEN g.cursorInFlight + 1 ELSE g.cursorInFlight)

\* release, releaseCursorInFlight
DropSlot(g, u) ==
    WithSlot(g, u, Nothing, g.inFlight - 1,
             IF g.slot[u] = "cursor" THEN g.cursorInFlight - 1 ELSE g.cursorInFlight)

TakePermit(g, u) == WithPermit(g, u, "reserved", g.permits + 1)

\* The permit is the connection's from here on.
CarryPermit(g, u) == WithPermit(g, u, "carried", g.permits)

DropPermit(g, u) == WithPermit(g, u, Nothing, g.permits - 1)

\* Slip: the permit goes back with the upgrade, a transferred one as well.
ReleaseAll(g, u) ==
    LET s == IF g.slot[u] # Nothing THEN DropSlot(g, u) ELSE g
    IN IF s.permit[u] # Nothing THEN DropPermit(s, u) ELSE s

\* releaseInFlight, once per attempt; a permit handed to the connection stays.
ReleaseInFlight(g, u) ==
    LET s == IF g.slot[u] # Nothing THEN DropSlot(g, u) ELSE g
    IN IF s.permit[u] = "reserved" THEN DropPermit(s, u) ELSE s

\* acceptUpgrade. The handshake opens a connection; the library answers it
\* itself without a callback, or throws; or the setup of the connection fails.
Outcomes == {"open", "answered", "setup_fails"}

Accept(g, u, outcome) ==
    IF u \in destroyed \/ outcome = "answered" THEN ReleaseInFlight(g, u)
    ELSE LET carried == ReleaseInFlight(CarryPermit(g, u), u)
         IN IF outcome = "setup_fails" THEN DropPermit(carried, u) ELSE carried

Accepted(u, outcome) == IF u \notin destroyed /\ outcome = "open" THEN "live" ELSE "gone"

-----------------------------------------------------------------------------
(* The ring of deferred accepts.                                           *)

Wrap(i) == IF i + 1 = MaxDeferred THEN 0 ELSE i + 1

Enqueue(r, u) ==
    [slots |-> [r.slots EXCEPT ![r.tail] = u], head |-> r.head,
     tail |-> Wrap(r.tail), depth |-> r.depth + 1]

\* Slip: an emptied ring starts over at its first slot but leaves its tail.
DequeueKeepsTail(r) ==
    [slots |-> [r.slots EXCEPT ![r.head] = Nothing],
     head |-> IF r.depth = 1 THEN 0 ELSE Wrap(r.head), tail |-> r.tail, depth |-> r.depth - 1]

\* dequeue
Dequeue(r) ==
    [slots |-> [r.slots EXCEPT ![r.head] = Nothing],
     head |-> IF r.depth = 1 THEN 0 ELSE Wrap(r.head),
     tail |-> IF r.depth = 1 THEN 0 ELSE r.tail,
     depth |-> r.depth - 1]

\* The accept at the head of the ring is run; nothing a callback does adds to it.
RunOldest(w, outcome) ==
    LET u == w.ring.slots[w.ring.head]
    IN [gate  |-> Accept(w.gate, u, outcome),
        stage |-> [w.stage EXCEPT ![u] = Accepted(u, outcome)],
        ring  |-> Dequeue(w.ring)]

\* The first of the deferred accepts are run, the i-th with outcome o[i].
Run(w, n, o) ==
    LET ran[i \in 0..n] == IF i = 0 THEN w ELSE RunOldest(ran[i - 1], o[i])
    IN ran[n]

-----------------------------------------------------------------------------

\* handleUpgrade up to the upgrade hook, which is awaited.
Arrive(u, lane) ==
    /\ stage[u] = "new"
    /\ LET taken == TakeSlot(gate, u, lane)
       IN IF ~HasSlot(gate, lane)
          THEN stage' = [stage EXCEPT ![u] = "gone"] /\ UNCHANGED gate
          ELSE IF gate.permits >= MaxConnections
          THEN stage' = [stage EXCEPT ![u] = "gone"] /\ gate' = ReleaseInFlight(taken, u)
          ELSE /\ stage' = [stage EXCEPT ![u] = "hook"]
               /\ gate' = TakePermit(taken, u)
    /\ UNCHANGED <<destroyed, ring, spent, scheduled>>

\* Refused by a header, the rate limit, the origin or the hook, or timed out; or
\* the peer has vanished.
Refuse(u) ==
    /\ stage[u] = "hook"
    /\ stage' = [stage EXCEPT ![u] = "gone"]
    /\ gate' = ReleaseInFlight(gate, u)
    /\ UNCHANGED <<destroyed, ring, spent, scheduled>>

\* admit: at once within the tick's budget, deferred, or shed with a full ring.
Admit(u) ==
    /\ stage[u] = "hook"
    /\ u \notin destroyed
    /\ \/ /\ spent < Budget
          /\ spent' = spent + 1
          /\ scheduled' = TRUE
          /\ \E o \in Outcomes : /\ gate' = Accept(gate, u, o)
                                 /\ stage' = [stage EXCEPT ![u] = Accepted(u, o)]
          /\ UNCHANGED ring
       \/ /\ spent >= Budget /\ ring.depth >= MaxDeferred
          /\ gate' = ReleaseInFlight(gate, u)
          /\ stage' = [stage EXCEPT ![u] = "gone"]
          /\ UNCHANGED <<ring, spent, scheduled>>
       \/ /\ spent >= Budget /\ ring.depth < MaxDeferred
          /\ ring' = Enqueue(ring, u)
          /\ scheduled' = TRUE
          /\ stage' = [stage EXCEPT ![u] = "deferred"]
          /\ UNCHANGED <<gate, spent>>
    /\ UNCHANGED destroyed

\* Slip: a drain that ran its budget counts on the next upgrade to schedule one.
DrainsAgainIdle(depth, n) == depth > 0 /\ n = 0

DrainsAgain(depth, n) == depth > 0 \/ n > 0

\* drain: a new tick's budget, spent on the oldest deferred accepts first.
Drain ==
    /\ scheduled
    /\ LET n == IF ring.depth < Budget THEN ring.depth ELSE Budget
       IN \E o \in [1..n -> Outcomes] :
            \E w \in {Run([gate |-> gate, stage |-> stage, ring |-> ring], n, o)} :
                /\ gate' = w.gate /\ stage' = w.stage /\ ring' = w.ring
                /\ spent' = n
                /\ scheduled' = DrainsAgain(w.ring.depth, n)
    /\ UNCHANGED destroyed

\* The socket is destroyed under a parked or deferred upgrade; its 'close' event
\* gives back early what the attempt holds.
Destroy(u) ==
    /\ stage[u] \in {"hook", "deferred"}
    /\ destroyed' = destroyed \cup {u}
    /\ UNCHANGED <<gate, stage, ring, spent, scheduled>>

SocketClosed(u) ==
    /\ u \in destroyed
    /\ stage[u] \in {"hook", "deferred"}
    /\ gate' = ReleaseInFlight(gate, u)
    /\ UNCHANGED <<stage, destroyed, ring, spent, scheduled>>

\* closeConnection
Close(u) ==
    /\ stage[u] = "live"
    /\ stage' = [stage EXCEPT ![u] = "gone"]
    /\ gate' = DropPermit(gate, u)
    /\ UNCHANGED <<destroyed, ring, spent, scheduled>>

Next ==
    \/ \E u \in Attempts :
        \/ \E lane \in {"main", "cursor"} : Arrive(u, lane)
        \/ Refuse(u) \/ Admit(u) \/ Destroy(u) \/ SocketClosed(u) \/ Close(u)
    \/ Drain

\* The hook is awaited under a deadline; setImmediate fires.
Fairness == WF_vars(Drain) /\ \A u \in Attempts : WF_vars(Refuse(u) \/ Admit(u))

Spec == Init /\ [][Next]_vars /\ Fairness

-----------------------------------------------------------------------------

\* Every upgrade that was let in is decided: accepted, answered or given up.
UpgradesSettle ==
    \A u \in Attempts : stage[u] \in {"hook", "deferred"} ~> stage[u] \in {"live", "gone"}

=============================================================================
