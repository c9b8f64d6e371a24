----------------------------- MODULE Lifecycle -----------------------------
(***************************************************************************)
(* One serving thread from boot to exit: the single process ("main"), a    *)
(* cluster worker that listens ("io") or one that does not ("compute").    *)
(* The stop signals and the primary's messages (index.js), the readiness   *)
(* state, the in-flight drain and the request signals                      *)
(* (handler/lifecycle.js), the shutdown sequence (handler.js) and its      *)
(* WebSocket drain (handler/realtime.js) under one shared budget.          *)
(*                                                                         *)
(* An exchange is one SSR or admin request; its application handler may    *)
(* outlive its connection.  A chain of promise callbacks with no timer or  *)
(* event between its links is one step.  Abstracted: logging, warmup, the  *)
(* TLS watch, the audit timers, throws out of the adapter's own teardown.  *)
(***************************************************************************)
EXTENDS ThreadExit

config == <<role, bounded>>
stops == <<latched, stopSignalled, condemned, asked>>
outcome == <<drained, cleaned>>
exchanges == <<wire, received, running, notified, cut>>
sockets == <<ws, sweeping>>
vars == <<config, boot, life, phase, stops, sdReady, stage, expired, listener,
          exchanges, sockets, outcome, way>>

Alive == way = "alive"

Init ==
    /\ role \in {"main", "io", "compute"} /\ bounded \in BOOLEAN
    /\ boot = "import" /\ life = "starting" /\ phase = "boot"
    /\ latched = FALSE /\ stopSignalled = FALSE /\ sdReady = FALSE
    /\ condemned = FALSE /\ asked = FALSE
    /\ stage = "none" /\ expired = FALSE /\ listener = "unbound"
    /\ wire = [r \in Request |-> "none"] /\ notified = [r \in Request |-> "nobody"]
    /\ received = {} /\ running = {} /\ cut = {}
    /\ ws = [c \in Socket |-> "none"] /\ sweeping = FALSE
    /\ drained = FALSE /\ cleaned = FALSE /\ way = "alive"

(***************************************************************************)
(* Request signals and the readiness state                                 *)
(***************************************************************************)
BeginDrain(l) == IF l = "closed" THEN l ELSE "draining"

\* abortInFlightRequests: every exchange still registered, told by the shutdown.
AbortInFlight(t) ==
    [r \in Request |-> IF r \in running /\ t[r] = "nobody" THEN "shutdown" ELSE t[r]]

\* The responses of R close unfinished: a signal whose request body has not
\* arrived aborts with a bare disconnect.
Disconnected(t, R) ==
    [r \in Request |->
        IF r \in (R \cap running) \ received /\ t[r] = "nobody" THEN "disconnect" ELSE t[r]]

Gone(R) == [r \in Request |-> IF r \in R THEN "gone" ELSE wire[r]]

\* Every way out that the shutdown code takes aborts the open signals first.
Leave(w) == way' = w /\ notified' = AbortInFlight(notified)

(***************************************************************************)
(* The shutdown sequence                                                   *)
(***************************************************************************)
\* performShutdown of index.js, up to its first await.
Start(l) ==
    /\ phase' = "shutting-down" /\ life' = BeginDrain(l)
    /\ stage' = IF role = "main" THEN "delay" ELSE "hook"

DelayOver ==
    /\ Alive /\ stage = "delay" /\ stage' = "hook"
    /\ UNCHANGED <<config, boot, life, phase, stops, sdReady, expired, listener, exchanges, sockets, outcome, way>>

Expire ==
    /\ Alive /\ bounded /\ stage \in Budgeted /\ ~expired
    /\ expired' = TRUE
    /\ UNCHANGED <<config, boot, life, phase, stops, sdReady, stage, listener, exchanges, sockets, outcome, way>>

\* The app's hook settled or lost the race: the door closes, and every open
\* socket gets its 1001.
CloseDoor ==
    /\ Alive /\ stage = "hook" /\ stage' = "sockets"
    /\ life' = "closed"
    /\ listener' = IF listener = "listening" THEN "closing" ELSE listener
    /\ sweeping' = TRUE
    /\ ws' = [c \in Socket |-> IF ws[c] = "open" THEN "closing" ELSE ws[c]]
    /\ UNCHANGED <<config, boot, phase, stops, sdReady, expired, exchanges, outcome, way>>

HookSettles == ~expired /\ CloseDoor
HookAbandoned == expired /\ CloseDoor

\* Slip: the connections are cut before the signals are aborted.
CutFirst(R) ==
    /\ stage' = IF role = "compute" THEN "cleanup" ELSE "listener"
    /\ drained' = (R = {})
    /\ notified' = AbortInFlight(Disconnected(notified, R))
    /\ wire' = Gone(R) /\ cut' = cut \cup R

\* The drain is over, with the exchanges of R still open: abort their signals,
\* then cut every connection.
Cut(R) ==
    /\ stage' = IF role = "compute" THEN "cleanup" ELSE "listener"
    /\ drained' = (R = {})
    /\ notified' = Disconnected(AbortInFlight(notified), R)
    /\ wire' = Gone(R) /\ cut' = cut \cup R

\* The WebSocket drain ends when no socket is left, or sweeps the holdouts at
\* the budget or, without one, at its own deadline.  The wait for the
\* exchanges follows at once.
SocketsDone ==
    /\ Alive /\ stage = "sockets"
    /\ Connections = {} \/ expired \/ ~bounded
    /\ ws' = [c \in Socket |-> IF c \in Connections THEN "gone" ELSE ws[c]]
    /\ IF InFlight = {} \/ expired
       THEN Cut(InFlight)
       ELSE stage' = "requests" /\ UNCHANGED <<drained, notified, wire, cut>>
    /\ UNCHANGED <<config, boot, life, phase, stops, sdReady, expired, listener, received, running, sweeping, cleaned, way>>

DrainAbandoned ==
    /\ Alive /\ stage = "requests" /\ expired
    /\ Cut(InFlight)
    /\ UNCHANGED <<config, boot, life, phase, stops, sdReady, expired, listener, received, running, sockets, cleaned, way>>

ListenerSettles ==
    /\ Alive /\ listener = "closing"
    /\ InFlight = {} /\ Connections = {} /\ \A c \in Socket : ws[c] # "admitting"
    /\ listener' = "closed"
    /\ UNCHANGED <<config, boot, life, phase, stops, sdReady, stage, expired, exchanges, sockets, outcome, way>>

\* Slip: the outcome of the wait is not reported.
ListenerIgnored ==
    /\ Alive /\ stage = "listener" /\ stage' = "cleanup"
    /\ listener = "closed" \/ expired \/ ~bounded
    /\ UNCHANGED <<config, boot, life, phase, stops, sdReady, expired, listener, exchanges, sockets, outcome, way>>

\* closeConnections: the listener's close, the budget, or the 30 s cap.
ListenerWaited ==
    /\ Alive /\ stage = "listener" /\ stage' = "cleanup"
    /\ listener = "closed" \/ expired \/ ~bounded
    /\ drained' = (drained /\ listener = "closed")
    /\ UNCHANGED <<config, boot, life, phase, stops, sdReady, expired, listener, exchanges, sockets, cleaned, way>>

\* The cleanup listeners settled, or lost the race; the finally block follows.
CleanupDone ==
    /\ Alive /\ stage = "cleanup" /\ stage' = "flush"
    /\ cleaned' \in {TRUE, ~expired}
    /\ notified' = AbortInFlight(notified)
    /\ UNCHANGED <<config, boot, life, phase, stops, sdReady, expired, listener, wire, received, running, cut, sockets, drained, way>>

Flush ==
    /\ Alive /\ stage = "flush"
    /\ way' = "graceful"
    /\ UNCHANGED <<config, boot, life, phase, stops, sdReady, stage, expired, listener, exchanges, sockets, outcome>>

(***************************************************************************)
(* Boot                                                                    *)
(***************************************************************************)
\* The handler graph has evaluated; a signal latched before is applied now.
Import ==
    /\ Alive /\ boot = "import" /\ boot' = "bind"
    /\ life' = IF latched THEN BeginDrain(life) ELSE life
    /\ UNCHANGED <<config, phase, stops, sdReady, stage, expired, listener, exchanges, sockets, outcome, way>>

Bind ==
    /\ Alive /\ boot = "bind" /\ boot' = "init"
    /\ listener' = IF role = "compute" THEN "unbound" ELSE "listening"
    /\ UNCHANGED <<config, life, phase, stops, sdReady, stage, expired, exchanges, sockets, outcome, way>>

\* Slip: the flip is unconditional.
CommitAlways(l) == "ready"

\* Readiness is committed only over 'starting'.
Commit(l) == IF l = "starting" THEN "ready" ELSE l

\* Slip: a worker's backlog is dropped.
BootDoneForgets ==
    /\ Alive /\ boot = "init" /\ boot' = "done"
    /\ sdReady' = (role = "main" /\ ~latched)
    /\ IF latched /\ role = "main"
       THEN Start(Commit(life))
       ELSE /\ life' = Commit(life)
            /\ phase' = IF role = "main" THEN "running" ELSE phase
            /\ UNCHANGED stage
    /\ UNCHANGED <<config, stops, expired, listener, exchanges, sockets, outcome, way>>

\* start() resolved.  A stop taken meanwhile is dispatched in place of READY=1
\* (main), or replayed from the backlog (worker).
BootDone ==
    /\ Alive /\ boot = "init" /\ boot' = "done"
    /\ sdReady' = (role = "main" /\ ~latched)
    /\ IF latched
       THEN Start(Commit(life))
       ELSE /\ life' = Commit(life)
            /\ phase' = IF role = "main" THEN "running" ELSE phase
            /\ UNCHANGED stage
    /\ UNCHANGED <<config, stops, expired, listener, exchanges, sockets, outcome, way>>

\* The bind failed, the single process's init hook threw, or a worker's up
\* ring overflowed: process.exit, or an uncaught rejection, at once.
Crash ==
    /\ Alive
    /\ CASE boot = "bind" -> TRUE
         [] boot = "init" -> role = "main"
         [] boot = "done" -> role # "main"
         [] OTHER -> FALSE
    /\ way' = "crashed"
    /\ UNCHANGED <<config, boot, life, phase, stops, sdReady, stage, expired, listener, exchanges, sockets, outcome>>

\* A worker's hard-tier fatal() or uncaught exception.
WorkerFails ==
    /\ Alive /\ role # "main" /\ boot # "import"
    /\ Leave("failed")
    /\ UNCHANGED <<config, boot, life, phase, stops, sdReady, stage, expired, listener, wire, received, running, cut, sockets, outcome>>

(***************************************************************************)
(* Stop signals and the primary's messages                                 *)
(***************************************************************************)
\* A first signal while booting is latched and drains at once.
LatchSignal ==
    /\ Alive /\ role = "main" /\ phase = "boot" /\ ~latched
    /\ latched' = TRUE /\ condemned' = TRUE /\ asked' = TRUE
    /\ life' = IF boot = "import" THEN life ELSE BeginDrain(life)
    /\ UNCHANGED <<config, boot, phase, stopSignalled, sdReady, stage, expired, listener, exchanges, sockets, outcome, way>>

StopSignal ==
    /\ Alive /\ role = "main" /\ phase = "running" /\ ~stopSignalled
    /\ stopSignalled' = TRUE /\ condemned' = TRUE /\ asked' = TRUE
    /\ Start(life)
    /\ UNCHANGED <<config, boot, latched, sdReady, expired, listener, exchanges, sockets, outcome, way>>

\* A second signal, in boot or in shutdown, ends the process.
SecondSignal ==
    /\ Alive /\ role = "main"
    /\ IF phase = "boot" THEN latched ELSE stopSignalled \/ phase = "shutting-down"
    /\ Leave("forced")
    /\ UNCHANGED <<config, boot, life, phase, stops, sdReady, stage, expired, listener, wire, received, running, cut, sockets, outcome>>

\* The router of a worker acts on drain and terminate at any time.
RecvDrain ==
    /\ Alive /\ role # "main" /\ boot # "import"
    /\ condemned' = TRUE /\ life' = BeginDrain(life)
    /\ UNCHANGED <<config, boot, phase, latched, stopSignalled, asked, sdReady, stage, expired, listener, exchanges, sockets, outcome, way>>

\* shutdown follows drain; it waits in boot_backlog until the worker is booted.
RecvShutdown ==
    /\ Alive /\ role # "main" /\ boot # "import" /\ condemned
    /\ asked' = TRUE
    /\ IF boot # "done"
       THEN latched' = TRUE /\ UNCHANGED <<life, phase, stage>>
       ELSE /\ UNCHANGED latched
            /\ IF phase = "shutting-down" THEN UNCHANGED <<life, phase, stage>> ELSE Start(life)
    /\ UNCHANGED <<config, boot, stopSignalled, condemned, sdReady, expired, listener, exchanges, sockets, outcome, way>>

RecvTerminate ==
    /\ Alive /\ role # "main" /\ boot # "import"
    /\ Leave("terminated")
    /\ UNCHANGED <<config, boot, life, phase, stops, sdReady, stage, expired, listener, wire, received, running, cut, sockets, outcome>>

(***************************************************************************)
(* Exchanges                                                               *)
(***************************************************************************)
\* A new connection, or another request on one whose exchange is open.
Arrive(r) ==
    /\ Alive /\ wire[r] = "none"
    /\ listener = "listening" \/ (listener = "closing" /\ InFlight # {})
    /\ wire' = [wire EXCEPT ![r] = "open"] /\ running' = running \cup {r}
    /\ UNCHANGED <<config, boot, life, phase, stops, sdReady, stage, expired, listener, received, notified, cut, sockets, outcome, way>>

BodyArrives(r) ==
    /\ Alive /\ wire[r] = "open" /\ r \notin received
    /\ received' = received \cup {r}
    /\ UNCHANGED <<config, boot, life, phase, stops, sdReady, stage, expired, listener, wire, running, notified, cut, sockets, outcome, way>>

\* requestDone, in the event that took the last open exchange to its end,
\* resumes the drain.
Ended(r, t) ==
    IF stage = "requests" /\ InFlight = {r}
    THEN /\ stage' = IF role = "compute" THEN "cleanup" ELSE "listener"
         /\ drained' = TRUE /\ notified' = AbortInFlight(t)
    ELSE notified' = t /\ UNCHANGED <<stage, drained>>

Answer(r) ==
    /\ Alive /\ wire[r] = "open" /\ r \in running
    /\ wire' = Gone({r}) /\ running' = running \ {r}
    /\ Ended(r, notified)
    /\ UNCHANGED <<config, boot, life, phase, stops, sdReady, expired, listener, received, cut, sockets, cleaned, way>>

Disconnect(r) ==
    /\ Alive /\ wire[r] = "open"
    /\ wire' = Gone({r})
    /\ Ended(r, Disconnected(notified, {r}))
    /\ UNCHANGED <<config, boot, life, phase, stops, sdReady, expired, listener, received, running, cut, sockets, cleaned, way>>

\* The handler of an exchange whose connection is gone returns.
HandlerReturns(r) ==
    /\ Alive /\ wire[r] = "gone" /\ r \in running
    /\ running' = running \ {r}
    /\ UNCHANGED <<config, boot, life, phase, stops, sdReady, stage, expired, listener, wire, received, notified, cut, sockets, outcome, way>>

(***************************************************************************)
(* WebSocket connections                                                   *)
(***************************************************************************)
WsStep(c, from, to) ==
    /\ Alive /\ ws[c] \in from
    /\ ws' = [ws EXCEPT ![c] = to]
    /\ UNCHANGED <<config, boot, life, phase, stops, sdReady, stage, expired, listener, exchanges, sweeping, outcome, way>>

Upgrade(c) == listener = "listening" /\ WsStep(c, {"none"}, "admitting")
\* An admission that outlives the sweep gets its closing handshake at the end.
Admit(c) == WsStep(c, {"admitting"}, IF sweeping THEN "closing" ELSE "open")
WsGone(c) == WsStep(c, {"admitting", "open", "closing"}, "gone")

Progress ==
    \/ DelayOver \/ Expire \/ HookAbandoned \/ SocketsDone \/ DrainAbandoned
    \/ ListenerSettles \/ ListenerWaited \/ (expired /\ CleanupDone) \/ Flush

Next ==
    \/ Import \/ Bind \/ BootDone \/ Crash \/ WorkerFails
    \/ LatchSignal \/ StopSignal \/ SecondSignal
    \/ RecvDrain \/ RecvShutdown \/ RecvTerminate
    \/ Progress \/ HookSettles \/ CleanupDone
    \/ \E r \in Request :
          Arrive(r) \/ BodyArrives(r) \/ Answer(r) \/ Disconnect(r) \/ HandlerReturns(r)
    \/ \E c \in Socket : Upgrade(c) \/ Admit(c) \/ WsGone(c)

Spec == Init /\ [][Next]_vars

\* The event loop runs its timers and its own callbacks; nothing is owed by
\* the app's hooks and handlers, the peers or the boot.
Fairness == WF_vars(Progress)
FairSpec == Spec /\ Fairness

(***************************************************************************)
(* Properties                                                              *)
(***************************************************************************)
\* With a budget, a booted thread that was told to stop ends, whatever its
\* hooks, handlers, listeners and peers do; also when it was told in its boot.
BoundedStopEnds == (bounded /\ asked /\ boot = "done") ~> ~Alive
=============================================================================
