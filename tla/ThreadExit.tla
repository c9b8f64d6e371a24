----------------------------- MODULE ThreadExit -----------------------------
(***************************************************************************)
(* What one serving thread keeps on its way from boot to exit, and what it *)
(* promises of its stop.  The steps are those of Lifecycle.                *)
(***************************************************************************)
EXTENDS Integers, FiniteSets

CONSTANTS Request,  \* exchanges that may arrive
          Socket    \* WebSocket connections that may arrive

VARIABLES role,       \* "main", "io" or "compute"
          bounded,    \* SHUTDOWN_TIMEOUT > 0
          boot,       \* how far the boot is: import, bind, init, done
          life,       \* lifecycle_state
          phase,      \* phase of index.js
          latched,    \* latchedSignal (main) or a shutdown in boot_backlog
          stopSignalled, \* main took its one stop signal
          sdReady,    \* READY=1 was sent (main)
          stage,      \* where the shutdown sequence awaits
          expired,    \* the budget's AbortSignal has aborted
          listener,   \* the listen socket
          wire,       \* exchange -> its connection
          received,   \* exchanges whose request body has arrived in full
          running,    \* exchanges with a controller in requestSignals
          notified,   \* exchange -> who aborted its signal first
          ws,         \* WebSocket connection -> its state
          sweeping,   \* socketsDraining
          drained,    \* handler.shutdown's result
          cleaned,    \* runShutdownCleanup's result
          cut,        \* history: exchanges dropped by the shutdown
          condemned,  \* history: told to drain or to stop
          asked,      \* history: told to stop
          way         \* how the thread ended, or "alive"

InFlight == {r \in Request : wire[r] = "open"}
Connections == {c \in Socket : ws[c] \in {"open", "closing"}}
\* The budget runs from the hook to the cleanup; the delay is outside it.
Budgeted == {"hook", "sockets", "requests", "listener", "cleanup"}

\* Types: nothing but what the boot, the drain and the exit write.
LifeTypeOK ==
    /\ role \in {"main", "io", "compute"}
    /\ {bounded, latched, stopSignalled, sdReady, expired, sweeping, drained, cleaned, condemned, asked}
          \subseteq BOOLEAN
    /\ boot \in {"import", "bind", "init", "done"}
    /\ life \in {"starting", "ready", "draining", "closed"}
    /\ phase \in {"boot", "running", "shutting-down"}
    /\ stage \in Budgeted \cup {"none", "delay", "flush"}
    /\ listener \in {"unbound", "listening", "closing", "closed"}
    /\ wire \in [Request -> {"none", "open", "gone"}]
    /\ notified \in [Request -> {"nobody", "disconnect", "shutdown"}]
    /\ {received, running, cut} \subseteq SUBSET Request
    /\ ws \in [Socket -> {"none", "admitting", "open", "closing", "gone"}]
    /\ way \in {"alive", "graceful", "forced", "terminated", "failed", "crashed"}

\* A thread told to drain or to stop is not ready to a balancer, and does not
\* become so however far its boot was (lifecycle.js:226-228).
StopIsFinal == condemned => life # "ready"

\* "Shutdown complete" means nothing was lost: no exchange was dropped and
\* every connection the thread ever accepted has ended.
CleanMeansNothingLost ==
    way = "graceful" /\ drained /\ cleaned =>
        /\ cut = {} /\ InFlight = {}
        /\ \A c \in Socket : ws[c] \in {"none", "gone"}

\* Every way out tells the requests it cuts off first: no handler still runs
\* with a silent signal at the exit, and one whose exchange the shutdown
\* dropped heard it from the shutdown, not as a client that left
\* (README.md:880-882).  Crash is the exception: it gives no notice, although
\* index.js:1677-1679 speaks of every way out of a worker.
ExitTellsRequests ==
    /\ \A r \in cut : notified[r] = "shutdown"
    /\ way \in {"graceful", "forced", "terminated", "failed"} => \A r \in running : notified[r] # "nobody"

\* A stop is final, is called clean only when nothing was lost, and reaches
\* every request before it is cut.
OrderlyStop == LifeTypeOK /\ StopIsFinal /\ CleanMeansNothingLost /\ ExitTellsRequests
=============================================================================
