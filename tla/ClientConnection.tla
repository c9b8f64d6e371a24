-------------------------- MODULE ClientConnection --------------------------
(***************************************************************************)
(* How the browser client keeps one connection (client.js): the socket and *)
(* its replacements, the reconnect timer, the auth preflight, the attempt  *)
(* counter, the status store.  Browser events, the server's closes and the *)
(* application's calls come in any order; the application's subscribers    *)
(* run inside every store update and may call the connection back.         *)
(*                                                                         *)
(* Generations are only compared for equality: whoever holds one remembers *)
(* whether it is still the current one.                                    *)
(***************************************************************************)
EXTENDS BrowserLink

\* createConnection's variables, before it connects for the first time.
Fresh ==
    [ws |-> NoSock,           \* ws, one of Sock
     socks |-> [s \in Sock |-> "free"],
     timer |-> "none",      \* reconnectTimer: "armed", "stale" after its generation, "spent"
     preflight |-> FALSE,   \* authInFlight
     reserved |-> FALSE,    \* reconnectAttemptReserved
     attempt |-> 0,
     tried |-> 0,           \* history: retries that had an outcome since the last reset
     closed |-> FALSE,      \* intentionallyClosed
     terminal |-> FALSE,    \* terminalClosed
     offline |-> FALSE,     \* offlineSimulated
     advisory |-> FALSE,    \* reconnectAdvisory
     status |-> "disconnected",
     called |-> FALSE]      \* the application has called back in this step

-----------------------------------------------------------------------------
(* The parts the handlers share: from a connection to a connection.        *)

\* currentAttempt: a callback that changes anything changes the generation too.
Current(c) == ~c.called /\ ~Inert(c)

Live(c) == c.ws # NoSock /\ c.socks[c.ws] \in {"connecting", "open"}

NewGeneration(c) == [c EXCEPT !.timer = IF @ = "armed" THEN "stale" ELSE @]

\* cancelAttempt
CancelAttempt(c) == [NewGeneration(c) EXCEPT !.preflight = FALSE]

\* Slip: pausing leaves the timer for its generation check to stop.
ClearReconnectLater(c, refund) ==
    [c EXCEPT !.attempt = IF refund /\ c.reserved /\ @ > 0 THEN @ - 1 ELSE @, !.reserved = FALSE]

\* Slip: a pause refunds a retry whose outcome is already counted.
ClearReconnectRefunds(c, refund) ==
    [c EXCEPT !.timer = "none",
              !.attempt = IF refund /\ @ > 0 THEN @ - 1 ELSE @,
              !.reserved = FALSE]

\* clearReconnect
ClearReconnect(c, refund) ==
    [c EXCEPT !.timer = "none",
              !.attempt = IF refund /\ c.reserved /\ @ > 0 THEN @ - 1 ELSE @,
              !.reserved = FALSE]

\* A retry that was reserved has come to an outcome.
Outcome(c) == [c EXCEPT !.reserved = FALSE, !.tried = IF c.reserved THEN @ + 1 ELSE @]

Reset(c) == [c EXCEPT !.attempt = 0, !.tried = 0]

Shut(c, s) == IF s = NoSock \/ c.socks[s] = "free" THEN c ELSE [c EXCEPT !.socks[s] = "closing"]

\* scheduleReconnect; dispersed: with the delay of a drain advisory.
Schedule(c, dispersed) ==
    IF Inert(c) \/ c.timer # "none" THEN c
    ELSE IF c.attempt >= MaxAttempts THEN [c EXCEPT !.terminal = TRUE, !.status = "failed"]
    ELSE IF dispersed THEN [c EXCEPT !.timer = "armed"]
    ELSE [c EXCEPT !.timer = "armed", !.attempt = @ + 1, !.reserved = TRUE]

\* openSocket: the constructor may throw.
OpenSocket(c) ==
    {Schedule(Outcome(c), FALSE)} \cup
    {[c EXCEPT !.ws = s, !.socks[s] = "connecting"] : s \in {x \in Sock : c.socks[x] = "free"}}

\* doConnect as a callback finds it: nobody calls back again.
Reconnected(c) ==
    IF Inert(c) \/ Live(c) \/ c.preflight THEN {c}
    ELSE LET d == [NewGeneration(c) EXCEPT !.ws = NoSock, !.status = "connecting"]
         IN IF auth THEN {[d EXCEPT !.preflight = TRUE]} ELSE OpenSocket(d)

\* close, simulateOffline and resumeOnline, likewise.
Closed(c) ==
    LET d == ClearReconnect(CancelAttempt([c EXCEPT !.closed = TRUE]), FALSE)
    IN [Shut(d, d.ws) EXCEPT !.ws = NoSock, !.status = "failed"]

Paused(c) ==
    IF Inert(c) THEN c
    ELSE LET d == ClearReconnect(CancelAttempt([c EXCEPT !.offline = TRUE]), TRUE)
         IN [Shut(d, d.ws) EXCEPT !.ws = NoSock, !.status = "disconnected", !.advisory = FALSE]

Resumed(c) ==
    IF c.closed \/ c.terminal \/ ~c.offline THEN {c} ELSE Reconnected([c EXCEPT !.offline = FALSE])

\* A store is set, and its subscribers run: one of them may call back, which the
\* rest of the step finds done.
Notify(c) ==
    IF c.called THEN {c}
    ELSE {[d EXCEPT !.called = d # c] : d \in
            {c, Closed(c), Paused(c)} \cup Resumed(c) \cup Resumed(Paused(c))}

SetStatus(c, status) == Notify([c EXCEPT !.status = status])

\* A failure is published, then the drop, then a retry is scheduled.
Dropped(c, dispersed) ==
    UNION {IF ~Current(d) THEN {d}
           ELSE {IF Current(e) THEN Schedule(e, dispersed) ELSE e :
                   e \in SetStatus(IF dispersed THEN Reset(d) ELSE d, "disconnected")} : d \in Notify(c)}

\* disconnectSocket: the drop shows before the close event comes.
Disconnect(c) == SetStatus(Shut(c, c.ws), "disconnected")

\* doConnect
DoConnect(c) ==
    LET begun == [NewGeneration(c) EXCEPT !.ws = NoSock]
        dropped == IF c.ws = NoSock THEN {begun} ELSE SetStatus(begun, "disconnected")
    IN IF Inert(c) \/ Live(c) \/ c.preflight THEN {c}
       ELSE UNION {IF ~Current(d) THEN {d}
                   ELSE UNION {IF ~Current(e) THEN {e}
                               ELSE IF auth THEN {[e EXCEPT !.preflight = TRUE]}
                               ELSE OpenSocket(e) : e \in SetStatus(d, "connecting")} : d \in dropped}

-----------------------------------------------------------------------------
(* What happens.                                                           *)

Become(C) == conn' \in C /\ UNCHANGED auth

Now == [conn EXCEPT !.called = FALSE]

Init ==
    /\ auth \in BOOLEAN
    /\ conn \in Reconnected(Fresh)

\* Slip: any event counts as the current socket's.
ReplacedNever(s) == FALSE

\* The events of a replaced socket come late and are ignored.
Replaced(s) == conn.ws # s

TimerFires ==
    /\ conn.timer \in {"armed", "stale"}
    /\ IF conn.timer = "stale" THEN Become({[Now EXCEPT !.timer = "spent"]})
       ELSE Become(DoConnect([Now EXCEPT !.timer = "none"]))

\* The preflight settles: accepted, refused for good, or to be tried again.
PreflightOk ==
    /\ conn.preflight
    /\ Become(OpenSocket([Now EXCEPT !.preflight = FALSE]))

PreflightRefused ==
    /\ conn.preflight
    /\ LET c == [Outcome(Now) EXCEPT !.preflight = FALSE, !.terminal = TRUE]
       IN Become(UNION {SetStatus(d, "failed") : d \in Notify(c)})

PreflightFails ==
    /\ conn.preflight
    /\ Become(Dropped([Outcome(Now) EXCEPT !.preflight = FALSE], FALSE))

\* onopen; a hidden page shows "suspended".
SocketOpens(s) ==
    /\ conn.socks[s] = "connecting"
    /\ LET c == [Now EXCEPT !.socks[s] = "open"]
           d == [Reset(c) EXCEPT !.reserved = FALSE, !.advisory = FALSE]
       IN IF Replaced(s) THEN Become({c})
          ELSE Become(UNION {IF e.ws # s THEN {e}
                             ELSE UNION {SetStatus(e, x) : x \in {"open", "suspended"}} : e \in Notify(d)})

\* onclose: terminal, or a retry, which a drain advisory that is still valid
\* starts over and disperses.
SocketCloses(s) ==
    /\ conn.socks[s] # "free"
    /\ LET c == [Now EXCEPT !.socks[s] = "free"]
           d == [Outcome(c) EXCEPT !.ws = NoSock]
           e == [d EXCEPT !.advisory = FALSE]
       IN IF Replaced(s) THEN Become({c})
          ELSE \/ Become(UNION {SetStatus(x, "failed") : x \in Notify([d EXCEPT !.terminal = TRUE])})
               \/ Become(Dropped(e, FALSE))
               \/ conn.advisory /\ Become(Dropped(e, TRUE))

\* The attempt timer, the activity check and a suspend gap: the socket is not
\* trusted any more.
Distrust ==
    /\ ~Inert(conn) /\ Live(conn)
    /\ \E reset \in BOOLEAN :
        /\ reset => conn.socks[conn.ws] = "open"
        /\ Become(Disconnect(IF reset THEN Reset(Now) ELSE Now))

\* The server drains: it asks for a later reconnect and closes.
Advised ==
    /\ Live(conn) /\ conn.socks[conn.ws] = "open"
    /\ Become({[Now EXCEPT !.advisory = TRUE]})

\* The page is hidden, or shown again over a live socket.
Shown(status) ==
    /\ ~Inert(conn) /\ Live(conn) /\ conn.socks[conn.ws] = "open"
    /\ Become(SetStatus(Now, status))

\* Shown again without one, or the browser is online: connect at once.
Wake ==
    /\ ~Inert(conn) /\ ~(Live(conn) /\ conn.socks[conn.ws] = "open")
    /\ Become(DoConnect(ClearReconnect(Reset(Now), FALSE)))

\* The browser is offline without a live socket.
BrowserOffline ==
    /\ ~Inert(conn) /\ ~Live(conn)
    /\ Become(SetStatus(Now, "disconnected"))

\* The application's calls, from outside a callback.
Close == Become({Closed(Now)})

SimulateOffline ==
    /\ ~Inert(conn)
    /\ LET d == ClearReconnect(CancelAttempt([Now EXCEPT !.offline = TRUE]), TRUE)
       IN Become({Shut(e, conn.ws) : e \in SetStatus([d EXCEPT !.ws = NoSock, !.advisory = FALSE], "disconnected")})

ResumeOnline ==
    /\ ~conn.closed /\ ~conn.terminal /\ conn.offline
    /\ Become(DoConnect([Now EXCEPT !.offline = FALSE]))

Next ==
    \/ TimerFires \/ PreflightOk \/ PreflightRefused \/ PreflightFails
    \/ \E s \in Sock : SocketOpens(s) \/ SocketCloses(s)
    \/ Distrust \/ Advised \/ Wake \/ BrowserOffline
    \/ \E status \in {"open", "suspended"} : Shown(status)
    \/ Close \/ SimulateOffline \/ ResumeOnline

Spec == Init /\ [][Next]_clientVars

=============================================================================
