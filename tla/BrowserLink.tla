----------------------------- MODULE BrowserLink -----------------------------
(***************************************************************************)
(* What the browser client (client.js) keeps of its one connection, and    *)
(* what it promises of it.  ClientConnection says how it changes.          *)
(***************************************************************************)
EXTENDS Naturals, FiniteSets

CONSTANTS
    Sock,         \* sockets of the browser, reused once their close was delivered
    NoSock,
    MaxAttempts   \* maxReconnectAttempts

\* What the constants must satisfy.
ASSUME BrowserAssumption == NoSock \notin Sock /\ MaxAttempts \in Nat

VARIABLES
    auth,   \* authPath is configured
    conn    \* the connection's variables, see Fresh of ClientConnection

clientVars == <<auth, conn>>

Inert(c) == c.closed \/ c.terminal \/ c.offline

-----------------------------------------------------------------------------

ClientTypeOK ==
    /\ conn.ws \in Sock \cup {NoSock}
    /\ conn.socks \in [Sock -> {"free", "connecting", "open", "closing"}]
    /\ conn.timer \in {"none", "armed", "stale", "spent"}
    /\ conn.status \in {"disconnected", "connecting", "open", "suspended", "failed"}
    /\ {conn.preflight, conn.reserved, conn.closed, conn.terminal, conn.offline, conn.advisory} \subseteq BOOLEAN

\* The attempt counter is the number of retries that failed since the last one
\* that counted as a success, and the one under way: a paused retry is refunded,
\* once, and none is charged twice, so that maxReconnectAttempts means what it says.
RetriesAreCounted ==
    ~conn.closed =>
        /\ conn.attempt = conn.tried + (IF conn.reserved THEN 1 ELSE 0)
        /\ conn.attempt <= MaxAttempts

\* However the events and the callbacks interleave, a connection that is neither
\* closed, given up nor paused has exactly one way on, a timer, a preflight or a
\* socket, and is never stranded; one that is has none.  A socket that was
\* replaced is closing, so no two stay open.  And the status tells the truth: it
\* shows a live connection only over a socket that is open, and failure exactly
\* when nothing more will be tried.  Its retries are counted.
OneWayOn ==
    /\ ClientTypeOK
    /\ RetriesAreCounted
    /\ LET ways == {w \in {"timer", "preflight", "socket"} :
                      \/ w = "timer" /\ conn.timer # "none"
                      \/ w = "preflight" /\ conn.preflight
                      \/ w = "socket" /\ conn.ws # NoSock}
       IN Cardinality(ways) = IF Inert(conn) THEN 0 ELSE 1
    /\ conn.timer \in {"none", "armed"}
    /\ \A s \in Sock \ {conn.ws} : conn.socks[s] \in {"free", "closing"}
    /\ conn.status \in {"open", "suspended"} =>
          conn.ws # NoSock /\ conn.socks[conn.ws] = "open"
    /\ conn.status = "failed" <=> conn.closed \/ conn.terminal

=============================================================================
