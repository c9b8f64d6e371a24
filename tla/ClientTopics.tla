---------------------------- MODULE ClientTopics ----------------------------
(***************************************************************************)
(* The topics of the browser client (client.js) over a connection that     *)
(* comes and goes: what the application uses, what the server is asked for *)
(* and again asked for after a refusal, and the offset from which a missed *)
(* tail is recovered.                                                      *)
(*                                                                         *)
(* The server (handler/realtime.js) answers a subscribe when its hooks     *)
(* have, in any order; its open hook may have granted a topic before it    *)
(* is asked for.  Subscription and ResumeCapture model it in full.         *)
(***************************************************************************)
EXTENDS Integers, Sequences

CONSTANTS
    Topic,
    Numbered,      \* the topics whose frames carry a sequence number
    MaxUses,       \* bound on the subscribers of one topic
    MaxAttempts,   \* RATE_LIMITED_MAX_ATTEMPTS
    MaxLog,        \* bound on the frames published on one topic
    MaxRefs,       \* bound on the subscribe frames of one connection
    MaxWire        \* bound on the frames under way in one direction

VARIABLES
    socket,   \* "none", "open", "closing"
    client,   \* the maps of the connection, see Idle
    server,   \* what the server keeps of the socket: memberships and asks
    up,       \* frames to the server
    down,     \* frames to the client
    log,      \* topic -> its newest number
    view      \* history: what the subscriber has, see Unseen

vars == <<socket, client, server, up, down, log, view>>

NoRecovery == [ref |-> 0, highest |-> 0]

Idle ==
    [uses     |-> [t \in Topic |-> 0],            \* topicRefCounts
     batch    |-> {},                             \* pendingSubscribes
     limited  |-> [t \in Topic |-> 0],            \* rateLimitedTopics, attempts so far
     timer    |-> "none",                         \* rateLimitedTimer, as in ClientConnection
     recovery |-> [t \in Topic |-> NoRecovery],   \* pendingRecoveries
     offset   |-> [t \in Topic |-> 0],            \* lastSeenSeqs, 0 for no entry
     ref      |-> 0]                              \* nextSubscribeRef, compared within a connection

Unseen ==
    [gaps    |-> [t \in Topic |-> {}],      \* numbers not received since its view began
     follows |-> {},                        \* topics of which it has a view
     acked   |-> {},                        \* topics whose newest ask was acknowledged
     latest  |-> [t \in Topic |-> 0],       \* the reference of the newest ask
     refused |-> {},                        \* topics whose refusal stands
     raced   |-> {}]                        \* a granted topic moved while its recovery was refused

Gone == [held |-> {}, granted |-> {}, asks |-> {}]

Wanted(c) == {t \in Topic : c.uses[t] > 0}

Init ==
    /\ socket = "none"
    /\ client = Idle
    /\ server = Gone
    /\ up = <<>> /\ down = <<>>
    /\ log = [t \in Topic |-> 0]
    /\ view = Unseen

-----------------------------------------------------------------------------
(* What the handlers share.                                                *)

Frame(T, ref, recover) ==
    [kind |-> "subscribe", topics |-> T, ref |-> ref,
     offset |-> [t \in Topic |-> IF t \in recover THEN client.offset[t] ELSE 0]]

Unsubscribing(t) == [kind |-> "unsubscribe", topics |-> {t}, ref |-> 0, offset |-> [x \in Topic |-> 0]]

\* The asking end of a subscribe frame.
Asked(v, T, ref) ==
    [v EXCEPT !.latest = [t \in Topic |-> IF t \in T THEN ref ELSE @[t]],
              !.refused = @ \ T, !.acked = @ \ T]

\* Slip: the retries of the old socket are left for the generation check to stop.
ClearRetriesLater(c) == [c EXCEPT !.limited = [t \in Topic |-> 0]]

\* clearSubscriptionRetries
ClearRetries(c) == [c EXCEPT !.timer = "none", !.limited = [t \in Topic |-> 0]]

\* sendRecoveryFrame
Recovering(c, T, ref) ==
    [c EXCEPT !.ref = ref,
              !.recovery = [t \in Topic |-> IF t \in T /\ c.offset[t] > 0
                                            THEN [ref |-> ref, highest |-> 0] ELSE @[t]]]

\* Slip: a refused recovery counts as done.
FinishRecoveryAnyhow(c, t, ref, accepted) ==
    IF c.recovery[t].ref # ref \/ ref = 0 THEN c
    ELSE [c EXCEPT !.recovery[t] = NoRecovery,
                   !.offset[t] = IF c.recovery[t].highest > @ THEN c.recovery[t].highest ELSE @]

\* finishRecovery
FinishRecovery(c, t, ref, accepted) ==
    IF c.recovery[t].ref # ref \/ ref = 0 THEN c
    ELSE [c EXCEPT !.recovery[t] = NoRecovery,
                   !.offset[t] = IF accepted /\ c.recovery[t].highest > @
                                 THEN c.recovery[t].highest ELSE @]

\* retryRateLimitedSubscribe
Retry(c, t) ==
    IF t \notin Wanted(c) THEN c
    ELSE IF c.limited[t] + 1 > MaxAttempts THEN [c EXCEPT !.limited[t] = 0]
    ELSE [c EXCEPT !.limited[t] = @ + 1, !.timer = IF @ = "none" THEN "armed" ELSE @]

-----------------------------------------------------------------------------
(* The application.  Its calls in one task end in a microtask, before any   *)
(* event comes.                                                            *)

Quiet == client.batch = {}

\* subscribe: a topic already used is already asked for.
Subscribe(t) ==
    /\ client.uses[t] < MaxUses
    /\ socket = "open" => client.ref < MaxRefs /\ Len(up) < MaxWire
    /\ client' = [client EXCEPT !.uses[t] = @ + 1,
                                !.batch = IF client.uses[t] = 0 /\ socket = "open" THEN @ \cup {t} ELSE @]
    /\ UNCHANGED <<socket, server, up, down, log, view>>

\* Slip: what was given up in the same task is asked for all the same.
PendingAll == client.batch

\* Of the topics batched, those still wanted when the frame goes out.
Pending == client.batch \cap Wanted(client)

\* flushPendingSubscribes
Flush ==
    /\ client.batch # {}
    /\ LET T == Pending
           ref == client.ref + 1
       IN IF T = {} \/ socket # "open"
          THEN client' = [client EXCEPT !.batch = {}] /\ UNCHANGED <<up, view>>
          ELSE /\ client' = [client EXCEPT !.batch = {}, !.ref = ref]
               /\ up' = Append(up, Frame(T, ref, {}))
               /\ view' = Asked(view, T, ref)
    /\ UNCHANGED <<socket, server, down, log>>

\* doUnsubscribe
Leave(t) ==
    /\ socket = "open" => Len(up) < MaxWire
    /\ client' = [client EXCEPT !.uses[t] = 0, !.recovery[t] = NoRecovery, !.limited[t] = 0]
    /\ up' = IF socket = "open" THEN Append(up, Unsubscribing(t)) ELSE up
    /\ view' = [view EXCEPT !.follows = @ \ {t}, !.raced = @ \ {t}, !.gaps[t] = {}, !.acked = @ \ {t},
                             !.refused = @ \ {t}]
    /\ UNCHANGED <<socket, server, down, log>>

\* unsubscribe, whatever the count, or the release by the last of them; release by
\* one of several.
Unsubscribe(t) == t \in Wanted(client) /\ Leave(t)

Release(t) ==
    /\ client.uses[t] > 1
    /\ client' = [client EXCEPT !.uses[t] = @ - 1]
    /\ UNCHANGED <<socket, server, up, down, log, view>>

\* flushRateLimitedRetries: every refused topic still wanted, with its offset.
TimerFires ==
    /\ Quiet /\ client.timer \in {"armed", "stale"}
    /\ Len(up) < MaxWire /\ client.ref < MaxRefs
    /\ LET T == {t \in Wanted(client) : client.limited[t] > 0}
           ref == client.ref + 1
           c == [client EXCEPT !.timer = "none",
                               !.limited = [t \in Topic |-> IF t \in T THEN @[t] ELSE 0]]
       IN IF client.timer = "stale"
          THEN client' = [client EXCEPT !.timer = "spent"] /\ UNCHANGED <<up, view>>
          ELSE IF T = {} \/ socket # "open" THEN client' = c /\ UNCHANGED <<up, view>>
          ELSE /\ client' = Recovering(c, T, ref)
               /\ up' = Append(up, Frame(T, ref, T))
               /\ view' = Asked(view, T, ref)
    /\ UNCHANGED <<socket, server, down, log>>

-----------------------------------------------------------------------------
(* The connection.                                                         *)

\* It breaks, at once or, when the client gives it up, first closes.
Drop(to) ==
    /\ Quiet /\ socket = "open"
    /\ socket' = to
    /\ client' = IF to = "none" THEN ClearRetries(client) ELSE client
    /\ up' = <<>> /\ down' = <<>> /\ server' = Gone
    /\ UNCHANGED <<log, view>>

\* The close event, or a reconnect that does not wait for it.
Closes ==
    /\ Quiet /\ socket = "closing"
    /\ socket' = "none"
    /\ client' = ClearRetries(client)
    /\ UNCHANGED <<server, up, down, log, view>>

\* doConnect and onopen: everything wanted is asked for again, from its offset.
Open ==
    /\ Quiet /\ socket = "none"
    /\ socket' = "open"
    /\ LET T == Wanted(client)
           Cut == [view EXCEPT !.refused = {}, !.acked = {}, !.latest = [t \in Topic |-> 0]]
           c == [client EXCEPT !.recovery = [t \in Topic |-> NoRecovery], !.ref = 0,
                               !.timer = IF @ = "armed" THEN "stale" ELSE @]
       IN IF T = {}
          THEN client' = c /\ up' = <<>> /\ view' = Cut
          ELSE /\ client' = Recovering(c, T, 1)
               /\ up' = <<Frame(T, 1, T)>>
               /\ view' = Asked(Cut, T, 1)
    /\ \E G \in SUBSET Topic : server' = [Gone EXCEPT !.held = G, !.granted = G]
    /\ UNCHANGED <<down, log>>

-----------------------------------------------------------------------------
(* The server.                                                             *)

Sends(frames) == Len(down) + Len(frames) <= MaxWire /\ down' = down \o frames

Live(t, n)      == [kind |-> "live", topic |-> t, from |-> n, to |-> n, ref |-> 0, why |-> ""]
Missed(t, m, n) == [kind |-> "missed", topic |-> t, from |-> m, to |-> n, ref |-> 0, why |-> ""]
Lost(t)         == [kind |-> "lost", topic |-> t, from |-> 0, to |-> 0, ref |-> 0, why |-> ""]
Ok(t, ref)      == [kind |-> "ok",   topic |-> t, from |-> 0, to |-> 0, ref |-> ref, why |-> ""]
No(t, ref, why) == [kind |-> "no",   topic |-> t, from |-> 0, to |-> 0, ref |-> ref, why |-> why]

\* A frame is published: to the socket if it is a member.
Publish(t) ==
    /\ Quiet /\ t \in Numbered /\ log[t] < MaxLog
    /\ log' = [log EXCEPT ![t] = @ + 1]
    /\ IF t \in server.held THEN Sends(<<Live(t, log[t] + 1)>>) ELSE UNCHANGED down
    /\ view' = [view EXCEPT !.gaps[t] = IF t \in view.follows THEN @ \cup {log[t] + 1} ELSE @]
    /\ UNCHANGED <<socket, client, server, up>>

\* The server reads a frame: asks begin, or an unsubscribe ends the membership
\* and cancels those under way.
Take ==
    /\ Quiet /\ up # <<>>
    /\ up' = Tail(up)
    /\ LET f == Head(up)
       IN server' = IF f.kind = "subscribe"
                    THEN [server EXCEPT !.asks = @ \cup
                            {[topic |-> t, ref |-> f.ref, offset |-> f.offset[t], read |-> -1,
                              cancelled |-> FALSE] : t \in f.topics}]
                    ELSE [server EXCEPT !.held = @ \ f.topics, !.granted = @ \ f.topics,
                            !.asks = {[a EXCEPT !.cancelled = @ \/ a.topic \in f.topics] : a \in @}]
    /\ UNCHANGED <<socket, client, down, log, view>>

\* A cancelled ask goes on only where a later one has been granted meanwhile.
WouldAck(a) == ~a.cancelled \/ a.topic \in server.held

\* The resume hook sends the missed tail, or says that it is lost.
Read(a) ==
    /\ Quiet /\ a.offset > 0 /\ a.read < 0 /\ WouldAck(a)
    /\ server' = [server EXCEPT !.asks = (@ \ {a}) \cup {[a EXCEPT !.read = log[a.topic]]}]
    /\ \/ Sends(IF log[a.topic] > a.offset THEN <<Missed(a.topic, a.offset + 1, log[a.topic])>> ELSE <<>>)
       \/ Sends(<<Lost(a.topic)>>)
    /\ UNCHANGED <<socket, client, up, log, view>>

\* It is installed and acknowledged; what was published since the read was captured.
Land(a) ==
    /\ Quiet /\ WouldAck(a) /\ (a.offset > 0 => a.read >= 0)
    /\ LET held == a.topic \in server.held
           flushed == IF held \/ a.offset = 0 THEN <<>>
                      ELSE [i \in 1..(log[a.topic] - a.read) |-> Live(a.topic, a.read + i)]
       IN Sends(Append(flushed, Ok(a.topic, a.ref)))
    /\ server' = [server EXCEPT !.asks = @ \ {a}, !.held = @ \cup {a.topic}]
    /\ UNCHANGED <<socket, client, up, log, view>>

\* It is refused: a bound is full for the moment, the hook says so, or it was cancelled.
Refuse(a, why) ==
    /\ Quiet
    /\ server' = [server EXCEPT !.asks = @ \ {a}]
    /\ Sends(<<No(a.topic, a.ref, why)>>)
    /\ UNCHANGED <<socket, client, up, log, view>>

-----------------------------------------------------------------------------
(* The client hears the server.                                            *)

\* Slip: a live frame moves the offset although the tail before it is owed.
AdvanceAtOnce(c, t, n) == [c EXCEPT !.offset[t] = IF n > @ THEN n ELSE @]

\* dispatchEvent
Advance(c, t, n) ==
    IF c.recovery[t].ref # 0
    THEN [c EXCEPT !.recovery[t].highest = IF n > @ THEN n ELSE @]
    ELSE [c EXCEPT !.offset[t] = IF n > @ THEN n ELSE @]

\* The subscriber's view of a topic begins with its first frame on an acknowledged
\* subscription: what was published since is on its way.
Received(v, t, n) ==
    IF t \in v.follows \/ t \notin v.acked THEN [v EXCEPT !.gaps[t] = @ \ {n}]
    ELSE LET coming == {i \in 2..Len(down) : down[i].kind = "live" /\ down[i].topic = t}
         IN [v EXCEPT !.follows = @ \cup {t}, !.gaps[t] = {down[i].from : i \in coming}]

\* Its view ends: it reads the state afresh, or was told that it has no right to it.
Restarted(v, t) == [v EXCEPT !.follows = @ \ {t}, !.gaps[t] = {}, !.raced = @ \ {t}]

Hears(kind) ==
    /\ Quiet /\ socket = "open"
    /\ down # <<>> /\ Head(down).kind = kind
    /\ down' = Tail(down)
    /\ UNCHANGED <<socket, server, up, log>>

HearLive ==
    /\ Hears("live")
    /\ LET m == Head(down)
           t == m.topic
       IN /\ client' = Advance(client, t, m.from)
          /\ view' = [Received(view, t, m.from) EXCEPT
                        !.raced = IF client.limited[t] > 0 /\ client.recovery[t].ref = 0
                                  THEN @ \cup {t} ELSE @]

\* Frames of a replayed tail come on a topic of their own and move no offset.
HearMissed ==
    /\ Hears("missed")
    /\ view' = [view EXCEPT !.gaps[Head(down).topic] = @ \ (Head(down).from..Head(down).to)]
    /\ UNCHANGED client

\* "truncated", "rehydrate", "gap"
HearLost ==
    /\ Hears("lost")
    /\ LET t == Head(down).topic
       IN /\ client' = [client EXCEPT !.offset[t] = 0, !.recovery[t].highest = 0]
          /\ view' = Restarted(view, t)

HearOk ==
    /\ Hears("ok")
    /\ LET t == Head(down).topic
       IN /\ client' = [FinishRecovery(client, t, Head(down).ref, TRUE) EXCEPT !.limited[t] = 0]
          /\ view' = [view EXCEPT !.acked =
                        IF t \in Wanted(client) /\ Head(down).ref = view.latest[t] THEN @ \cup {t} ELSE @]

HearNo ==
    /\ Hears("no")
    /\ LET m == Head(down)
           t == m.topic
           c == FinishRecovery(client, t, m.ref, FALSE)
           d == IF m.why = "limited" THEN Retry(c, t) ELSE c
           over == IF m.why = "limited" THEN d.limited[t] = 0 ELSE m.ref = view.latest[t]
       IN /\ client' = d
          /\ view' = IF over THEN [Restarted(view, t) EXCEPT !.refused = @ \cup {t}] ELSE view

Next ==
    \/ \E t \in Topic : Subscribe(t) \/ Release(t) \/ Unsubscribe(t) \/ Publish(t)
    \/ Flush \/ TimerFires
    \/ \E to \in {"none", "closing"} : Drop(to)
    \/ Closes \/ Open
    \/ Take
    \/ \E a \in server.asks : Read(a) \/ Land(a) \/ \E why \in {"limited", "verdict"} : Refuse(a, why)
    \/ HearLive \/ HearMissed \/ HearLost \/ HearOk \/ HearNo

Spec == Init /\ [][Next]_vars

-----------------------------------------------------------------------------

TypeOK ==
    /\ socket \in {"none", "open", "closing"}
    /\ client.batch \subseteq Topic
    /\ client.timer \in {"none", "armed", "stale", "spent"}
    /\ \A t \in Topic :
        /\ client.uses[t] \in 0..MaxUses /\ client.limited[t] \in 0..MaxAttempts
        /\ client.offset[t] \in 0..log[t] /\ client.recovery[t].highest \in 0..log[t]
    /\ server.granted \subseteq server.held /\ server.held \subseteq Topic

UnderWay(t) ==
    \/ \E i \in DOMAIN up : t \in up[i].topics
    \/ \E a \in server.asks : a.topic = t
    \/ \E i \in DOMAIN down : down[i].topic = t /\ down[i].kind \in {"ok", "no"}

\* Once the frames about a topic have been answered, the two sides agree: the
\* server has the connection in a topic that is used, or the application was told
\* of a refusal that stands, or a retry is on its way; it does not keep it in a
\* topic nobody uses.  However the connection breaks, the application changes its
\* mind and refusals arrive late, no topic is left believed and not served.
LedgersAgree ==
    /\ TypeOK
    /\ socket = "open" /\ Quiet =>
        \A t \in Topic : ~UnderWay(t) =>
            IF t \in Wanted(client)
            THEN \/ t \in server.held \cup view.refused
                 \/ client.timer = "armed" /\ client.limited[t] > 0
            ELSE t \in server.held => t \in server.granted

Owed(t) == t \in view.follows /\ t \in Wanted(client)

\* The offset a topic will be recovered from never passes a frame that was not
\* received: live frames may overtake the tail that is owed, and the connection
\* may break before the tail is there.  Except that a granted topic's live frames
\* move it while its refused recovery waits for a retry.
OffsetIsEarned ==
    \A t \in Topic : Owed(t) /\ t \notin view.raced => \A n \in view.gaps[t] : n > client.offset[t]

=============================================================================
