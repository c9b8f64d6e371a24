------------------------------ MODULE Presence ------------------------------
(***************************************************************************)
(* The presence plugin: one topic of the tracker of a worker                *)
(* (plugins/presence/server.js) and the rosters its clients build           *)
(* (plugins/presence/client.js).  A user may be on the topic by several     *)
(* sockets.  Changes are collected and published once per tick as the net   *)
(* change of each user; a heartbeat repairs what was lost, and a client     *)
(* forgets whom it has not heard of.                                        *)
(*                                                                         *)
(* The tracker has other topics: their joins may evict a connection, or     *)
(* this topic, at the caps.  The frames of a socket arrive in order and     *)
(* nothing a client sends depends on them, so they arrive at once.          *)
(***************************************************************************)
EXTENDS Naturals, FiniteSets

CONSTANTS
    Socket, User,
    Owners,     \* the ways in which sockets may belong to users
    Profile,    \* socket -> its identity data
    MaxAge      \* heartbeats a client waits before it forgets a user

\* The heartbeat is shorter than maxAge, as the server asks where it warns of another.
ASSUME PresenceAssumption ==
    /\ IsFiniteSet(Socket) /\ Owners \subseteq [Socket -> User]
    /\ MaxAge \in Nat /\ MaxAge > 0

VARIABLES
    owner,     \* socket -> the key that select() gives it
    tracker,   \* the maps of the plugin, see NoTracker
    shown,     \* socket -> user -> what its client shows
    lostFrames, \* history: socket -> users of whom a frame was lost
    cut,       \* history: observers whose tap an unsubscribe took
    evicted    \* history: the topic was dropped at the cap

presenceVars == <<owner, tracker, shown, lostFrames, cut, evicted>>

\* `status` is a durable field, `typing` a transient one.
Field  == {"status", "typing"}
Fields == [Field -> {0, 1}]
Blank  == [f \in Field |-> 0]

NoEntry  == [count |-> 0, data |-> 0, fields |-> Blank]
NoChange == [op |-> "none", changed |-> {}, fields |-> Blank]
Unseen   == [here |-> FALSE, data |-> 0, fields |-> Blank, age |-> 0]
Nothing  == [u \in User |-> Unseen]

NoTracker ==
    [joined   |-> {},                              \* wsTopics
     users    |-> [u \in User |-> NoEntry],        \* topicPresence
     observed |-> {},                              \* syncObservers
     channel  |-> {},                              \* who receives __presence:topic
     pending  |-> [u \in User |-> NoChange]]       \* pendingDiffs

PresenceInit ==
    /\ owner \in Owners
    /\ tracker = NoTracker
    /\ shown = [s \in Socket |-> Nothing]
    /\ lostFrames = [s \in Socket |-> {}]
    /\ cut = {}
    /\ evicted = FALSE

-----------------------------------------------------------------------------
(* What the calls share.                                                    *)

Present(p) == {u \in User : p.users[u].count > 0}
Dirty(p)   == {u \in User : p.pending[u].op # "none"}

BufferDiff(p, u, op) == [p EXCEPT !.pending[u] = [NoChange EXCEPT !.op = op]]

\* Slip: the newest change wins, whatever waits.
BufferUpdateOver(p, u, f, v) ==
    [p EXCEPT !.pending[u] = [op |-> "update", changed |-> @.changed \cup {f}, fields |-> [@.fields EXCEPT ![f] = v]]]

\* bufferUpdate: a join or leave that waits says all there is to say.
BufferUpdate(p, u, f, v) ==
    IF p.pending[u].op \in {"join", "leave"} THEN p
    ELSE [p EXCEPT !.pending[u] = [op |-> "update", changed |-> @.changed \cup {f},
                                   fields |-> [@.fields EXCEPT ![f] = v]]]

\* One socket less; the last one takes the user.
Discount(p, u) ==
    IF p.users[u].count > 1 THEN [p EXCEPT !.users[u].count = @ - 1]
    ELSE BufferDiff([p EXCEPT !.users[u] = NoEntry], u, "leave")

\* Slip: whoever leaves stops listening.
LeaveTopicDeaf(p, s) ==
    LET q == [p EXCEPT !.joined = @ \ {s}]
    IN IF s \notin p.joined THEN p
       ELSE IF p.users[owner[s]].count = 0 THEN q
       ELSE [Discount(q, owner[s]) EXCEPT !.channel = @ \ {s}]

\* leaveTopic: where the topic was dropped there is nothing to release; an observer
\* goes on listening.
LeaveTopic(p, s) ==
    LET q == [p EXCEPT !.joined = @ \ {s}]
    IN IF s \notin p.joined THEN p
       ELSE IF p.users[owner[s]].count = 0 THEN q
       ELSE [Discount(q, owner[s]) EXCEPT !.channel = @ \ ({s} \ p.observed)]

\* The user gains a socket; a change of the data is news like an arrival.
Count(p, s) ==
    LET u == owner[s]
        e == [p.users[u] EXCEPT !.count = @ + 1, !.data = Profile[s]]
        q == [p EXCEPT !.joined = @ \cup {s}, !.users[u] = e]
    IN IF u \in Present(p) /\ p.users[u].data = Profile[s] THEN q ELSE BufferDiff(q, u, "join")

-----------------------------------------------------------------------------
(* What a client does with the frames.                                      *)

\* publicData: no transient field in what is kept.
PublicData(e) == [here |-> TRUE, data |-> e.data, fields |-> [e.fields EXCEPT !["typing"] = 0], age |-> 0]

\* snapshotState, which replaces all the client has.
Snapshot(p) == [u \in User |-> IF u \in Present(p) THEN PublicData(p.users[u]) ELSE Unseen]

\* The diff of flushDiffs, as its receiver merges it.
Diffed(p, view) ==
    [u \in User |->
        LET d == p.pending[u]
        IN CASE d.op = "join" /\ u \in Present(p) -> PublicData(p.users[u])
             [] d.op = "leave" -> Unseen
             [] d.op = "update" /\ view[u].here ->
                    [view[u] EXCEPT !.age = 0,
                                    !.fields = [f \in Field |-> IF f \in d.changed THEN d.fields[f] ELSE @[f]]]
             [] OTHER -> view[u]]

\* Users whom the diff states in full.
Stated(p) == {u \in User : p.pending[u].op = "leave" \/ (p.pending[u].op = "join" /\ u \in Present(p))}

\* The tracker changes; who no longer listens shows nothing, `fresh` receives a snapshot.
Become(p, fresh) ==
    /\ tracker' = p
    /\ shown' = [s \in Socket |-> IF s \in fresh THEN Snapshot(p)
                                  ELSE IF s \in p.channel THEN shown[s] ELSE Nothing]
    /\ lostFrames' = [s \in Socket |-> IF s \in p.channel \ fresh THEN lostFrames[s] ELSE {}]

-----------------------------------------------------------------------------

\* join(); a new connection may make the oldest one leave; the subscription may fail,
\* and takes all of it back.
Join(s) ==
    /\ s \notin tracker.joined
    /\ \E oldest \in {tracker} \cup {LeaveTopic(tracker, v) : v \in tracker.joined} :
        LET p == Count(oldest, s)
        IN \/ Become([p EXCEPT !.channel = @ \cup {s}], {s}) /\ cut' = cut \ {s}
           \/ Become(LeaveTopic(p, s), {}) /\ UNCHANGED cut
    /\ UNCHANGED <<owner, evicted>>

\* A join on another topic makes the oldest connection leave them all, or this topic go.
EvictConnection(s) ==
    /\ s \in tracker.joined
    /\ Become(LeaveTopic(tracker, s), {})
    /\ UNCHANGED <<owner, cut, evicted>>

EvictTopic ==
    /\ Present(tracker) # {}
    /\ tracker' = [tracker EXCEPT !.users = NoTracker.users]
    /\ lostFrames' = [s \in Socket |-> IF s \in tracker.channel THEN lostFrames[s] \cup Present(tracker) ELSE {}]
    /\ evicted' = TRUE
    /\ UNCHANGED <<owner, shown, cut>>

\* An unsubscribe or a revocation of the topic: its taps are released, then the hook runs.
Unsubscribe(s) ==
    /\ s \in tracker.joined \cup tracker.channel
    /\ Become(LeaveTopic([tracker EXCEPT !.channel = @ \ {s}], s), {})
    /\ cut' = cut \cup ({s} \cap tracker.observed)
    /\ UNCHANGED <<owner, evicted>>

\* leave(), at the close of the socket.
Close(s) ==
    /\ s \in tracker.joined \cup tracker.observed
    /\ Become([LeaveTopic(tracker, s) EXCEPT !.observed = @ \ {s}, !.channel = @ \ {s}], {})
    /\ cut' = cut \ {s}
    /\ UNCHANGED <<owner, evicted>>

\* sync(): with the application's leave (awaited, see Subscription) the socket observes,
\* unless its subscription fails.
Sync(s) ==
    /\ \/ /\ s \notin tracker.channel
          /\ Become([tracker EXCEPT !.observed = @ \ {s}], {})
       \/ Become([tracker EXCEPT !.observed = @ \cup {s}, !.channel = @ \cup {s}], {s})
    /\ cut' = cut \ {s}
    /\ UNCHANGED <<owner, evicted>>

\* update(), by any socket of the user; a value that is there already is no change.
Update(s) ==
    /\ s \in tracker.joined /\ owner[s] \in Present(tracker)
    /\ \E f \in Field :
        LET u == owner[s]
            v == 1 - tracker.users[u].fields[f]
        IN tracker' = BufferUpdate([tracker EXCEPT !.users[u].fields[f] = v], u, f, v)
    /\ UNCHANGED <<owner, shown, lostFrames, cut, evicted>>

\* flushDiffs; the publish may throw, and the diff is lost.
Flush ==
    /\ Dirty(tracker) # {}
    /\ \/ /\ shown' = [s \in Socket |-> IF s \in tracker.channel THEN Diffed(tracker, shown[s]) ELSE shown[s]]
          /\ lostFrames' = [s \in Socket |-> lostFrames[s] \ Stated(tracker)]
       \/ /\ lostFrames' = [s \in Socket |-> IF s \in tracker.channel THEN lostFrames[s] \cup Dirty(tracker) ELSE {}]
          /\ UNCHANGED shown
    /\ tracker' = [tracker EXCEPT !.pending = NoTracker.pending]
    /\ UNCHANGED <<owner, cut, evicted>>

Aged(v) == IF v.here /\ v.age < MaxAge THEN [v EXCEPT !.age = @ + 1] ELSE v

\* A heartbeat interval: the roster goes out, if there is one and its publish does not throw.
Beat ==
    /\ \/ /\ shown' = [s \in Socket |-> [u \in User |->
                IF s \in tracker.channel /\ u \in Present(tracker) THEN PublicData(tracker.users[u])
                ELSE Aged(shown[s][u])]]
          /\ lostFrames' = [s \in Socket |-> lostFrames[s] \ Present(tracker)]
       \/ /\ Present(tracker) # {}
          /\ shown' = [s \in Socket |-> [u \in User |-> Aged(shown[s][u])]]
          /\ lostFrames' = [s \in Socket |->
                IF s \in tracker.channel THEN lostFrames[s] \cup Present(tracker) ELSE {}]
    /\ UNCHANGED <<owner, tracker, cut, evicted>>

\* sweep, by a client.
SweepView(s) ==
    LET old == {u \in User : shown[s][u].here /\ shown[s][u].age = MaxAge}
    IN /\ old # {}
       /\ shown' = [shown EXCEPT ![s] = [u \in User |-> IF u \in old THEN Unseen ELSE @[u]]]
       /\ lostFrames' = [lostFrames EXCEPT ![s] = @ \ (old \ Present(tracker))]
       /\ UNCHANGED <<owner, tracker, cut, evicted>>

PresenceNext ==
    \/ \E s \in Socket :
        \/ Join(s) \/ EvictConnection(s) \/ Unsubscribe(s) \/ Close(s)
        \/ Sync(s) \/ Update(s) \/ SweepView(s)
    \/ EvictTopic \/ Flush \/ Beat

PresenceSpec == PresenceInit /\ [][PresenceNext]_presenceVars

-----------------------------------------------------------------------------

PresenceTypeOK ==
    /\ tracker.joined \cup tracker.observed \cup tracker.channel \subseteq Socket
    /\ \A u \in User : tracker.users[u].fields \in Fields /\ tracker.pending[u].fields \in Fields

\* A user counts once for every socket on the topic, and never more; less only where
\* the topic was dropped meanwhile.
CountsExact ==
    \A u \in User :
        LET by == Cardinality({s \in tracker.joined : owner[s] = u})
        IN IF evicted THEN tracker.users[u].count <= by ELSE tracker.users[u].count = by

\* Who is on the topic hears of it, and an observer goes on hearing after leaving it;
\* who is neither does not hear.
ChannelExact ==
    /\ tracker.joined \cup (tracker.observed \ cut) \subseteq tracker.channel
    /\ ~evicted => tracker.channel \subseteq tracker.joined \cup tracker.observed

\* What a client shows, with the changes that wait for the next tick, is the roster:
\* the same users with the same durable data, and nobody typing who is not.  It is wrong
\* only about users of whom a frame was lost, until the next frame that states them
\* or the sweep; a user who is there is not swept while heartbeats come.
RosterIsTrue ==
    /\ PresenceTypeOK /\ CountsExact /\ ChannelExact
    /\ \A s \in tracker.channel : \A u \in User \ lostFrames[s] :
        LET e == tracker.users[u]
            v == Diffed(tracker, shown[s])[u]
        IN /\ v.here <=> e.count > 0
           /\ v.here => /\ v.data = e.data /\ v.fields["status"] = e.fields["status"]
                        /\ v.fields["typing"] <= e.fields["typing"]

=============================================================================
