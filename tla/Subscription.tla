---------------------------- MODULE Subscription ----------------------------
(***************************************************************************)
(* The topics of one WebSocket connection (handler/realtime.js,            *)
(* handler/platform.js, utils/ws-symbols.js, utils/subscribe-policy.js).   *)
(*                                                                         *)
(* A subscribe asks the application's hook and, when the client wants to   *)
(* catch up, its resume hook. Both are awaited, and anything may happen to *)
(* the same topic meanwhile: another subscribe, a revocation, a plugin     *)
(* that joins or evicts the socket, the arming of the grant gate, a close. *)
(* An attempt enrols before its first await and presents the topic's       *)
(* revocation epoch when it lands.                                         *)
(***************************************************************************)
EXTENDS Integers, FiniteSets, Sequences

CONSTANTS
    Topics,
    PluginOwned,  \* topics of a plugin that decides its own subscribes
    Derived,      \* topic -> the observer taps that hang on it
    Attempts,     \* message frames and platform calls that can be in flight
    Batches,      \* topic sequences a subscribe-batch frame may name
    MaxSubs,      \* MAX_SUBSCRIPTIONS_PER_CONNECTION
    MaxPending,   \* MAX_PENDING_SUBSCRIBES_PER_CONNECTION
    MaxEpoch      \* bound on the revocations one enrolment sees

ASSUME SubscriptionAssumption ==
    /\ IsFiniteSet(Topics) /\ PluginOwned \subseteq Topics
    /\ Derived \in [Topics -> SUBSET Topics]
    /\ Batches \subseteq Seq(Topics)
    /\ MaxSubs \in Nat /\ MaxPending \in Nat /\ MaxEpoch \in Nat

VARIABLES
    ud,     \* the connection's userData, see UserData
    armed,  \* the wire grant gate applies (authorizeWireSubscribe)
    call,   \* attempt -> the frame or call it carries
    acks    \* history: topics the last step confirmed to the subscriber

vars == <<ud, armed, call, acks>>

(***************************************************************************)
(* An entry of WS_PENDING_SUBSCRIBES exists while something is in flight;  *)
(* "absent" is an entry with nothing in flight.                            *)
(***************************************************************************)
NoEntry == [epoch |-> 0, inflight |-> 0, granted |-> FALSE]

Item == [id : Attempts \X (1..MaxPending), topic : Topics, token : 0..MaxEpoch,
         gated : BOOLEAN, recover : BOOLEAN, allow : BOOLEAN, served : BOOLEAN]

Idle == [stage |-> "idle", lane |-> "none", items |-> <<>>]

\* History in it: backed, the memberships that a completed authorization or a
\* plugin acting alone stands behind; parked, the items in flight per topic;
\* stale, those of them that a revocation has overtaken.
UserData ==
    [subs : SUBSET Topics, native : SUBSET Topics, count : Int,
     entry : [Topics -> [epoch : 0..MaxEpoch, inflight : 0..MaxPending, granted : BOOLEAN]],
     total : 0..MaxPending, socket : {"open", "closing", "closed"},
     backed : SUBSET Topics, stale : SUBSET (Attempts \X (1..MaxPending)),
     parked : [Topics -> SUBSET (Attempts \X (1..MaxPending))]]

TypeOK ==
    /\ ud \in UserData
    /\ armed \in BOOLEAN
    /\ acks \subseteq Topics
    /\ \A a \in Attempts :
        /\ call[a].stage \in {"idle", "hook", "resume"}
        /\ call[a].lane \in {"none", "wire", "batch", "platform", "observer"}
        /\ \A i \in DOMAIN call[a].items : call[a].items[i] \in Item

Init ==
    /\ ud = [subs |-> {}, native |-> {}, count |-> 0,
             entry |-> [t \in Topics |-> NoEntry], total |-> 0, socket |-> "open",
             backed |-> {}, stale |-> {}, parked |-> [t \in Topics |-> {}]]
    /\ armed = FALSE
    /\ call = [a \in Attempts |-> Idle]
    /\ acks = {}

-----------------------------------------------------------------------------
(* The record of attempts in flight: utils/ws-symbols.js.                  *)

Unconfirmed(u, t) == u.entry[t].inflight > 0 /\ ~u.entry[t].granted

WouldAck(u, it) ==
    LET e == u.entry[it.topic] IN e.inflight = 0 \/ e.epoch = it.token \/ e.granted

HeldAuthorized(u, it) ==
    \/ ~Unconfirmed(u, it.topic)
    \/ it.topic \in PluginOwned /\ WouldAck(u, it)

\* Only the first enrolment reads what the connection holds as authority.
Begin(u, it) ==
    LET t == it.topic
        e == u.entry[t]
    IN [u EXCEPT !.entry[t] =
                    IF e.inflight = 0
                    THEN [epoch |-> 0, inflight |-> 1, granted |-> t \in u.subs]
                    ELSE [e EXCEPT !.inflight = @ + 1],
                 !.total = @ + 1,
                 !.parked[t] = @ \cup {it.id}]

\* Close one enrolment; mark records it as authority of the present epoch.
Leave(u, it, mark) ==
    LET t == it.topic
        e == u.entry[t]
    IN [u EXCEPT !.entry[t] =
                    IF e.inflight <= 1 THEN NoEntry
                    ELSE [e EXCEPT !.inflight = @ - 1, !.granted = @ \/ mark],
                 !.total = @ - 1,
                 !.parked[t] = @ \ {it.id},
                 !.stale = @ \ {it.id},
                 !.backed = IF mark /\ it.id \notin u.stale /\ t \in u.subs
                            THEN @ \cup {t} ELSE @]

Current(u, it) == u.entry[it.topic].epoch = it.token

\* Slip: a tombstone leaves the authority of an earlier attempt standing.
EvictKeepsGrant(u, T) ==
    [u EXCEPT
        !.entry = [t \in Topics |->
            IF t \in T /\ u.entry[t].inflight > 0
            THEN [u.entry[t] EXCEPT !.epoch = @ + 1]
            ELSE u.entry[t]],
        !.subs = @ \ T,
        !.native = IF u.socket = "open" THEN @ \ T ELSE @,
        !.count = IF u.socket = "closed" THEN @ ELSE @ - Cardinality(u.subs \cap T),
        !.backed = @ \ T,
        !.stale = @ \cup UNION {u.parked[t] : t \in T}]

\* Tombstone what is in flight for the topics of T and take the memberships
\* away. On a socket that is closing the native call throws and is swallowed.
Evict(u, T) ==
    [u EXCEPT
        !.entry = [t \in Topics |->
            IF t \in T /\ u.entry[t].inflight > 0
            THEN [u.entry[t] EXCEPT !.epoch = @ + 1, !.granted = FALSE]
            ELSE u.entry[t]],
        !.subs = @ \ T,
        !.native = IF u.socket = "open" THEN @ \ T ELSE @,
        !.count = IF u.socket = "closed" THEN @ ELSE @ - Cardinality(u.subs \cap T),
        !.backed = @ \ T,
        !.stale = @ \cup UNION {u.parked[t] : t \in T}]

Unwind(u, t) == Evict(u, {t} \cup Derived[t])

\* Slip: the denial asks whether it was itself revoked.
DenialUnwindsOwn(u, it) ==
    LET e == u.entry[it.topic]
    IN it.topic \in u.subs /\ e.epoch # it.token /\ ~e.granted /\ e.inflight <= 1

\* A denial evicts only what nothing stands behind, and only the last one does.
DenialUnwinds(u, it) ==
    LET e == u.entry[it.topic] IN it.topic \in u.subs /\ ~e.granted /\ e.inflight <= 1

\* Slip: every denial evicts what the connection holds.
DeniedAlways(u, it) ==
    LET v == Leave(u, it, FALSE) IN IF it.topic \in u.subs THEN Unwind(v, it.topic) ELSE v

Denied(u, it) ==
    LET v == Leave(u, it, FALSE) IN IF DenialUnwinds(u, it) THEN Unwind(v, it.topic) ELSE v

-----------------------------------------------------------------------------
(* The gates: utils/subscribe-policy.js.                                   *)

Full(u) == Cardinality(u.subs) >= MaxSubs

PreGate(u, t) == armed /\ ~(t \in u.subs /\ ~Unconfirmed(u, t)) /\ t \notin PluginOwned

\* Slip: the landing gate forgets the gate armed while the hook was awaited.
LandingGateStale(t, held) == ~held /\ t \in PluginOwned

LandingGate(t, held) == ~held /\ (t \in PluginOwned \/ armed)

\* Slip: any membership is taken as the right to its history.
RecoverRevokedHeld(u, lane, it) ==
    it.topic \notin u.subs /\ (it.topic \in PluginOwned \/ armed \/ ~Current(u, it))

RecoverRevoked(u, lane, it) ==
    /\ ~(/\ it.topic \in u.subs
         /\ WouldAck(u, it)
         /\ lane = "batch" /\ armed => HeldAuthorized(u, it))
    /\ it.topic \in PluginOwned \/ armed \/ ~Current(u, it)

-----------------------------------------------------------------------------
(* The landing of one item, on every lane. The result says what became of  *)
(* the connection and whether the subscriber was told it is subscribed.    *)

Refused(u) == [u |-> u, ack |-> FALSE]
Acked(u)   == [u |-> u, ack |-> TRUE]

Install(u, t) ==
    [u EXCEPT !.native = @ \cup {t}, !.subs = @ \cup {t}, !.count = @ + 1]

\* The topic is held although this attempt did not install it.
HeldLanding(u, it) ==
    IF WouldAck(u, it) THEN Acked(Leave(u, it, Current(u, it)))
    ELSE LET v == Leave(u, it, FALSE)
         IN Refused(IF u.entry[it.topic].inflight <= 1 THEN Unwind(v, it.topic) ELSE v)

\* The topic is not held: settle, subscribe natively, then record it. A socket
\* that closed meanwhile throws after the enrolment is closed. The single wire
\* lane asks the cap before its resume hook and not again after it.
FreshLanding(u, lane, it) ==
    IF \/ lane = "observer"
       \/ Full(u) /\ ~(lane = "wire" /\ it.served)
       \/ lane \in {"wire", "batch"} /\ LandingGate(it.topic, FALSE)
       \/ ~Current(u, it)
    THEN Refused(Leave(u, it, FALSE))
    ELSE IF u.socket = "open" THEN Acked(Leave(Install(u, it.topic), it, TRUE))
    ELSE Refused(Leave(u, it, TRUE))

Outcome(u, lane, it) ==
    LET held == it.topic \in u.subs
        gate == lane \in {"wire", "batch"} /\ LandingGate(it.topic, HeldAuthorized(u, it))
    IN IF ~it.allow \/ (held /\ gate) THEN Refused(Denied(u, it))
       ELSE IF held THEN HeldLanding(u, it)
       ELSE FreshLanding(u, lane, it)

\* One after the other; flushing the history of the item numbered closer ends
\* the connection, and the loop with it.
LandOne(r, lane, it, closer) ==
    LET o == Outcome(r.u, lane, it)
        live == r.u.socket = "open"
    IN IF r.gone THEN r
       ELSE IF o.ack /\ live /\ it.served /\ it.topic \notin r.u.subs /\ it.id[2] = closer
       THEN [u |-> [o.u EXCEPT !.socket = "closing"], acks |-> r.acks, gone |-> TRUE]
       ELSE [u |-> o.u, gone |-> FALSE,
             acks |-> r.acks \cup (IF o.ack /\ live THEN {it.topic} ELSE {})]

Landing(lane, items, closer) ==
    LET upTo[i \in 0..Len(items)] ==
            IF i = 0 THEN [u |-> ud, acks |-> {}, gone |-> FALSE]
            ELSE LandOne(upTo[i - 1], lane, items[i], closer)
    IN upTo[Len(items)]

-----------------------------------------------------------------------------
(* Frames and calls.                                                       *)

\* The history of revocations seen is capped, in every step that adds to it.
EpochBound == \A t \in Topics : ud'.entry[t].epoch <= MaxEpoch

NewItem(a, i, t, gated, recover) ==
    [id |-> <<a, i>>, topic |-> t, token |-> ud.entry[t].epoch, gated |-> gated,
     recover |-> recover, allow |-> FALSE, served |-> FALSE]

\* One after the other, too.
Enrolled(items) ==
    LET upTo[i \in 0..Len(items)] == IF i = 0 THEN ud ELSE Begin(upTo[i - 1], items[i])
    IN upTo[Len(items)]

Enter(a, lane, items) ==
    /\ call[a].stage = "idle"
    /\ ud' = Enrolled(items)
    /\ call' = [call EXCEPT ![a] = [stage |-> "hook", lane |-> lane, items |-> items]]
    /\ acks' = {}
    /\ UNCHANGED armed

\* A frame that one of the checks refuses changes nothing.
WireSubscribe(a, t, recover) ==
    /\ ud.socket # "closed"
    /\ t \in ud.subs \/ ~Full(ud)
    /\ ~PreGate(ud, t)
    /\ ud.total < MaxPending
    /\ Enter(a, "wire", <<NewItem(a, 1, t, FALSE, recover)>>)

\* Topics beyond the headroom are refused; a gated one is enrolled all the
\* same, and refused when the frame lands.
WireBatch(a, topics, recover) ==
    LET n == IF Len(topics) <= MaxPending - ud.total
             THEN Len(topics) ELSE MaxPending - ud.total
    IN /\ ud.socket # "closed"
       /\ n > 0
       /\ Enter(a, "batch",
                [i \in 1..n |-> NewItem(a, i, topics[i], PreGate(ud, topics[i]),
                                        topics[i] \in recover)])

PlatformSubscribe(a, t) ==
    /\ t \notin ud.subs \/ Unconfirmed(ud, t)
    /\ t \in ud.subs \/ ~Full(ud)
    /\ ud.total < MaxPending
    /\ Enter(a, "platform", <<NewItem(a, 1, t, FALSE, FALSE)>>)

\* A plugin asks whether the socket may observe the topic.
AuthorizeDerived(a, t) ==
    /\ ud.total < MaxPending
    /\ Enter(a, "observer", <<NewItem(a, 1, t, FALSE, FALSE)>>)

\* The awaited work is over and the items land.
Land(a, items, closer) ==
    LET r == Landing(call[a].lane, items, closer)
        mine == {<<a, i>> : i \in 1..MaxPending}
    IN /\ ud' = IF r.gone  \* what the ended loop leaves enrolled dies with the connection
                THEN [r.u EXCEPT !.stale = @ \ mine,
                                 !.parked = [t \in Topics |-> @[t] \ mine]]
                ELSE r.u
       /\ acks' = r.acks
       /\ call' = [call EXCEPT ![a] = Idle]
       /\ EpochBound
       /\ UNCHANGED armed

\* The subscribe hook answers, for the items in allowed with yes. On the single
\* lane a request for history that has lost its standing is denied at once, on
\* the batch it goes on without.
Judged(a, allowed) ==
    LET c == call[a] IN
    [i \in DOMAIN c.items |->
        LET it == c.items[i]
            full == it.topic \notin ud.subs /\ Full(ud)
            gate == it.topic \in ud.subs /\ LandingGate(it.topic, HeldAuthorized(ud, it))
            lost == RecoverRevoked(ud, c.lane, it)
            yes  == i \in allowed /\ ~it.gated
        IN [it EXCEPT !.allow = yes /\ ~(c.lane = "wire" /\ it.recover /\ lost),
                      !.served = /\ yes /\ it.recover /\ ~lost
                                 /\ c.lane = "wire" => ~full /\ ~gate]]

HookReturns(a) ==
    /\ call[a].stage = "hook"
    /\ \E allowed \in SUBSET DOMAIN call[a].items :
        LET items == Judged(a, allowed) IN
        IF \E i \in DOMAIN items : items[i].served
        THEN /\ call' = [call EXCEPT ![a].stage = "resume", ![a].items = items]
             /\ acks' = {}
             /\ UNCHANGED <<ud, armed>>
        ELSE Land(a, items, 0)

\* The resume hook has sent what it has.
ResumeReturns(a) ==
    /\ call[a].stage = "resume"
    /\ \E closer \in 0..Len(call[a].items) : Land(a, call[a].items, closer)

-----------------------------------------------------------------------------
(* What else happens to a topic.                                           *)

\* platform.unsubscribe: on a socket that is no longer open the native call
\* throws, and the membership is left to the close.
PlatformUnsubscribe(t) ==
    LET v == Evict(ud, Derived[t])
        w == Evict(v, {t})
    IN /\ ud' = IF ud.socket = "open" \/ t \notin ud.subs THEN w
                ELSE [w EXCEPT !.subs = v.subs, !.count = v.count]
       /\ EpochBound
       /\ acks' = {}
       /\ UNCHANGED <<armed, call>>

WireUnsubscribe(t) ==
    /\ ud.socket # "closed"
    /\ ud' = Unwind(ud, t)
    /\ EpochBound
    /\ acks' = {}
    /\ UNCHANGED <<armed, call>>

\* trackedSubscribe: a plugin joins the socket, from a hook or by itself.
PluginJoin(t) ==
    /\ ud.socket = "open"
    /\ t \notin ud.subs
    /\ ~Full(ud)
    /\ ud' = [Install(ud, t) EXCEPT !.backed = IF ud.parked[t] = {} THEN @ \cup {t} ELSE @]
    /\ acks' = {}
    /\ UNCHANGED <<armed, call>>

\* trackedUnsubscribe: a plugin evicts it.
PluginLeave(t) ==
    /\ ud' = Evict(ud, {t})
    /\ EpochBound
    /\ acks' = {}
    /\ UNCHANGED <<armed, call>>

\* releaseSubscription: a rollback withdraws the authority and leaves the
\* attempts in flight their epoch.
Release(t) ==
    LET T == {t} \cup Derived[t] IN
    /\ ud.socket = "open"
    /\ ud' = [ud EXCEPT !.subs = @ \ T, !.native = @ \ T,
                        !.count = @ - Cardinality(ud.subs \cap T),
                        !.entry = [s \in Topics |-> IF s \in T THEN [@[s] EXCEPT !.granted = FALSE]
                                                              ELSE @[s]],
                        !.backed = @ \ T]
    /\ acks' = {}
    /\ UNCHANGED <<armed, call>>

\* authorizeWireSubscribe() latches.
Arm ==
    /\ ~armed
    /\ armed' = TRUE
    /\ acks' = {}
    /\ UNCHANGED <<ud, call>>

\* The socket leaves OPEN; its close handler runs later.
Disconnect ==
    /\ ud.socket = "open"
    /\ ud' = [ud EXCEPT !.socket = "closing"]
    /\ acks' = {}
    /\ UNCHANGED <<armed, call>>

\* Slip: the close does not settle what it released.
CloseUnsettled ==
    /\ ud.socket = "closing"
    /\ ud' = [ud EXCEPT !.socket = "closed", !.native = {}]
    /\ acks' = {}
    /\ UNCHANGED <<armed, call>>

\* The close handler settles the registry and keeps the Set as its snapshot.
CloseConnection ==
    /\ ud.socket = "closing"
    /\ ud' = [ud EXCEPT !.socket = "closed", !.count = @ - Cardinality(ud.subs),
                        !.native = {}]
    /\ acks' = {}
    /\ UNCHANGED <<armed, call>>

Next ==
    \/ \E a \in Attempts, t \in Topics, recover \in BOOLEAN : WireSubscribe(a, t, recover)
    \/ \E a \in Attempts, b \in Batches, recover \in SUBSET Topics : WireBatch(a, b, recover)
    \/ \E a \in Attempts, t \in Topics : PlatformSubscribe(a, t) \/ AuthorizeDerived(a, t)
    \/ \E a \in Attempts : HookReturns(a) \/ ResumeReturns(a)
    \/ \E t \in Topics : \/ PlatformUnsubscribe(t) \/ WireUnsubscribe(t)
                         \/ PluginJoin(t) \/ PluginLeave(t) \/ Release(t)
    \/ Arm \/ Disconnect \/ CloseConnection

Spec == Init /\ [][Next]_vars

-----------------------------------------------------------------------------
(* Properties                                                              *)

Landed(a) == call[a].stage # "idle" /\ call'[a].stage = "idle"

\* When nothing is in flight for a topic any more, a membership of it has
\* authority behind it: whatever a revoked or denied attempt's own hook
\* installed has been unwound by the last one to leave.
NoOrphanMembership ==
    ud.socket = "open" =>
        \A t \in ud.subs : ud.parked[t] = {} => t \in ud.backed

\* The books agree at every moment of the interleaving: the native membership,
\* the logical one and the accountant's counter while the socket is open, the
\* pending record with what is really in flight, and nothing left charged or
\* charged again by what lands after the close; and no membership is an orphan.
AccountsExact ==
    /\ TypeOK
    /\ NoOrphanMembership
    /\ ud.socket = "open" =>
        /\ ud.native = ud.subs
        /\ \A t \in Topics : ud.entry[t].inflight = Cardinality(ud.parked[t])
        /\ ud.total = Cardinality(UNION {ud.parked[t] : t \in Topics})
    /\ ud.count = IF ud.socket = "closed" THEN 0 ELSE Cardinality(ud.subs)

\* A subscriber told "subscribed" is a member, by an authority that no
\* revocation has overtaken; or a tap of a topic that a denial of the same
\* frame took away after the answer.
AcksAreTruthful ==
    [][\A t \in acks' :
        \/ t \in ud'.subs \cap ud'.backed
        \/ \E b \in ud.subs \ ud'.subs : t \in Derived[b]]_vars

\* The landing installs t only for an item the hook allowed, begun after the last
\* revocation, and never through an armed gate or for a topic whose plugin has
\* to do it.
Entitled(a, t) ==
    \E i \in DOMAIN call[a].items :
        LET it == call[a].items[i] IN
        /\ it.topic = t /\ it.id \notin ud.stale /\ ~it.gated
        /\ call[a].lane \in {"wire", "batch"} => ~armed /\ t \notin PluginOwned

\* A landing acts on what is true when it lands: it installs only what its
\* attempt is still entitled to, and takes away nothing that another authority
\* stands behind, observer taps of an unwound topic excepted.
LandingsActOnTheMoment ==
    [][\A a \in Attempts : Landed(a) =>
        /\ \A t \in ud'.subs \ ud.subs : Entitled(a, t)
        /\ \A t \in ud.backed \ ud'.subs :
               \E b \in ud.subs \ ud'.subs : t \in Derived[b]]_vars

\* The resume hook is handed a topic's history only for an attempt that may
\* still subscribe, or a member in good standing.
HistoryIsEntitled ==
    [][\A a \in Attempts :
        ud.socket = "open" /\ call[a].stage = "hook" /\ call'[a].stage = "resume" =>
            \A i \in DOMAIN call'[a].items :
                LET it == call'[a].items[i] IN
                it.served =>
                    \/ it.topic \in ud.backed
                    \/ /\ it.id \notin ud.stale
                       /\ IF it.topic \in PluginOwned THEN it.topic \in ud.subs ELSE ~armed]_vars

\* caps.js and ws-symbols.js say that no lane grows a connection past
\* MAX_SUBSCRIPTIONS_PER_CONNECTION.
CapHolds == Cardinality(ud.subs) <= MaxSubs

=============================================================================
