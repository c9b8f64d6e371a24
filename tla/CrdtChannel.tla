----------------------------- MODULE CrdtChannel -----------------------------
(***************************************************************************)
(* The client's channel of one CRDT document (plugins/crdt/channel.js) and *)
(* the server's replica it is kept converged with. An author's edits apply *)
(* in order: a replica is the number of edits it has of the mount itself   *)
(* and of the others, and the later ones that wait for a missing one.      *)
(* Frames may be dropped on the way down, an update may be refused, a      *)
(* sync may fail and the connection may break at any moment.               *)
(***************************************************************************)
EXTENDS Integers, Sequences, FiniteSets, SequencesExt, FiniteSetsExt

CONSTANTS
    MaxEdits,   \* bound on the edits of the mount, and of the others
    BufferCap   \* PRESYNC_BUFFER_CAP

VARIABLES
    mine,     \* the mount's replica of its own edits: a number
    others,   \* its replica of the others' edits: [have, later]
    server,   \* the server's replica: [mine, others], others a number
    chan,     \* the channel's variables, see Unsynced
    up,       \* the connection to the server, oldest first
    down,     \* and back
    asked     \* the sync request the server works on, -1 none

vars == <<mine, others, server, chan, up, down, asked>>

Unsynced == [open |-> FALSE,       \* lastStatus is 'open'
             synced |-> FALSE, degraded |-> FALSE,
             inFlight |-> FALSE,   \* a sync of the current generation
             topic |-> FALSE,      \* wireTopic is known, frames are routed
             subscribed |-> FALSE, \* the server's side of it
             retry |-> FALSE, gap |-> FALSE,   \* retryTimer, pendingResyncTimer
             buffer |-> <<>>]      \* presyncBuffer

Nothing == [have |-> 0, later |-> {}]

Init ==
    /\ mine = 0 /\ others = Nothing
    /\ server = [mine |-> Nothing, others |-> 0]
    /\ chan = Unsynced
    /\ up = <<>> /\ down = <<>> /\ asked = -1

-----------------------------------------------------------------------------

\* Y.applyUpdate of edits a..b: what follows a gap waits for it.
Merge(r, a, b) ==
    LET all  == r.later \cup (a..b)
        upTo == Max({r.have} \cup {n \in all : (r.have + 1)..n \subseteq all})
    IN [have |-> upTo, later |-> {n \in all : n > upTo}]

MergeAll(r, frames) == FoldLeft(LAMBDA x, n : Merge(x, n, n), r, frames)

\* checkPending, after an update was applied.
Gapped(c, r) == [c EXCEPT !.gap = @ \/ r.later # {}]

\* resync: deduplicated against the one in flight.
Resync(c, queue) ==
    IF c.inFlight THEN chan' = c /\ up' = queue
    ELSE /\ chan' = [c EXCEPT !.inFlight = TRUE]
         /\ up' = IF c.open THEN Append(queue, [kind |-> "sync", from |-> others.have, to |-> 0])
                  ELSE queue

\* Slip: the first sync's missed edits are all that is uploaded.
UploadFirst(svMine) == IF mine > svMine /\ ~chan.synced
                       THEN <<[kind |-> "update", from |-> svMine + 1, to |-> mine]>> ELSE <<>>

\* What the server lacks.
Upload(svMine) == IF mine > svMine THEN <<[kind |-> "update", from |-> svMine + 1, to |-> mine]>> ELSE <<>>

-----------------------------------------------------------------------------
(* The edits.                                                              *)

\* A local edit applies at once, and goes out only while synced.
LocalEdit ==
    /\ mine < MaxEdits
    /\ mine' = mine + 1
    /\ up' = IF chan.synced THEN Append(up, [kind |-> "update", from |-> mine + 1, to |-> mine + 1]) ELSE up
    /\ UNCHANGED <<others, server, chan, down, asked>>

\* Another client's edit reaches the server and is fanned out; the frame may be
\* dropped.
OtherEdit ==
    /\ server.others < MaxEdits
    /\ server' = [server EXCEPT !.others = @ + 1]
    /\ down' \in {down} \cup IF chan.subscribed
                             THEN {Append(down, [kind |-> "frame", from |-> server.others + 1, to |-> 0])} ELSE {}
    /\ UNCHANGED <<mine, others, chan, up, asked>>

-----------------------------------------------------------------------------
(* The server (external): it applies or refuses updates and answers syncs. *)

ServerApplies ==
    /\ up # <<>> /\ Head(up).kind = "update"
    /\ server' = [server EXCEPT !.mine = Merge(@, Head(up).from, Head(up).to)]
    /\ up' = Tail(up)
    /\ UNCHANGED <<mine, others, chan, down, asked>>

ServerRefuses ==
    /\ up # <<>> /\ Head(up).kind = "update"
    /\ up' = Tail(up)
    /\ UNCHANGED <<mine, others, server, chan, down, asked>>

ServerAsked ==
    /\ up # <<>> /\ Head(up).kind = "sync"
    /\ up' = Tail(up)
    /\ asked' = Head(up).from
    /\ chan' = [chan EXCEPT !.subscribed = TRUE]
    /\ UNCHANGED <<mine, others, server, down>>

\* The reply: the edits past the client's vector, and the server's own vector.
ServerAnswers ==
    /\ asked >= 0
    /\ down' = Append(down, [kind |-> "reply", from |-> asked + 1, to |-> server.others,
                             sv |-> server.mine.have])
    /\ asked' = -1
    /\ UNCHANGED <<mine, others, server, chan, up>>

-----------------------------------------------------------------------------
(* The channel.                                                            *)

\* A frame is applied, or buffered while the first sync is in flight.
TakeFrame ==
    /\ down # <<>> /\ Head(down).kind = "frame"
    /\ down' = Tail(down)
    /\ LET n == Head(down).from
           r == Merge(others, n, n)
           full == Append(chan.buffer, n)
       IN IF chan.topic THEN others' = r /\ chan' = Gapped(chan, r)
          ELSE /\ UNCHANGED others
               /\ chan' = IF ~chan.inFlight THEN chan
                          ELSE [chan EXCEPT !.buffer = IF Len(full) > BufferCap THEN Tail(full) ELSE full]
    /\ UNCHANGED <<mine, server, up, asked>>

\* The reply is applied, then what raced it; what the server lacks goes up.
TakeReply ==
    /\ down # <<>> /\ Head(down).kind = "reply"
    /\ down' = Tail(down)
    /\ IF ~chan.inFlight THEN UNCHANGED <<others, chan, up>>
       ELSE LET m == Head(down)
                r == MergeAll(Merge(others, m.from, m.to), chan.buffer)
            IN /\ others' = r
               /\ chan' = Gapped([chan EXCEPT !.inFlight = FALSE, !.topic = TRUE, !.buffer = <<>>,
                                              !.synced = TRUE, !.degraded = FALSE, !.retry = FALSE], r)
               /\ up' = up \o Upload(m.sv)
    /\ UNCHANGED <<mine, server, asked>>

\* A sync is rejected; one sent without a connection as well.
SyncFails ==
    /\ chan.inFlight
    /\ chan' = [chan EXCEPT !.inFlight = FALSE, !.degraded = TRUE, !.retry = TRUE]
    /\ asked' = -1
    /\ up' = SelectSeq(up, LAMBDA m : m.kind # "sync")
    /\ down' = SelectSeq(down, LAMBDA m : m.kind # "reply")
    /\ UNCHANGED <<mine, others, server>>

\* Slip: a failed reconcile of a synced channel is not retried.
NeedsRetryUnsynced(c) == ~c.synced

\* What the retry timer looks at.
NeedsRetry(c) == ~c.synced \/ c.degraded \/ others.later # {}

RetryFires ==
    /\ chan.retry
    /\ LET c == [chan EXCEPT !.retry = FALSE]
       IN IF chan.open /\ NeedsRetry(chan) THEN Resync(c, up) ELSE chan' = c /\ UNCHANGED up
    /\ UNCHANGED <<mine, others, server, down, asked>>

GapFires ==
    /\ chan.gap
    /\ LET c == [chan EXCEPT !.gap = FALSE]
       IN IF others.later # {} THEN Resync(c, up) ELSE chan' = c /\ UNCHANGED up
    /\ UNCHANGED <<mine, others, server, down, asked>>

\* The background reconcile of a healthy channel.
Reconcile ==
    /\ chan.open /\ chan.synced /\ ~chan.degraded /\ ~chan.inFlight
    /\ Resync(chan, up)
    /\ UNCHANGED <<mine, others, server, down, asked>>

\* The status store leaves 'open': a new generation, whatever was under way.
Disconnect ==
    /\ chan.open
    /\ chan' = [chan EXCEPT !.open = FALSE, !.synced = FALSE, !.inFlight = FALSE, !.subscribed = FALSE]
    /\ up' = <<>> /\ down' = <<>> /\ asked' = -1
    /\ UNCHANGED <<mine, others, server>>

\* It is 'open' again: the recovery exchange, whatever hangs of the old generation.
Connect ==
    /\ ~chan.open
    /\ Resync([chan EXCEPT !.open = TRUE, !.inFlight = FALSE], <<>>)
    /\ UNCHANGED <<mine, others, server, down, asked>>

Next ==
    \/ LocalEdit \/ OtherEdit
    \/ ServerApplies \/ ServerRefuses \/ ServerAsked \/ ServerAnswers
    \/ TakeFrame \/ TakeReply \/ SyncFails
    \/ RetryFires \/ GapFires \/ Reconcile
    \/ Disconnect \/ Connect

\* Timers fire and messages move; a sync that is tried again and again succeeds
\* once, and so does an update.
Fairness ==
    /\ WF_vars(RetryFires) /\ WF_vars(GapFires) /\ WF_vars(Reconcile)
    /\ WF_vars(ServerAsked) /\ WF_vars(TakeFrame)
    /\ WF_vars(ServerApplies \/ ServerRefuses) /\ SF_vars(ServerApplies)
    /\ SF_vars(ServerAsked) /\ SF_vars(ServerAnswers) /\ SF_vars(TakeReply)

Spec == Init /\ [][Next]_vars /\ Fairness

-----------------------------------------------------------------------------

TypeOK ==
    /\ mine \in 0..MaxEdits /\ others.have \in 0..MaxEdits /\ server.others \in 0..MaxEdits
    /\ server.mine.have \in 0..mine /\ others.have <= server.others
    /\ Len(chan.buffer) <= BufferCap /\ asked \in -1..MaxEdits

Converged == others = [have |-> server.others, later |-> {}] /\ server.mine.have = mine

\* Once the connection holds and nobody edits any more, both replicas converge,
\* though the last frame of an edit was dropped, an update was refused, a reconcile
\* failed or a gap was left behind: no loss waits for a reconnect.
Converges == <>[](chan.open) => <>[]Converged

=============================================================================
