----------------------------- MODULE MessageGate -----------------------------
(***************************************************************************)
(* What the gate in front of the message hook keeps                        *)
(* (utils/message-admission.js): frames with a permit, the bounded FIFO of *)
(* those without, the counts of both, and what these promise each other.   *)
(* MessageAdmission says how they change.  A check that looks at several   *)
(* components extends this module and instantiates MessageAdmission.       *)
(***************************************************************************)
EXTENDS Integers, Sequences, FiniteSets, SequencesExt

CONSTANTS
    Conns,
    Frames,          \* frames, a model value each
    GlobalConcurrent, ConnConcurrent, MaxQueue   \* 0: no ceiling, no queue

\* What the constants must satisfy.
ASSUME MessageAssumption ==
    /\ IsFiniteSet(Frames)
    /\ {GlobalConcurrent, ConnConcurrent, MaxQueue} \subseteq Nat

VARIABLES
    frame,    \* frame -> its connection and what became of it
    active,   \* permits out, of the worker
    counts,   \* connection -> active, queued and closed
    waiting   \* the queue

Account == [frame |-> frame, active |-> active, counts |-> counts, waiting |-> waiting]

\* canStart
CanStart(a, c) ==
    /\ GlobalConcurrent = 0 \/ a.active < GlobalConcurrent
    /\ ConnConcurrent = 0 \/ a.counts[c].active < ConnConcurrent

-----------------------------------------------------------------------------

FramesOf(c, is) == {f \in Frames : frame[f].conn = c /\ frame[f].is = is}

MessageTypeOK ==
    /\ \A f \in Frames : frame[f].is \in {"unsent", "waiting", "running", "refused", "done", "cancelled"}
    /\ IsInjective(waiting) /\ Len(waiting) <= MaxQueue

\* No frame waits while it could run: a release or a close never leaves capacity
\* idle behind a frame of another connection. A later frame of a connection
\* therefore never starts before a waiting one.
NoIdleCapacity == \A f \in ToSet(waiting) : ~CanStart(Account, frame[f].conn)

\* The counts equal the permits out and the frames in the queue, worker-wide and
\* per connection, stay under their ceilings, a closed connection waits for
\* nothing, and no capacity is idle.
PermitsExact ==
    /\ MessageTypeOK
    /\ NoIdleCapacity
    /\ active = Cardinality({f \in Frames : frame[f].is = "running"})
    /\ ToSet(waiting) = {f \in Frames : frame[f].is = "waiting"}
    /\ GlobalConcurrent > 0 => active <= GlobalConcurrent
    /\ \A c \in Conns :
        /\ counts[c].active = Cardinality(FramesOf(c, "running"))
        /\ counts[c].queued = Cardinality(FramesOf(c, "waiting"))
        /\ ConnConcurrent > 0 => counts[c].active <= ConnConcurrent
        /\ counts[c].closed => counts[c].queued = 0

=============================================================================
