----------------------------- MODULE UpgradeGate -----------------------------
(***************************************************************************)
(* What the gate in front of WebSocket upgrades keeps (utils/upgrade-      *)
(* admission.js, utils/connection-permit.js): slots of upgrades in flight, *)
(* permits of connections and the ring of deferred accepts, and what these *)
(* promise each other.  UpgradeAdmission says how they change.             *)
(***************************************************************************)
EXTENDS Integers, Sequences, FiniteSets, SequencesExt

CONSTANTS
    Attempts,        \* upgrade attempts
    MaxConcurrent,
    CursorMax,       \* the cursor lane's share of MaxConcurrent
    MaxConnections,
    Budget,          \* perTickBudget
    MaxDeferred

\* What the constants must satisfy: the gates are on.
ASSUME UpgradeAssumption ==
    /\ IsFiniteSet(Attempts)
    /\ {MaxConcurrent, MaxConnections, Budget} \subseteq Nat \ {0}
    /\ {CursorMax, MaxDeferred} \subseteq Nat

VARIABLES
    gate,       \* the controller's counters and what each attempt holds
    stage,      \* attempt -> "new", "hook", "deferred", "live", "gone"
    destroyed,  \* the attempts whose socket was destroyed
    ring,       \* the deferred accepts: slots, head, tail, depth
    spent,      \* perTickCount
    scheduled   \* drainScheduled

Nothing == "none"

\* The retained accepts, oldest first.
Waiting ==
    [i \in 1..ring.depth |->
        LET at == ring.head + i - 1
        IN ring.slots[IF at < MaxDeferred THEN at ELSE at - MaxDeferred]]

-----------------------------------------------------------------------------

UpgradeTypeOK ==
    /\ gate.slot \in [Attempts -> {Nothing, "main", "cursor"}]
    /\ gate.permit \in [Attempts -> {Nothing, "reserved", "carried"}]
    /\ stage \in [Attempts -> {"new", "hook", "deferred", "live", "gone"}]
    /\ ring.depth \in 0..MaxDeferred /\ spent \in 0..Budget /\ scheduled \in BOOLEAN

\* The ring holds exactly the deferred attempts, each once; a drain is scheduled
\* while any waits or the tick's budget is touched; and no later upgrade is
\* accepted at once while an earlier one waits.
DeferralIsSound ==
    /\ ring.depth = Cardinality({u \in Attempts : stage[u] = "deferred"})
    /\ ToSet(Waiting) = {u \in Attempts : stage[u] = "deferred"}
    /\ ring.depth > 0 \/ spent > 0 => scheduled
    /\ spent < Budget => ring.depth = 0

\* Whatever path an attempt takes out of the door, the counters equal what the
\* attempts hold, no ceiling is passed, an upgrade under way keeps its slot and its
\* permit while it has a socket, a connection its permit until it closes, nothing
\* that is over holds anything, and the deferral is sound.
ReservationsExact ==
    /\ UpgradeTypeOK
    /\ DeferralIsSound
    /\ gate.inFlight = Cardinality({u \in Attempts : gate.slot[u] # Nothing})
    /\ gate.cursorInFlight = Cardinality({u \in Attempts : gate.slot[u] = "cursor"})
    /\ gate.permits = Cardinality({u \in Attempts : gate.permit[u] # Nothing})
    /\ gate.inFlight <= MaxConcurrent /\ gate.cursorInFlight <= CursorMax
    /\ gate.permits <= MaxConnections
    /\ \A u \in Attempts :
        /\ stage[u] \in {"hook", "deferred"} /\ u \notin destroyed =>
              gate.slot[u] # Nothing /\ gate.permit[u] = "reserved"
        /\ stage[u] = "live" <=> gate.permit[u] = "carried"
        /\ stage[u] \in {"live", "gone"} => gate.slot[u] = Nothing

=============================================================================
