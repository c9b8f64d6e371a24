---------------------------- MODULE ThrottleTopics ----------------------------
(***************************************************************************)
(* What the throttle plugin (plugins/throttle/server.js) keeps per topic,  *)
(* and what it promises of the values.  Throttle says how they move.       *)
(***************************************************************************)
EXTENDS Integers, Sequences, SequencesExt

CONSTANTS
    Topic,
    Interval,    \* in ticks of the clock
    MaxTopics,   \* maxTopics
    MaxValue     \* bound on the values of a topic

\* What the constants must satisfy: an interval may be zero.
ASSUME ThrottleAssumption ==
    Interval \in Nat /\ MaxTopics \in Nat \ {0} /\ MaxValue \in Nat

VARIABLES
    mode,    \* "throttle", "debounce"
    topics,  \* the keys of the map, oldest first
    state,   \* topic -> its entry; Fresh for one that is not in the map
    newest,  \* history: topic -> the last value the caller handed over, 1..
    sent,    \* history: topic -> the last value that went out
    since,   \* history: topic -> time since the send or, debounced, the call
             \* that started its interval; Interval when none runs
    excused  \* history: topics whose publish threw, or that were cancelled

throttleVars == <<mode, topics, state, newest, sent, since, excused>>

Fresh == [timer |-> "off", left |-> 0, pending |-> 0]

-----------------------------------------------------------------------------

ThrottleTypeOK ==
    /\ mode \in {"throttle", "debounce"}
    /\ topics \in Seq(Topic) /\ IsInjective(topics) /\ Len(topics) <= MaxTopics
    /\ state \in [Topic -> [timer : {"off", "armed", "spent"}, left : 0..Interval,
                            pending : 0..MaxValue]]
    /\ newest \in [Topic -> 0..MaxValue] /\ sent \in [Topic -> 0..MaxValue]
    /\ since \in [Topic -> 0..Interval]
    /\ excused \subseteq Topic

\* "Sends the latest value at most once per interval": what waits is the newest
\* value of its topic, a later one than any sent; it waits for a timer that runs,
\* and for what is left of the interval; a value that does not wait has been sent;
\* and while an interval runs the timer keeps the next value from going out.
\* That holds across evictions, whatever was flushed or cancelled meanwhile; a
\* topic whose value threw or was cancelled is excused until its next value.  Only
\* topics in the map, at most MaxTopics, keep anything.
LatestIsDelivered ==
    /\ ThrottleTypeOK
    /\ \A t \in Topic : t \notin ToSet(topics) => state[t] = Fresh
    /\ \A t \in Topic \ excused :
        /\ IF state[t].pending = 0 THEN sent[t] = newest[t]
           ELSE /\ state[t].pending = newest[t] /\ newest[t] > sent[t]
                /\ state[t].timer = "armed"
        /\ IF state[t].timer = "armed" THEN state[t].left + since[t] = Interval
           ELSE since[t] = Interval

=============================================================================
