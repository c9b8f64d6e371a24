------------------------------ MODULE Throttle ------------------------------
(***************************************************************************)
(* The throttle plugin (plugins/throttle/server.js): per topic, a timer    *)
(* and the latest value not yet sent.  throttle() sends the first value at *)
(* once and then the latest one per interval; debounce() sends the latest  *)
(* after a quiet interval.  The publish they call may throw.               *)
(***************************************************************************)
EXTENDS ThrottleTopics, OrderedRemoval

Zero == [t \in Topic |-> 0]

Init ==
    /\ mode \in {"throttle", "debounce"}
    /\ topics = <<>>
    /\ state = [t \in Topic |-> Fresh]
    /\ newest = Zero /\ sent = Zero /\ since = [t \in Topic |-> Interval]
    /\ excused = {}

\* The entry with its timer set, and with another value pending.
Armed(value) == [timer |-> "armed", left |-> Interval, pending |-> value]
Keeping(s, value) == [timer |-> s.timer, left |-> s.left, pending |-> value]

\* clearTimer leaves the fired or cleared handle where it is.
Cleared(s, value) ==
    [timer |-> IF s.timer = "off" THEN "off" ELSE "spent", left |-> s.left, pending |-> value]

\* The entry dropped to make room: its pending value goes out early, and an
\* exception is swallowed.
Victim(t) == IF t \notin ToSet(topics) /\ Len(topics) >= MaxTopics THEN {Head(topics)} ELSE {}

\* publish(): an unknown topic may drop the oldest one first.
Publish(t, thrown) ==
    LET out     == Victim(t)
        flushed == {v \in out : state[v].pending # 0}
        leading == mode = "throttle" /\ state[t].timer = "off"
        n       == newest[t] + 1
    IN /\ n <= MaxValue
       /\ thrown \subseteq flushed \cup IF leading THEN {t} ELSE {}
       /\ topics' = IF t \in ToSet(topics) THEN topics
                    ELSE Append(Without(topics, out), t)
       /\ state' = [u \in Topic |->
            IF u \in out THEN Fresh
            ELSE IF u # t THEN state[u]
            ELSE IF leading
                 THEN IF t \in thrown THEN state[t] ELSE Armed(0)
                 ELSE IF mode = "debounce" THEN Armed(n) ELSE Keeping(state[t], n)]
       /\ newest' = [newest EXCEPT ![t] = n]
       /\ sent' = [u \in Topic |->
            IF u \in thrown THEN sent[u]
            ELSE IF u \in flushed THEN state[u].pending
            ELSE IF u = t /\ leading THEN n ELSE sent[u]]
       /\ since' = [u \in Topic |->
            IF u \in out THEN Interval
            ELSE IF u = t /\ t \notin thrown /\ (leading \/ mode = "debounce") THEN 0 ELSE since[u]]
       /\ excused' = (excused \ {t}) \cup thrown \cup IF t \in excused /\ state[t].timer = "spent"
                                                         /\ mode = "throttle" THEN {t} ELSE {}
       /\ UNCHANGED mode

\* Slip: a trailing send ends the cool-down.
FiredEndsCooling == Fresh

\* What a timer that sent the pending value leaves: throttle() cools down again.
Fired == IF mode = "throttle" THEN Armed(0) ELSE Fresh

\* The timer of t fires.  One that throws keeps its fired handle; debounce()
\* keeps the value as well.
Fire(t, throws) ==
    LET s == state[t] IN
    /\ s.timer = "armed" /\ s.left = 0
    /\ s.pending = 0 => ~throws
    /\ state' = [state EXCEPT ![t] =
         IF throws THEN Cleared(s, IF mode = "throttle" THEN 0 ELSE s.pending)
         ELSE IF s.pending # 0 THEN Fired ELSE Fresh]
    /\ topics' = IF throws \/ state'[t].timer = "armed" THEN topics
                 ELSE Without(topics, {t})
    /\ sent' = IF s.pending # 0 /\ ~throws THEN [sent EXCEPT ![t] = s.pending] ELSE sent
    /\ since' = IF s.pending # 0 /\ ~throws /\ mode = "throttle" THEN [since EXCEPT ![t] = 0] ELSE since
    /\ excused' = IF throws THEN excused \cup {t} ELSE excused
    /\ UNCHANGED <<mode, newest>>

\* flushOne, flushAll: timers are cleared and pending values published, oldest
\* first.  A publish that throws leaves every entry in the map, those it got to
\* with a cleared timer and their value, and reaches no later one.
Flush(keys, failed) ==
    LET upTo   == IF failed = 0 THEN keys ELSE SubSeq(keys, 1, failed)
        went   == {upTo[i] : i \in {j \in DOMAIN upTo : state[upTo[j]].pending # 0 /\ j # failed}}
        done   == failed = 0
    IN /\ keys # <<>> /\ failed \in 0..Len(keys)
       /\ failed # 0 => state[keys[failed]].pending # 0
       /\ topics' = IF done THEN Without(topics, ToSet(keys)) ELSE topics
       /\ state' = [u \in Topic |->
            IF u \notin ToSet(upTo) THEN state[u]
            ELSE IF done THEN Fresh ELSE Cleared(state[u], state[u].pending)]
       /\ sent' = [u \in Topic |-> IF u \in went THEN state[u].pending ELSE sent[u]]
       /\ since' = [u \in Topic |-> IF u \in ToSet(upTo) THEN Interval ELSE since[u]]
       /\ excused' = IF done THEN excused ELSE excused \cup ToSet(upTo)
       /\ UNCHANGED <<mode, newest>>

\* cancelOne, cancelAll
Cancel(keys) ==
    /\ keys # <<>>
    /\ topics' = Without(topics, ToSet(keys))
    /\ state' = [u \in Topic |-> IF u \in ToSet(keys) THEN Fresh ELSE state[u]]
    /\ since' = [u \in Topic |-> IF u \in ToSet(keys) THEN Interval ELSE since[u]]
    /\ excused' = excused \cup ToSet(keys)
    /\ UNCHANGED <<mode, newest, sent>>

Named == {topics} \cup {<<t>> : t \in ToSet(topics)}

Tick ==
    /\ \E t \in Topic : state[t].timer = "armed" /\ state[t].left > 0
    /\ state' = [t \in Topic |->
         IF state[t].timer = "armed" /\ state[t].left > 0
         THEN [timer |-> "armed", left |-> state[t].left - 1, pending |-> state[t].pending]
         ELSE state[t]]
    /\ since' = [t \in Topic |-> IF since[t] < Interval THEN since[t] + 1 ELSE Interval]
    /\ UNCHANGED <<mode, topics, newest, sent, excused>>

Next ==
    \/ \E t \in Topic, thrown \in SUBSET Topic : Publish(t, thrown)
    \/ \E t \in Topic, throws \in BOOLEAN : Fire(t, throws)
    \/ \E keys \in Named : Cancel(keys) \/ \E failed \in 0..Len(keys) : Flush(keys, failed)
    \/ Tick

Spec == Init /\ [][Next]_throttleVars

-----------------------------------------------------------------------------

\* A value accepted into the cool-down waits for a timer: the header's "then at
\* most once per interval after that (trailing edge)".
NoTopicIsDeaf ==
    mode = "throttle" => \A t \in Topic : state[t].pending > sent[t] => state[t].timer = "armed"

=============================================================================
