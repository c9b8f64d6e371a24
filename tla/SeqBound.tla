------------------------------ MODULE SeqBound ------------------------------
(***************************************************************************)
(* The bounded registry of sequence numbers of one worker                  *)
(* (utils/seq-bound.js, handler/seq-bound.js, stampSeqValue of             *)
(* utils/epoch.js, recordSeen and recordStampedSeen of handler/state.js,   *)
(* the quiet probe of the state-hash reporter in handler/realtime.js).     *)
(*                                                                         *)
(* Two ordered maps, the counters and the highest observed numbers, share  *)
(* a ceiling. A topic nobody listens to and the reporter judged quiet is   *)
(* evicted from both; its counter survives as a floor, floors that no      *)
(* longer fit as one high-water mark.                                      *)
(***************************************************************************)
EXTENDS OrderedRemoval, FiniteSets, SequencesExt, FiniteSetsExt

CONSTANTS
    Topics,
    Watched,     \* the topics that get subscribers or resume buffers
    Hash,        \* topic -> fnv32 of its name, 1.. : distinct topics may collide
    Capacity,    \* websocket.maxTopicSeqEntries
    FloorCap,
    ScanLimit,   \* SCAN_LIMIT
    Backoff,     \* BLOCKED_BACKOFF
    Foreign,     \* topic -> the numbers another authority issues
    MaxSeq       \* bound on the numbers issued

VARIABLES
    reg,        \* the two maps and the bound's own state
    latched,    \* foreignSeqRecorded
    protected,  \* topics with a subscriber or an open resume buffer
    clustered,  \* the reporter runs, and installed its probe
    prev,       \* reporterPrevSeqs: topic -> number at the last report, 0 absent
    age,        \* reports since it changed (reporterLastChanged), 2: more, -1 absent
    issued      \* history: topic -> the last number the counter issued

vars == <<reg, latched, protected, clustered, prev, age, issued>>

None == "none"
Numbers == 0..MaxSeq

ASSUME SeqBoundAssumption ==
    /\ None \notin Topics /\ Watched \subseteq Topics
    /\ ScanLimit \in Nat /\ Backoff \in Nat /\ MaxSeq \in Nat
    /\ Foreign \in [Topics -> SUBSET Numbers]

\* Slip: the floor of a topic is taken at face value, the forgotten ones never.
FloorExact(r, t) == r.floors[Hash[t]]

\* floorOf
FloorOf(r, t) == Max({r.floors[Hash[t]], r.highWater})

\* The number the counter issues next: one above the last, or above the floor.
NextNumber(r, t) == 1 + IF Contains(r.seqKeys, t) THEN r.seq[t] ELSE FloorOf(r, t)

Quiet(t) == age[t] = 2

\* A victim is neither protected nor, on a clustered worker, of unknown activity.
Evictable(t) == t \notin protected /\ (clustered => Quiet(t))

-----------------------------------------------------------------------------

\* Slip: dropping the floor map forgets the floors in it.
RecordFloorForget(r, t, last) ==
    LET floors == [r.floors EXCEPT ![Hash[t]] = Max({@, last})]
        held   == {h \in DOMAIN floors : floors[h] > 0}
    IN IF Cardinality(held) > FloorCap
       THEN [r EXCEPT !.floors = [h \in DOMAIN floors |-> 0]]
       ELSE [r EXCEPT !.floors = floors]

\* recordFloor: past its cap the floor map is absorbed by the high-water mark.
RecordFloor(r, t, last) ==
    LET floors == [r.floors EXCEPT ![Hash[t]] = Max({@, last})]
        held   == {h \in DOMAIN floors : floors[h] > 0}
    IN IF Cardinality(held) > FloorCap
       THEN [r EXCEPT !.floors = [h \in DOMAIN floors |-> 0],
                      !.highWater = Max({@} \cup {floors[h] : h \in held})]
       ELSE [r EXCEPT !.floors = floors]

\* Slip: a topic leaves the observed map only.
EvictSeen(r, t) == [r EXCEPT !.seenKeys = Without(@, {t}), !.max[t] = 0]

\* evict: out of both maps, the counter's value carried as a floor.
Evict(r, t) ==
    LET f == IF Contains(r.seqKeys, t) THEN RecordFloor(r, t, r.seq[t]) ELSE r
    IN [f EXCEPT !.seqKeys = Without(@, {t}), !.seq[t] = 0,
                 !.seenKeys = Without(@, {t}), !.max[t] = 0]

\* One pass over the front of the map: the entries passed over go to the tail,
\* the first evictable one of the window is the victim.
Pass(keys, admitted) ==
    LET others == Without(keys, {admitted})
        window == SubSeq(others, 1, Min({ScanLimit, Len(others)}))
        at     == {i \in 1..Len(window) : Evictable(window[i])}
        passed == IF at = {} THEN window ELSE SubSeq(window, 1, Min(at) - 1)
    IN [keys   |-> Without(keys, ToSet(passed)) \o passed,
        victim |-> IF at = {} THEN None ELSE window[Min(at)]]

\* Slip: a sweep that finds nothing takes the last entry it looked at.
SweepForced(keys, admitted) ==
    LET first == Pass(keys, admitted)
    IN IF first.victim # None THEN first ELSE [first EXCEPT !.victim = Last(first.keys)]

\* evictOldestUnprotected
Sweep(keys, admitted) ==
    LET first == Pass(keys, admitted)
    IN IF first.victim # None THEN first ELSE Pass(first.keys, admitted)

\* onInsert, after a topic new to the counters went in.
OnInsert(r, t) ==
    IF Len(r.seqKeys) <= Capacity THEN r
    ELSE IF r.skipSeq > 0 THEN [r EXCEPT !.skipSeq = @ - 1]
    ELSE LET s == Sweep(r.seqKeys, t)
             q == [r EXCEPT !.seqKeys = s.keys]
         IN IF s.victim = None THEN [q EXCEPT !.skipSeq = Backoff] ELSE Evict(q, s.victim)

\* onSeenInsert, the same for the observed map.
OnSeenInsert(r, t) ==
    IF Len(r.seenKeys) <= Capacity THEN r
    ELSE IF r.skipSeen > 0 THEN [r EXCEPT !.skipSeen = @ - 1]
    ELSE LET s == Sweep(r.seenKeys, t)
             q == [r EXCEPT !.seenKeys = s.keys]
         IN IF s.victim = None THEN [q EXCEPT !.skipSeen = Backoff] ELSE Evict(q, s.victim)

-----------------------------------------------------------------------------

\* recordSeen and recordStampedSeen: the latter compares once a foreign number
\* was recorded, until then the counter is the only authority.
Record(r, t, n, compare) ==
    IF Contains(r.seenKeys, t)
    THEN [r EXCEPT !.max[t] = IF compare THEN Max({@, n}) ELSE n]
    ELSE OnSeenInsert([r EXCEPT !.seenKeys = Append(@, t), !.max[t] = n], t)

\* stampSeqValue for the counter.
Stamp(r, t) ==
    LET n == NextNumber(r, t)
    IN IF Contains(r.seqKeys, t) THEN [r EXCEPT !.seq[t] = n]
       ELSE OnInsert([r EXCEPT !.seqKeys = Append(@, t), !.seq[t] = n], t)

Init ==
    /\ reg = [seqKeys |-> <<>>, seq |-> [t \in Topics |-> 0],
              seenKeys |-> <<>>, max |-> [t \in Topics |-> 0],
              floors |-> [h \in {Hash[t] : t \in Topics} |-> 0], highWater |-> 0,
              skipSeq |-> 0, skipSeen |-> 0]
    /\ latched = FALSE
    /\ protected = {}
    /\ clustered \in BOOLEAN
    /\ prev = [t \in Topics |-> 0]
    /\ age = [t \in Topics |-> -1]
    /\ issued = [t \in Topics |-> 0]

\* A publish numbered by the worker's own counter.
Publish(t) ==
    LET n == NextNumber(reg, t)
    IN /\ n <= MaxSeq
       /\ reg' = Record(Stamp(reg, t), t, n, latched)
       /\ issued' = [issued EXCEPT ![t] = n]
       /\ UNCHANGED <<latched, protected, clustered, prev, age>>

\* A relayed frame, or a publish with an explicit number: another authority's.
Observe(t, n) ==
    /\ reg' = Record(reg, t, n, TRUE)
    /\ latched' = TRUE
    /\ UNCHANGED <<protected, clustered, prev, age, issued>>

\* A subscriber or a resume buffer comes or goes.
Protect(t) ==
    /\ protected' = (protected \ {t}) \cup ({t} \ protected)
    /\ UNCHANGED <<reg, latched, clustered, prev, age, issued>>

\* One tick of reportStateHash (partitionActiveTopics).
Report ==
    /\ clustered
    /\ prev' = reg.max
    /\ age' = [t \in Topics |->
                 IF ~Contains(reg.seenKeys, t) THEN -1
                 ELSE IF prev[t] # reg.max[t] THEN 0
                 ELSE Min({age[t] + 1, 2})]
    /\ UNCHANGED <<reg, latched, protected, clustered, issued>>

Next ==
    \/ \E t \in Topics : Publish(t) \/ \E n \in Foreign[t] : Observe(t, n)
    \/ \E t \in Watched : Protect(t)
    \/ Report

Spec == Init /\ [][Next]_vars

-----------------------------------------------------------------------------

TypeOK ==
    /\ \A keys \in {reg.seqKeys, reg.seenKeys} : IsInjective(keys) /\ ToSet(keys) \subseteq Topics
    /\ \A t \in Topics : reg.seq[t] \in Numbers /\ reg.max[t] \in Numbers /\ issued[t] \in Numbers
    /\ reg.skipSeq \in 0..Backoff /\ reg.skipSeen \in 0..Backoff
    /\ prev \in [Topics -> Numbers] /\ age \in [Topics -> -1..2]
    /\ reg.highWater \in Numbers

\* The registries do not drift apart: a topic with a counter is observed, at no
\* less than the counter, and an absent topic holds no number.
RegistriesAgree ==
    \A t \in Topics :
        /\ Contains(reg.seqKeys, t) => Contains(reg.seenKeys, t) /\ reg.max[t] >= reg.seq[t]
        /\ ~Contains(reg.seenKeys, t) => reg.max[t] = 0

\* Whatever was evicted, collided or absorbed in between, the next number of a
\* topic is above every number this worker issued for it: a client that holds an
\* old offset never takes a new frame for one it has.
NeverRepeats ==
    /\ TypeOK
    /\ RegistriesAgree
    /\ \A t \in Topics : NextNumber(reg, t) > issued[t]

\* A topic leaves only when it is unprotected and, on a clustered worker, judged
\* quiet by the reporter; and what is observed of a topic that stays never moves
\* backward.
EvictionIsJustified ==
    [][\A t \in Topics :
        /\ Contains(reg.seenKeys, t) /\ ~Contains(reg'.seenKeys, t) => Evictable(t)
        /\ Contains(reg.seenKeys, t) /\ Contains(reg'.seenKeys, t) => reg'.max[t] >= reg.max[t]]_vars

=============================================================================
