---------------------------- MODULE RelayStream ----------------------------
(***************************************************************************)
(* One topic published by one worker, as another worker audits it: the     *)
(* sender numbers the frames it hands to the relay (handler/relay.js), the *)
(* receiver keeps a watermark, a bounded record of the ordinals above its  *)
(* first hole, and reports a hole once it has outlived the grace           *)
(* (handler/state.js, recordOriginStream and takeConfirmedGaps).  A report *)
(* counts frames lost and may restart the worker that makes it.            *)
(*                                                                         *)
(* The relay is two FIFO lanes, the ring and postMessage; frames can be    *)
(* refused by the sender or lost on the way.  Time is a sequence of ticks: *)
(* a frame spends less than two of them on its lane, the grace is Grace.   *)
(*                                                                         *)
(* Abstracted: aboveRanges, a bounded array of sorted, merged ranges, is   *)
(* the set of ordinals it covers, whose maximal runs are the ranges; the   *)
(* payload; topics and origins, which are tracked independently.           *)
(***************************************************************************)
EXTENDS Integers, FiniteSets, SequencesExt, FiniteSetsExt, OrderedRemoval

CONSTANTS MaxPendingAbove,  \* MAX_PENDING_ABOVE: ordinals kept, and ranges kept
          Grace,            \* GAP_CONFIRM_MS, in ticks
          MaxOrd,           \* bound: frames numbered
          MaxQueue,         \* bound: publishes batched in one tick
          MaxUnderWay       \* bound: frames on a lane

ASSUME RelayStreamAssumption ==
    /\ MaxPendingAbove \in Nat \ {0} /\ Grace \in Nat /\ Grace >= 2
    /\ {MaxOrd, MaxQueue, MaxUnderWay} \subseteq Nat

VARIABLES queued,    \* sender: publishes in relayBatch, numbered at the flush
          ord,       \* sender: the stream's ordinal counter
          lanes,     \* [ring, port]: frames under way, each [ords, old]
          attached,  \* receiver: relayAttach.at is set
          owed,      \* the stream's birth is later than that instant
          st,        \* receiver: the tracker's entry, or NoStream
          holeAge,   \* ticks since st.holeSince; 0 without a hole
          reported,  \* history: the ordinals reported lost
          count,     \* history: the sum of the counts reported
          arrived,   \* history: the ordinals that reached the tracker
          lost,      \* history: the ordinals that never will
          forgot     \* history: the tracker has been saturated

sender == <<queued, ord>>
receiver == <<st, holeAge, arrived, forgot>>
reports == <<reported, count>>
streamVars == <<sender, lanes, attached, owed, receiver, reports, lost>>

Lane == {"ring", "port"}
Infinity == MaxOrd + 1
Lowest(S) == IF S = {} THEN Infinity ELSE Min(S)
Highest(S) == IF S = {} THEN 0 ELSE Max(S)

NoStream == [w |-> 0, hi |-> 0, above |-> {}, aboveMax |-> 0, ranged |-> {}, floor |-> Infinity]

StreamInit ==
    /\ queued = 0 /\ ord = 0
    /\ lanes = [l \in Lane |-> <<>>]
    /\ attached = FALSE /\ owed = FALSE
    /\ st = NoStream /\ holeAge = 0
    /\ reported = {} /\ count = 0 /\ arrived = {} /\ lost = {} /\ forgot = FALSE

(***************************************************************************)
(* The sender.                                                             *)
(***************************************************************************)
\* batchRelay: the publish waits for the flush of this tick.
Batch == queued' = queued + 1 /\ ord' = ord

BatchRelay ==
    /\ queued < MaxQueue /\ ord + queued < MaxOrd
    /\ Batch
    /\ UNCHANGED <<lanes, attached, owed, receiver, reports, lost>>

\* The instant the first ordinal is stamped: a tie with the attach reads as before.
Birth == IF ord = 0 /\ attached THEN owed' \in BOOLEAN ELSE owed' = owed

\* nextRelayOrdinal for each frame of the flush, in the order they go out.
Ordinals(fate) == [i \in DOMAIN fate |-> ord + i]

\* A frame goes to the ring, to postMessage when its encoding throws, or is
\* refused by the ceiling or lost by a lane.
Fate == Lane \cup {"lost"}
Frame(o) == [ords |-> o, old |-> FALSE]

FlushBatch(fate) ==
    LET ords == Ordinals(fate)
        onLane(l) == Without([i \in DOMAIN fate |-> i], {i \in DOMAIN fate : fate[i] # l}) IN
    /\ queued > 0 /\ Len(fate) = queued
    /\ Birth
    /\ ord' = ord + queued
    /\ queued' = 0
    /\ lanes' = [l \in Lane |->
                    lanes[l] \o [n \in DOMAIN onLane(l) |-> Frame(<<ords[onLane(l)[n]]>>)]]
    /\ \A l \in Lane : Len(lanes'[l]) <= MaxUnderWay
    /\ lost' = lost \cup {ord + i : i \in {j \in DOMAIN fate : fate[j] = "lost"}}
    /\ UNCHANGED <<attached, receiver, reports>>

\* relayBatched: written at once, all events in one frame.
RelayBatched(n, fate) ==
    LET ords == [i \in 1..n |-> ord + i] IN
    /\ ord + n + queued <= MaxOrd
    /\ Birth
    /\ ord' = ord + n
    /\ queued' = queued
    /\ lanes' = IF fate \in Lane THEN [lanes EXCEPT ![fate] = Append(@, Frame(ords))] ELSE lanes
    /\ \A l \in Lane : Len(lanes'[l]) <= MaxUnderWay
    /\ lost' = IF fate \in Lane THEN lost ELSE lost \cup ToSet(ords)
    /\ UNCHANGED <<attached, receiver, reports>>

(***************************************************************************)
(* The receiver's tracker.                                                 *)
(***************************************************************************)
\* markRelayAttached: latched last, so frames may well have arrived before it.
Attach ==
    /\ ~attached /\ attached' = TRUE
    /\ UNCHANGED <<sender, lanes, owed, receiver, reports, lost>>

\* The last of the maximal runs of a set, and how many there are.
RunStarts(S) == {o \in S : o - 1 \notin S}
TopRun(S) == {o \in S : o >= Highest(RunStarts(S))}
\* The end of the run of S that starts at o.
RunEnd(S, o) == CHOOSE e \in S : o <= e /\ (o..e) \subseteq S /\ e + 1 \notin S

\* retainAboveRange: one range too many forgets the furthest and records its floor.
Retain(s, o) ==
    LET all == s.ranged \cup {o} IN
    IF Cardinality(RunStarts(all)) <= MaxPendingAbove THEN [s EXCEPT !.ranged = all]
    ELSE [s EXCEPT !.ranged = all \ TopRun(all), !.floor = Min({@, Min(TopRun(all))})]

Saturated(s) == s.floor # Infinity
Open(s) == s.above \cup s.ranged # {}
Clean(s) == [NoStream EXCEPT !.w = s.hi, !.hi = s.hi]

\* What is left of the record above watermark w.
Above(s, w) ==
    LET a == {o \in s.above : o > w} IN
    [s EXCEPT !.w = w, !.above = a, !.ranged = {o \in @ : o > w},
              !.aboveMax = IF a = {} THEN 0 ELSE @]
\* Nothing known is outstanding: resume from all that has arrived.
Resumed(s) == IF Open(s) THEN s ELSE Clean(s)

\* Slip: a frame that plugs the hole advances the watermark by itself only.
PlugOnly(s, o) == Resumed([s EXCEPT !.w = o])
\* The next ordinal: drain what is retained right above it.
Plug(s, o) == Resumed(Above(s, RunEnd(s.above \cup s.ranged \cup {o}, o)))

\* A higher ordinal with one missing below it: keep the smallest exactly.
Buffer(s, o) ==
    IF o \in s.above \cup s.ranged THEN s
    ELSE IF Cardinality(s.above) < MaxPendingAbove
    THEN [s EXCEPT !.above = @ \cup {o}, !.aboveMax = Max({@, o})]
    ELSE IF o < s.aboveMax
    THEN LET a == (s.above \ {s.aboveMax}) \cup {o} IN
         Retain([s EXCEPT !.above = a, !.aboveMax = Max(a)], s.aboveMax)
    ELSE Retain(s, o)

\* The first sighting: a lost prefix if the stream was born after the attach.
First(o) == IF o > 1 /\ owed THEN [NoStream EXCEPT !.hi = o, !.above = {o}, !.aboveMax = o]
            ELSE [NoStream EXCEPT !.w = o, !.hi = o]

\* recordOriginStream
RecordOrdinal(s, o) ==
    IF s = NoStream THEN First(o)
    ELSE LET seen == [s EXCEPT !.hi = Max({@, o})] IN
         IF o <= s.w THEN seen
         ELSE IF o = s.w + 1 THEN Plug(seen, o)
         ELSE Buffer(seen, o)

\* holeSince after the tracker moved: a hole that becomes the blocking one is
\* dated from now, and a later arrival above an open hole leaves its age alone.
Age(before, after, age) == IF Open(after) /\ after.w = before.w THEN age ELSE 0

\* A frame's events are folded in one after the other, in one task.
Folded(s, ords) ==
    LET seen[i \in 0..Len(ords)] == IF i = 0 THEN s ELSE RecordOrdinal(seen[i - 1], ords[i])
    IN seen

Receive(l) ==
    LET f == Head(lanes[l])
        seen == Folded(st, f.ords)
        after == seen[Len(f.ords)] IN
    /\ lanes[l] # <<>>
    /\ st' = after
    /\ holeAge' = Age(st, after, holeAge)
    /\ arrived' = arrived \cup ToSet(f.ords)
    /\ forgot' = (forgot \/ \E i \in DOMAIN f.ords : Saturated(seen[i]))
    /\ lanes' = [lanes EXCEPT ![l] = Tail(@)]
    /\ UNCHANGED <<sender, attached, owed, reports, lost>>

(***************************************************************************)
(* takeConfirmedGaps.                                                      *)
(***************************************************************************)
\* Slip: the boundary ignores what the retention forgot.
BoundaryUnclamped(s) == Lowest(s.above \cup s.ranged)
\* The first arrival above the hole, clamped by the lowest forgotten one.
Boundary(s) == Min({Lowest(s.above \cup s.ranged), s.floor})

\* Slip: the report consumes every retained arrival with the first run.
ConsumeAll(s) == Clean(s)
\* The reported hole and its bounding run are consumed; a saturated tracker
\* can judge nothing above its report and starts over.
Consume(s) ==
    IF Saturated(s) THEN Clean(s)
    ELSE LET kept == s.above \cup s.ranged IN
         Resumed(Above(s, RunEnd(kept, Min(kept))))

ReportGap(gap) == reported' = reported \cup gap /\ count' = count + Cardinality(gap)

TakeGaps ==
    /\ Open(st) /\ holeAge >= Grace
    /\ ReportGap((st.w + 1)..(Boundary(st) - 1))
    /\ st' = Consume(st)
    /\ holeAge' = 0
    /\ UNCHANGED <<sender, lanes, attached, owed, arrived, lost, forgot>>

\* A tick: no frame stays under way for two of them.
Tick ==
    /\ \A l \in Lane : \A i \in DOMAIN lanes[l] : ~lanes[l][i].old
    /\ lanes' = [l \in Lane |-> [i \in DOMAIN lanes[l] |-> [lanes[l][i] EXCEPT !.old = TRUE]]]
    /\ holeAge' = IF Open(st) THEN Min({holeAge + 1, Grace}) ELSE 0
    /\ UNCHANGED <<sender, attached, owed, st, arrived, forgot, reports, lost>>

StreamNext ==
    \/ BatchRelay
    \/ \E fate \in UNION {[1..n -> Fate] : n \in 1..MaxQueue} : FlushBatch(fate)
    \/ \E n \in 1..2, fate \in Fate : RelayBatched(n, fate)
    \/ Attach
    \/ \E l \in Lane : Receive(l)
    \/ TakeGaps
    \/ Tick

StreamSpec == StreamInit /\ [][StreamNext]_streamVars

(***************************************************************************)
(* Properties.                                                             *)
(***************************************************************************)
\* Every variable stays in its type: publishes, flushes, arrivals and reports.
StreamTypeOK ==
    /\ queued \in 0..MaxQueue /\ ord \in 0..MaxOrd
    /\ \A l \in Lane : \A i \in DOMAIN lanes[l] :
          lanes[l][i].ords \in Seq(1..MaxOrd) /\ lanes[l][i].old \in BOOLEAN
    /\ attached \in BOOLEAN /\ owed \in BOOLEAN /\ forgot \in BOOLEAN
    /\ st \in [w : 0..MaxOrd, hi : 0..MaxOrd, above : SUBSET (1..MaxOrd), aboveMax : 0..MaxOrd,
               ranged : SUBSET (1..MaxOrd), floor : 1..Infinity]
    /\ holeAge \in 0..Grace
    /\ UNION {reported, arrived, lost} \subseteq 1..MaxOrd /\ count \in 0..MaxOrd

\* The record above the hole is what the retention promises: at most the bound
\* of exact ordinals and of ranges, disjoint, beyond the missing ordinal, all of
\* them arrived, and the cached maximum is the maximum (state.js:478-578).
RetentionConsistent ==
    /\ Cardinality(st.above) <= MaxPendingAbove
    /\ Cardinality(RunStarts(st.ranged)) <= MaxPendingAbove
    /\ st.above \cap st.ranged = {} /\ st.above \cup st.ranged \subseteq arrived
    /\ \A o \in st.above \cup st.ranged : o > st.w + 1
    /\ st.aboveMax = Highest(st.above)
    /\ Open(st) \/ st.w = st.hi

\* While the retention has forgotten nothing, the watermark passes an owed
\* ordinal only once it has arrived or been reported: no loss is skipped.
NothingSkipped ==
    (st # NoStream /\ owed /\ ~forgot) =>
        \A o \in 1..st.w : o \in arrived \cup reported

\* Only lost frames are reported, never one that arrived or is still under way,
\* however deep the reordering and whatever the retention forgot, and none twice:
\* a false report restarts a healthy worker, a repeated one miscounts the losses.
\* And none is skipped.
ReportsAreExact ==
    /\ StreamTypeOK
    /\ RetentionConsistent
    /\ reported \subseteq lost /\ count = Cardinality(reported)
    /\ NothingSkipped
=============================================================================
