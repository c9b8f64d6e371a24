------------------------------- MODULE RelayRing -------------------------------
(***************************************************************************)
(* The shared-memory relay ring (src/runtime/relay-ring.js): a single-     *)
(* producer single-consumer byte stream over a SharedArrayBuffer, with a   *)
(* bounded spill on the producer's side and Atomics.waitAsync on both.     *)
(*                                                                         *)
(* The two sides are threads of their own.  A step is one access to the    *)
(* shared memory together with the thread-local code around it; within a   *)
(* thread a task (a batch of writes, a resumed flush, a drain) runs to its *)
(* end before the next one starts.                                         *)
(***************************************************************************)
EXTENDS RingState

ringVars   == <<cell, writePos, readPos>>
writerVars == <<sizes, spill, age, snapshot, rest, pushed, wpc, wclosed, overflow>>
readerVars == <<rload, acc, delivered, rpc>>
vars == <<ringVars, writerVars, wwait, readerVars, rwait>>

\* Byte k of the f-th accepted frame; the first HeaderBytes carry its size.
FrameBytes(f, size) == [k \in 1..size |-> <<f, k>>]
Accepted == [f \in DOMAIN sizes |-> FrameBytes(f, sizes[f])]

Free == Cap - Used
Smaller(a, b) == IF a < b THEN a ELSE b

Init ==
  /\ cell = [i \in 0..Cap - 1 |-> <<0, 0>>]
  /\ writePos = 0 /\ readPos = 0
  /\ sizes = <<>> /\ spill = <<>> /\ age = 0 /\ snapshot = 0
  /\ rest = <<>> /\ pushed = 0 /\ wpc = "idle" /\ wwait = "none"
  /\ wclosed = FALSE /\ overflow = "none"
  /\ rload = 0 /\ acc = <<>> /\ delivered = <<>> /\ rpc = "load" /\ rwait = "none"

Woken(wait) == IF wait = "parked" THEN "woken" ELSE wait

-----------------------------------------------------------------------------
(***************************************************************************)
(* The writer                                                              *)
(***************************************************************************)

\* _push() up to the copy: n bytes of b go behind the write position.
PushCopy(b, n) ==
  cell' = [i \in 0..Cap - 1 |->
             LET k == (i + Cap - (writePos % Cap)) % Cap IN
             IF k < n THEN b[k + 1] ELSE cell[i]]

\* The read position a verdict of "does not fit" was computed from.
TakeSnapshot(n, size) == snapshot' = IF n < size THEN readPos ELSE snapshot

\* Slip: close() forgets the wait.
CloseSilently ==
  /\ wclosed' = TRUE
  /\ spill' = <<>>
  /\ UNCHANGED wwait

\* close(): the spill goes, the flush wait of this side is woken.
CloseWriter ==
  /\ wclosed' = TRUE
  /\ spill' = <<>>
  /\ wwait' = Woken(wwait)

\* _overflow(): close and report the peer.
Overflow(reason) ==
  /\ overflow' = reason
  /\ CloseWriter
  /\ UNCHANGED <<age, snapshot, rest, pushed>>

TooOld == MaxAge > 0 /\ age >= MaxAge

\* A ceiling is crossed: decided before any byte of the frame is committed.
WriteRefused ==
  /\ PendingBytes > 0
  /\ \/ TooOld /\ Overflow("age")
     \/ ~TooOld /\ PendingBytes > MaxPending /\ Overflow("bytes")
  /\ wpc' = "written"
  /\ UNCHANGED <<sizes, ringVars>>

\* Slip: the byte ceiling does not count.
WriteBehindAlways(b) ==
  /\ PendingBytes > 0
  /\ ~TooOld
  /\ sizes' = Append(sizes, Len(b))
  /\ spill' = Append(spill, b)
  /\ wpc' = "arm"
  /\ UNCHANGED <<age, snapshot, rest, pushed, wclosed, overflow, wwait, ringVars>>

\* Something is queued: append behind it.
WriteBehind(b) ==
  /\ PendingBytes > 0
  /\ ~TooOld /\ PendingBytes <= MaxPending
  /\ sizes' = Append(sizes, Len(b))
  /\ spill' = Append(spill, b)
  /\ wpc' = "arm"
  /\ UNCHANGED <<age, snapshot, rest, pushed, wclosed, overflow, wwait, ringVars>>

\* Nothing is queued: load the read position, copy what fits.
WritePush(b) ==
  LET n == Smaller(Free, Len(b)) IN
  /\ PendingBytes = 0
  /\ sizes' = Append(sizes, Len(b))
  /\ PushCopy(b, n)
  /\ TakeSnapshot(n, Len(b))
  /\ pushed' = n
  /\ rest' = SubSeq(b, n + 1, Len(b))
  /\ wpc' = "store"
  /\ UNCHANGED <<spill, age, wclosed, overflow, wwait, writePos, readPos>>

\* write(), alone or as the next one of a batch.
Write(size) ==
  LET b == FrameBytes(Len(sizes) + 1, size) IN
  /\ wpc \in {"idle", "written"}
  /\ ~wclosed
  /\ Len(sizes) < MaxFrames
  /\ WriteRefused \/ WriteBehind(b) \/ WritePush(b)
  /\ UNCHANGED <<readerVars, rwait>>

\* The bytes are published; what did not fit opens the spill.
Store ==
  /\ wpc = "store"
  /\ writePos' = (writePos + pushed) % Mod
  /\ pushed' = 0
  /\ rest' = <<>>
  /\ IF rest = <<>>
     THEN wpc' = "written" /\ UNCHANGED <<spill, age>>
     ELSE wpc' = "arm" /\ spill' = <<rest>> /\ age' = 0
  /\ UNCHANGED <<cell, readPos, sizes, snapshot, wclosed, overflow, wwait, readerVars, rwait>>

\* Slip: the wait registers against a fresh load of the read position.
ArmOnFresh ==
  wwait' = IF wwait # "none" \/ wclosed THEN wwait ELSE "parked"

\* _armFlush(): waitAsync compares with the position the failed push observed;
\* on a mismatch a microtask retries.
ArmFlush ==
  wwait' = IF wwait # "none" \/ wclosed THEN wwait
           ELSE IF readPos = snapshot THEN "parked" ELSE "woken"

Arm ==
  /\ wpc \in {"arm", "flushArm"}
  /\ ArmFlush
  /\ wpc' = IF wpc = "arm" THEN "written" ELSE "idle"
  /\ UNCHANGED <<ringVars, sizes, spill, age, snapshot, rest, pushed, wclosed, overflow,
                 readerVars, rwait>>

\* The batch ends with one notify().
Notify ==
  /\ wpc = "written"
  /\ rwait' = Woken(rwait)
  /\ wpc' = "idle"
  /\ UNCHANGED <<ringVars, sizes, spill, age, snapshot, rest, pushed, wclosed, overflow,
                 wwait, readerVars>>

\* The flush wait resumes: _flushPending() starts with the age ceiling.
Resume ==
  /\ wpc = "idle"
  /\ wwait = "woken"
  /\ IF wclosed
     THEN wwait' = "none" /\ UNCHANGED <<wpc, wclosed, spill, overflow>>
     ELSE IF PendingBytes > 0 /\ TooOld
     THEN /\ overflow' = "age" /\ wclosed' = TRUE /\ spill' = <<>>
          /\ wwait' = "none" /\ UNCHANGED wpc
     ELSE wwait' = "none" /\ wpc' = "flush" /\ UNCHANGED <<wclosed, spill, overflow>>
  /\ UNCHANGED <<ringVars, sizes, age, snapshot, rest, pushed, readerVars, rwait>>

\* One _push() of the oldest frame in the spill.
Flush ==
  /\ wpc = "flush"
  /\ IF spill = <<>>
     THEN wpc' = "flushNotify" /\ UNCHANGED <<cell, snapshot, pushed>>
     ELSE LET b == Head(spill)
              n == Smaller(Free, Len(b))
          IN /\ PushCopy(b, n)
             /\ TakeSnapshot(n, Len(b))
             /\ pushed' = n
             /\ wpc' = IF n = 0 THEN "flushNotify" ELSE "flushStore"
  /\ UNCHANGED <<writePos, readPos, sizes, spill, age, rest, wclosed, overflow, wwait,
                 readerVars, rwait>>

\* What was pushed leaves the spill.
DropPushed ==
  spill' = IF pushed = Len(Head(spill)) THEN Tail(spill)
             ELSE <<SubSeq(Head(spill), pushed + 1, Len(Head(spill)))>> \o Tail(spill)

\* The peer made room, so it is draining: the age starts over.
FlushStore ==
  /\ wpc = "flushStore"
  /\ writePos' = (writePos + pushed) % Mod
  /\ age' = 0
  /\ pushed' = 0
  /\ DropPushed
  /\ wpc' = "flush"
  /\ UNCHANGED <<cell, readPos, sizes, snapshot, rest, wclosed, overflow, wwait, readerVars,
                 rwait>>

FlushNotify ==
  /\ wpc = "flushNotify"
  /\ rwait' = Woken(rwait)
  /\ wpc' = IF spill = <<>> THEN "idle" ELSE "flushArm"
  /\ UNCHANGED <<ringVars, sizes, spill, age, snapshot, rest, pushed, wclosed, overflow,
                 wwait, readerVars>>

\* Slip: the age is judged only when the peer has made room.
AgeOnWake ==
  /\ wpc = "idle"
  /\ ~wclosed /\ PendingBytes > 0 /\ TooOld /\ wwait = "woken"
  /\ Overflow("age")
  /\ UNCHANGED <<ringVars, sizes, wpc, readerVars, rwait>>

\* The age timer, armed while the spill is open: it re-arms itself until the
\* age is reached, so only that firing is a step.
AgeTimer ==
  /\ wpc = "idle"
  /\ ~wclosed /\ PendingBytes > 0 /\ TooOld
  /\ Overflow("age")
  /\ UNCHANGED <<ringVars, sizes, wpc, readerVars, rwait>>

Tick ==
  /\ wpc = "idle"
  /\ ~wclosed /\ PendingBytes > 0 /\ age < MaxAge
  /\ age' = age + 1
  /\ UNCHANGED <<ringVars, sizes, spill, snapshot, rest, pushed, wpc, wwait, wclosed,
                 overflow, readerVars, rwait>>

\* The owner closes the writer: the peer's thread is gone.
Close ==
  /\ wpc = "idle" /\ ~wclosed
  /\ CloseWriter
  /\ UNCHANGED <<ringVars, sizes, age, snapshot, rest, pushed, wpc, overflow, readerVars, rwait>>

-----------------------------------------------------------------------------
(***************************************************************************)
(* The reader                                                              *)
(***************************************************************************)

\* One round of _drain(): copy everything out.
Load ==
  /\ rpc = "load"
  /\ rload' = writePos
  /\ acc' = acc \o [i \in 1..Used |-> cell[(readPos + i - 1) % Cap]]
  /\ rpc' = IF Used = 0 THEN "arm" ELSE "free"
  /\ UNCHANGED <<ringVars, writerVars, wwait, delivered, rwait>>

\* The space is given back before the frames are parsed.
FreeSpace ==
  /\ rpc = "free"
  /\ readPos' = rload
  /\ rpc' = "wake"
  /\ UNCHANGED <<cell, writePos, writerVars, wwait, rload, acc, delivered, rwait>>

WakeWriter ==
  /\ rpc = "wake"
  /\ wwait' = Woken(wwait)
  /\ rpc' = "parse"
  /\ UNCHANGED <<ringVars, writerVars, rload, acc, delivered, rwait>>

\* The size the prefix at the front of the accumulator declares.
Declared == sizes[acc[1][1]]

\* One round of _parse(): emit a complete frame.
Emit ==
  /\ rpc = "parse" /\ Len(acc) >= HeaderBytes
  /\ Declared <= MaxFrame
  /\ Len(acc) >= Declared
  /\ delivered' = Append(delivered, SubSeq(acc, 1, Declared))
  /\ acc' = SubSeq(acc, Declared + 1, Len(acc))
  /\ UNCHANGED rpc

\* Not complete yet: drain on.
DrainOn ==
  /\ rpc = "parse"
  /\ Len(acc) >= HeaderBytes => Declared <= MaxFrame /\ Len(acc) < Declared
  /\ rpc' = "load"
  /\ UNCHANGED <<acc, delivered>>

\* The prefix declares more than this side will hold: the reader stops.
RefuseOversized ==
  /\ rpc = "parse" /\ Len(acc) >= HeaderBytes
  /\ Declared > MaxFrame
  /\ rpc' = "closed"
  /\ acc' = <<>>
  /\ UNCHANGED delivered

Parse ==
  /\ Emit \/ DrainOn \/ RefuseOversized
  /\ UNCHANGED <<ringVars, writerVars, wwait, rload, rwait>>

\* Slip: the reader waits on the position it finds now.
ArmWaitFresh ==
  /\ rpc = "arm"
  /\ rwait' = "parked"
  /\ rpc' = "idle"
  /\ UNCHANGED <<ringVars, writerVars, wwait, rload, acc, delivered>>

\* _armWait(): registered against the position the empty verdict came from.
ArmWait ==
  /\ rpc = "arm"
  /\ rwait' = IF writePos = rload THEN "parked" ELSE "woken"
  /\ rpc' = "idle"
  /\ UNCHANGED <<ringVars, writerVars, wwait, rload, acc, delivered>>

ResumeDrain ==
  /\ rwait = "woken"
  /\ rpc \in {"idle", "closed"}
  /\ rwait' = "none"
  /\ rpc' = IF rpc = "closed" THEN "closed" ELSE "load"
  /\ UNCHANGED <<ringVars, writerVars, wwait, rload, acc, delivered>>

\* The owner closes the reader, or its thread dies wherever it stands.
CloseReader ==
  /\ rpc # "closed"
  /\ rpc' = "closed"
  /\ acc' = <<>>
  /\ rwait' = Woken(rwait)
  /\ UNCHANGED <<ringVars, writerVars, wwait, rload, delivered>>

-----------------------------------------------------------------------------
WriterStep == Store \/ Arm \/ Notify \/ Resume \/ Flush \/ FlushStore \/ FlushNotify
ReaderStep == Load \/ FreeSpace \/ WakeWriter \/ Parse \/ ArmWait \/ ResumeDrain

Next ==
  \/ \E size \in FrameSizes : Write(size)
  \/ WriterStep \/ AgeTimer \/ Tick \/ Close
  \/ ReaderStep \/ CloseReader

\* Both event loops run and time passes; nothing more is ever written for sure.
Fairness == WF_vars(WriterStep) /\ WF_vars(ReaderStep) /\ WF_vars(Tick) /\ WF_vars(AgeTimer)

Spec == Init /\ [][Next]_vars
FairSpec == Spec /\ Fairness

-----------------------------------------------------------------------------
(***************************************************************************)
(* Properties                                                              *)
(***************************************************************************)

\* The ring implements the frame stream, its eventual delivery included.
Stream == INSTANCE FrameStream WITH
  Frame     <- {FrameBytes(f, n) : f \in 1..MaxFrames, n \in FrameSizes},
  accepted  <- Accepted,
  open      <- ~wclosed /\ rpc # "closed"

StreamSpec == Stream!Spec

\* A peer that is gone never leaves the producer with a spill for good: the age
\* ceiling closes it even if nothing is written any more.
StalledPeerIsReported ==
  MaxAge > 0 => (rpc = "closed" /\ PendingBytes > 0 ~> wclosed \/ PendingBytes = 0)
=============================================================================
