---------------------------- MODULE ResumeCapture ----------------------------
(***************************************************************************)
(* The cut-over from replayed history to live delivery of one topic        *)
(* (handler/resume-buffer.js, captureResumeFrame of handler/state.js, the  *)
(* recover lanes of handler/realtime.js).                                  *)
(*                                                                         *)
(* A client that subscribes with an offset is first served by the resume   *)
(* hook, which reads a backend and is awaited. What is published after the *)
(* read and before the client is live is in neither; a buffer opened       *)
(* before the await holds it and is flushed when the client goes live.     *)
(***************************************************************************)
EXTENDS ResumedClients, FiniteSetsExt

vars == <<log, phase, joined, buffer, seen, missed, again, waived>>

NoBuffer == [frames |-> {}, overflow |-> FALSE, before |-> 0,
             offset |-> 0, covered |-> -1, hook |-> "none"]

Init ==
    /\ log = 0
    /\ phase = [c \in Clients |-> "away"]
    /\ joined = [c \in Clients |-> FALSE]
    /\ buffer = [c \in Clients |-> NoBuffer]
    /\ seen = [c \in Clients |-> 0]
    /\ missed = [c \in Clients |-> {}]
    /\ again = [c \in Clients |-> FALSE]
    /\ waived = [c \in Clients |-> {}]

-----------------------------------------------------------------------------
(* The client's side: it keeps the highest number as its offset and has no *)
(* other way to notice a hole.                                             *)

View(c) == [seen |-> seen[c], missed |-> missed[c], again |-> again[c]]

\* What a client holds once it was handed the frames of F, each of them once and
\* in ascending order.
Receive(v, F) ==
    LET top == Max(F \cup {v.seen}) IN
    [seen   |-> top,
     missed |-> (v.missed \cup (v.seen + 1)..top) \ F,
     again  |-> v.again \/ \E s \in F : s <= v.seen /\ s \notin v.missed]

\* A truncation marker makes it drop the offset and fetch the state afresh.
Resynced == [seen |-> log, missed |-> {}, again |-> FALSE]

SetView(c, v) ==
    /\ seen' = [seen EXCEPT ![c] = v.seen]
    /\ missed' = [missed EXCEPT ![c] = v.missed]
    /\ again' = [again EXCEPT ![c] = v.again]

-----------------------------------------------------------------------------

\* The entry with frames F and overflow mark o.
Holding(b, F, o) ==
    [frames |-> F, overflow |-> o, before |-> b.before, offset |-> b.offset,
     covered |-> b.covered, hook |-> b.hook]

\* Its hook got to h, having covered n.
HookAt(b, h, n) ==
    [frames |-> b.frames, overflow |-> b.overflow, before |-> b.before, offset |-> b.offset,
     covered |-> n, hook |-> h]

\* Slip: past the cap the frame is dropped without a word.
CaptureSilently(b, s) ==
    IF Cardinality(b.frames) >= MaxFrames THEN b ELSE Holding(b, b.frames \cup {s}, b.overflow)

\* captureResumeFrame: frames are captured, and kept, in ascending order.
Capture(b, s) ==
    IF Cardinality(b.frames) >= MaxFrames THEN Holding(b, b.frames, TRUE)
    ELSE Holding(b, b.frames \cup {s}, b.overflow)

\* Every fan-out site: to the members, and into each open buffer.
Publish ==
    /\ log < MaxLogged
    /\ log' = log + 1
    /\ LET to == {c \in Clients : joined[c] /\ phase[c] \in {"resuming", "live"}}
           v  == [c \in Clients |-> IF c \in to THEN Receive(View(c), {log + 1}) ELSE View(c)]
       IN /\ seen' = [c \in Clients |-> v[c].seen]
          /\ missed' = [c \in Clients |-> v[c].missed]
          /\ again' = [c \in Clients |-> v[c].again]
    /\ buffer' = [c \in Clients |-> IF phase[c] = "resuming" THEN Capture(buffer[c], log + 1)
                                    ELSE buffer[c]]
    /\ UNCHANGED <<phase, joined, waived>>

\* beginResumeCapture, before the resume hook is called with the client's offset.
Begin(c) ==
    /\ phase[c] = "away"
    /\ phase' = [phase EXCEPT ![c] = "resuming"]
    /\ buffer' = [buffer EXCEPT ![c] = [frames |-> {}, overflow |-> FALSE, before |-> log,
                                        offset |-> seen[c], covered |-> -1, hook |-> "awaited"]]
    /\ UNCHANGED <<log, joined, seen, missed, again, waived>>

\* The hook reads its backend and sends what the client has missed.
HookReads(c) ==
    /\ buffer[c].hook = "awaited"
    /\ buffer' = [buffer EXCEPT ![c] = HookAt(@, "read", log)]
    /\ SetView(c, Receive(View(c), (buffer[c].offset + 1)..log))
    /\ UNCHANGED <<log, phase, joined, waived>>

\* It resolves, and may or may not report how far it went (coveredSeqFor).
HookReturns(c) ==
    /\ buffer[c].hook = "read"
    /\ \E covered \in {-1, buffer[c].covered} :
        buffer' = [buffer EXCEPT ![c] = HookAt(@, "returned", covered)]
    /\ UNCHANGED <<log, phase, joined, seen, missed, again, waived>>

\* It rejects before it read anything: logged, and the landing goes on.
HookThrows(c) ==
    /\ buffer[c].hook = "awaited"
    /\ buffer' = [buffer EXCEPT ![c] = HookAt(@, "returned", @.covered)]
    /\ waived' = [waived EXCEPT ![c] = @ \cup {"threw"}]
    /\ UNCHANGED <<log, phase, joined, seen, missed, again>>

\* A plain subscribe, or the server, installs the topic in the window.
OtherInstall(c) ==
    /\ phase[c] = "resuming"
    /\ ~joined[c]
    /\ joined' = [joined EXCEPT ![c] = TRUE]
    /\ waived' = [waived EXCEPT ![c] = @ \cup {"raced"}]
    /\ UNCHANGED <<log, phase, buffer, seen, missed, again>>

\* The topic is found held: the capture is discarded and the subscribe acked.
LandHeld(c) ==
    /\ buffer[c].hook = "returned"
    /\ joined[c]
    /\ phase' = [phase EXCEPT ![c] = "live"]
    /\ buffer' = [buffer EXCEPT ![c] = NoBuffer]
    /\ UNCHANGED <<log, joined, seen, missed, again, waived>>

\* A revocation, or the gate, refuses the landing.
LandRefused(c) ==
    /\ buffer[c].hook = "returned"
    /\ ~joined[c]
    /\ phase' = [phase EXCEPT ![c] = "away"]
    /\ buffer' = [buffer EXCEPT ![c] = NoBuffer]
    /\ UNCHANGED <<log, joined, seen, missed, again, waived>>

-----------------------------------------------------------------------------
(* flushResumeTopic. A send is taken, refused for backpressure, or throws  *)
(* because the socket is gone.                                             *)

\* Slip: the pre-window number is the floor whatever the hook reported.
FloorBefore(b) == b.before

Floor(b) == IF b.covered >= 0 THEN b.covered ELSE b.before

Held(b) == {s \in b.frames : s > Floor(b)}

\* Slip: a refused frame ends the flush and nobody is told.
NeedsSignalOverflow(b, taken) == b.overflow

\* An overflow, or a frame refused on the way, is a hole the client must know of.
NeedsSignal(b, taken) == b.overflow \/ taken # Held(b)

\* first: the marker sent ahead of an overflowed flush; taken: the frames the
\* socket took before it refused one; last: the marker sent after.
Flush(c, first, taken, last) ==
    LET b == buffer[c]
        v == Receive(View(c), taken)
        signalled == b.overflow /\ first = "taken"
        corpse == b.overflow /\ first = "throws"
        retry == NeedsSignal(b, taken) /\ ~signalled /\ ~corpse
        gone  == corpse \/ (retry /\ last # "taken")
        reset == signalled \/ (retry /\ last = "taken")
    IN /\ b.hook = "returned"
       /\ ~joined[c]
       /\ ~b.overflow => first = "taken"
       /\ ~retry => last = "taken"
       /\ corpse => taken = {}
       /\ joined' = [joined EXCEPT ![c] = ~gone]
       /\ phase' = [phase EXCEPT ![c] = IF gone THEN "closed" ELSE "live"]
       /\ buffer' = [buffer EXCEPT ![c] = NoBuffer]
       /\ SetView(c, IF reset THEN Resynced
                     ELSE [seen |-> v.seen, missed |-> v.missed,
                           again |-> IF b.covered < 0 THEN again[c] ELSE v.again])
       /\ waived' = [waived EXCEPT ![c] = IF reset THEN {} ELSE @]
       /\ UNCHANGED log

FlushResume(c) ==
    \E first, last \in {"taken", "refused", "throws"}, upto \in Held(buffer[c]) \cup {0} :
        Flush(c, first, {s \in Held(buffer[c]) : s <= upto}, last)

\* The socket goes away; a landing still awaited finds it closed and discards its
\* capture, and what the hook sends from now on is lost.
Close(c) ==
    /\ phase[c] \in {"resuming", "live"}
    /\ phase' = [phase EXCEPT ![c] = "closed"]
    /\ joined' = [joined EXCEPT ![c] = FALSE]
    /\ buffer' = [buffer EXCEPT ![c] = NoBuffer]
    /\ UNCHANGED <<log, seen, missed, again, waived>>

\* It comes back, on a new connection, with the highest number it received.
Reconnect(c) ==
    /\ phase[c] = "closed"
    /\ phase' = [phase EXCEPT ![c] = "away"]
    /\ UNCHANGED <<log, joined, buffer, seen, missed, again, waived>>

Next ==
    \/ Publish
    \/ \E c \in Clients :
        \/ Begin(c) \/ HookReads(c) \/ HookReturns(c) \/ HookThrows(c) \/ OtherInstall(c)
        \/ LandHeld(c) \/ LandRefused(c) \/ FlushResume(c)
        \/ Close(c) \/ Reconnect(c)

Spec == Init /\ [][Next]_vars

-----------------------------------------------------------------------------

\* discardResumeCapture says that on the race path "the client is live and the
\* buffered frames would be duplicates".
RacedHasNoGap ==
    \A c \in Clients : phase[c] = "live" /\ waived[c] = {"raced"} => missed[c] = {} /\ seen[c] = log

=============================================================================
