------------------------------ MODULE RingState ------------------------------
(***************************************************************************)
(* What the shared-memory relay ring (src/runtime/relay-ring.js) consists  *)
(* of, on its two sides and between them, and what must be true of it at   *)
(* any moment.  RelayRing says how it changes.  A check that looks at      *)
(* several components extends this module and instantiates RelayRing.      *)
(***************************************************************************)
EXTENDS Integers, Sequences

CONSTANTS
  Cap,         \* ring capacity, a power of two
  Mod,         \* the positions are integers of this modulus (2^32), a power of two
  HeaderBytes, \* bytes of the length prefix
  FrameSizes,  \* sizes of the frames written, prefix included
  MaxFrame,    \* the reader's maxFrameBytes, prefix included
  MaxPending,  \* maxPendingBytes
  MaxAge,      \* maxPendingAgeMs in ticks, 0 = Infinity
  MaxFrames    \* model bound: how many frames are written

\* What the constants must satisfy.
RingAssumption ==
  /\ Cap \in Nat \ {0} /\ Mod \in Nat /\ Cap < Mod
  /\ Mod % Cap = 0
  /\ HeaderBytes \in Nat \ {0}
  \* The prefix states the rest of the frame as an integer of 32 bits.
  /\ FrameSizes \subseteq HeaderBytes..(Mod + HeaderBytes - 1)
  /\ {MaxFrame, MaxPending, MaxAge, MaxFrames} \subseteq Nat

VARIABLES
  cell,      \* the data area
  writePos,  \* WRITE_IDX
  readPos,   \* READ_IDX
  \* the writer
  sizes,     \* sizes of the frames accepted so far (history)
  spill,     \* pending: what is left of each frame in it
  age,       \* ticks since pendingSince, counted up to MaxAge
  snapshot,  \* readSnapshot
  rest,      \* what the write in progress could not push
  pushed,    \* bytes copied into the ring and not yet published
  wpc,       \* where the writer's task stands
  wwait,     \* its flush wait: "none" (not armed), "parked" or "woken"
  wclosed,
  overflow,  \* the reason given to onOverflow
  \* the reader
  rload,     \* the WRITE_IDX its verdict was computed from
  acc,       \* bytes taken out of the ring and not yet emitted
  delivered, \* the frames given to onFrame (history)
  rpc,
  rwait

Used == (writePos + Mod - readPos) % Mod

\* The bytes in a sequence of pieces.
Bytes(pieces) ==
  LET sum[n \in 0..Len(pieces)] == IF n = 0 THEN 0 ELSE sum[n - 1] + Len(pieces[n])
  IN sum[Len(pieces)]

PendingBytes == Bytes(spill)

-----------------------------------------------------------------------------

\* Types; the positions never drift further apart than the ring is long.
RingTypeOK ==
  /\ writePos \in 0..Mod - 1 /\ readPos \in 0..Mod - 1
  /\ Used <= Cap
  /\ sizes \in Seq(FrameSizes) /\ Len(sizes) <= MaxFrames
  /\ age \in 0..MaxAge
  /\ snapshot \in 0..Mod - 1 /\ rload \in 0..Mod - 1
  /\ pushed \in 0..Cap
  /\ wpc \in {"idle", "store", "arm", "written", "flush", "flushStore", "flushNotify", "flushArm"}
  /\ rpc \in {"idle", "load", "free", "wake", "parse", "arm", "closed"}
  /\ wwait \in {"none", "parked", "woken"} /\ rwait \in {"none", "parked", "woken"}
  /\ wclosed \in BOOLEAN
  /\ overflow \in {"none", "bytes", "age"}

\* relay-ring.js:146-147: the backlog exceeds the ceiling by at most one frame.
BacklogBounded ==
  \E biggest \in FrameSizes \cup {0} :
    /\ \A n \in FrameSizes : n <= biggest
    /\ PendingBytes <= MaxPending + biggest

\* No lost wake-up: a parked reader with bytes in the ring is about to be
\* notified, a parked writer whose peer advanced is about to be notified, an
\* open spill never goes without its flush armed, and close() leaves no wait
\* parked on its side, so that nothing the wait retains outlives the worker.
NoLostWakeup ==
  /\ RingTypeOK
  /\ BacklogBounded
  /\ rwait = "parked" /\ rpc # "closed" /\ readPos # writePos =>
       wpc \notin {"idle", "flushArm"}
  /\ wwait = "parked" /\ ~wclosed /\ readPos # snapshot => rpc \in {"wake", "closed"}
  /\ PendingBytes > 0 /\ wpc = "idle" => wwait # "none"
  /\ (wclosed => wwait # "parked") /\ (rpc = "closed" => rwait # "parked")
=============================================================================
