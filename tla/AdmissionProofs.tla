--------------------------- MODULE AdmissionProofs ---------------------------
(***************************************************************************)
(* Proofs about getting in, from both sides: the two gates of a worker,    *)
(* and the browser's connection that comes to them.  For any frames,       *)
(* connections and limits MessageAdmission counts exactly, its ceilings    *)
(* hold and no capacity is idle while a frame waits; for any upgrades the  *)
(* counters of UpgradeAdmission (as Up) equal what the attempts hold, and  *)
(* its ring the deferred ones; for any sockets and limit ClientConnection  *)
(* (as Cli) has exactly one way on.                                        *)
(*                                                                         *)
(* A call of the gate edits its account, and a release or a close then     *)
(* walks the queue.  Exact says of an account what PermitsExact says of    *)
(* the state, but for the idle capacity, and is kept by every edit; the    *)
(* walk keeps it frame by frame and leaves no capacity idle behind it.     *)
(*                                                                         *)
(* An event of the connection is a chain of changes, with status updates   *)
(* between them out of which the application may call back.  Sane is what  *)
(* holds at every link of the chain, Settled what holds at its end; a      *)
(* callback settles the connection wherever it comes.                      *)
(***************************************************************************)
EXTENDS MessageAdmission, UpgradeGate, BrowserLink, SequenceLemmas

Up == INSTANCE UpgradeAdmission
Cli == INSTANCE ClientConnection

Fate == {"unsent", "waiting", "running", "refused", "done", "cancelled"}

\* The frames of account a, of its connection c, of which it became `is`.
Being(a, is) == {f \in Frames : a.frame[f].is = is}
OfConn(a, c, is) == {f \in Frames : a.frame[f].conn = c /\ a.frame[f].is = is}

Accounts == [frame : [Frames -> [conn : Conns \cup {None}, is : Fate]], active : Int,
             counts : [Conns -> [active : Int, queued : Int, closed : BOOLEAN]],
             waiting : Seq(Frames)]

\* The queue of an account, and its counts.
QueueExact(a) ==
  /\ IsInjective(a.waiting) /\ Len(a.waiting) <= MaxQueue
  /\ ToSet(a.waiting) = Being(a, "waiting")
  /\ \A f \in Frames : a.frame[f].is \in {"waiting", "running"} => a.frame[f].conn \in Conns

CountsExact(a) ==
  /\ a.active = Cardinality(Being(a, "running"))
  /\ GlobalConcurrent > 0 => a.active <= GlobalConcurrent
  /\ \A c \in Conns :
       /\ a.counts[c].active = Cardinality(OfConn(a, c, "running"))
       /\ a.counts[c].queued = Cardinality(OfConn(a, c, "waiting"))
       /\ ConnConcurrent > 0 => a.counts[c].active <= ConnConcurrent
       /\ a.counts[c].closed => a.counts[c].queued = 0

Exact(a) == a \in Accounts /\ QueueExact(a) /\ CountsExact(a)

NoIdle(a) == \A f \in ToSet(a.waiting) : ~CanStart(a, a.frame[f].conn)

MessageInv == Exact(Account) /\ NoIdle(Account)

\* MessageAssumption, expanded.
LEMMA MessageConstants ==
  /\ IsFiniteSet(Frames)
  /\ GlobalConcurrent \in Nat /\ ConnConcurrent \in Nat /\ MaxQueue \in Nat
BY MessageAssumption DEF MessageAssumption

\* The invariant is the property with the types of what it counts.
LEMMA InvGivesExact == MessageInv => PermitsExact
<1> SUFFICES ASSUME MessageInv PROVE PermitsExact
  OBVIOUS
<1>1. /\ Account.frame = frame /\ Account.active = active /\ Account.counts = counts
      /\ Account.waiting = waiting
  BY DEF Account
<1>2. MessageTypeOK
  BY <1>1 DEF MessageInv, Exact, Accounts, QueueExact, MessageTypeOK, Fate
<1>3. NoIdleCapacity
  BY <1>1 DEF MessageInv, NoIdle, NoIdleCapacity
<1>4. \A c, is : OfConn(Account, c, is) = FramesOf(c, is)
  BY <1>1 DEF OfConn, FramesOf
<1>5. \A is : Being(Account, is) = {f \in Frames : frame[f].is = is}
  BY <1>1 DEF Being
<1>6. QueueExact(Account) /\ CountsExact(Account)
  BY DEF MessageInv, Exact
<1>7. ToSet(waiting) = {f \in Frames : frame[f].is = "waiting"}
  BY <1>1, <1>5, <1>6 DEF QueueExact
<1>8. /\ active = Cardinality({f \in Frames : frame[f].is = "running"})
      /\ GlobalConcurrent > 0 => active <= GlobalConcurrent
  BY <1>1, <1>5, <1>6 DEF CountsExact
<1>9. \A c \in Conns :
        /\ counts[c].active = Cardinality(FramesOf(c, "running"))
        /\ counts[c].queued = Cardinality(FramesOf(c, "waiting"))
        /\ ConnConcurrent > 0 => counts[c].active <= ConnConcurrent
        /\ counts[c].closed => counts[c].queued = 0
  BY <1>1, <1>4, <1>6 DEF CountsExact
<1> QED BY <1>2, <1>3, <1>7, <1>8, <1>9 DEF PermitsExact

\* A waiting frame's connection is open: a closed one has no frame in the queue.
LEMMA WaiterIsOpen ==
  ASSUME NEW a, Exact(a), NEW f \in ToSet(a.waiting)
  PROVE  /\ f \in Frames /\ a.frame[f].is = "waiting" /\ a.frame[f].conn \in Conns
         /\ ~a.counts[a.frame[f].conn].closed
<1>1. f \in Frames /\ a.frame[f].is = "waiting" /\ a.frame[f].conn \in Conns
  BY DEF Exact, QueueExact, Being
<1> DEFINE c == a.frame[f].conn
<1>2. f \in OfConn(a, c, "waiting")
  BY <1>1 DEF OfConn
<1>3. OfConn(a, c, "waiting") \in SUBSET Frames
  BY DEF OfConn
<1>4. IsFiniteSet(OfConn(a, c, "waiting"))
  BY <1>3, MessageConstants, FS_Subset
<1>5. Cardinality(OfConn(a, c, "waiting")) # 0
  BY <1>2, <1>4, FS_EmptySet
<1> QED BY <1>1, <1>5 DEF Exact, CountsExact

-----------------------------------------------------------------------------
(***************************************************************************)
(* What becomes of the counts when one frame moves                         *)
(***************************************************************************)

\* Accounts a and b agree about every frame but f.
SameBut(f, a, b) == \A g \in Frames \ {f} : b.frame[g] = a.frame[g]

\* When one frame moves, the counts of what it was and of what it is change by one.
LEMMA Moved ==
  ASSUME NEW a, NEW b, NEW f \in Frames, SameBut(f, a, b), NEW x
  PROVE  /\ Cardinality(Being(a, x)) \in Nat /\ Cardinality(Being(b, x)) \in Nat
         /\ Cardinality(Being(b, x)) = Cardinality(Being(a, x))
               + (IF b.frame[f].is = x THEN 1 ELSE 0) - (IF a.frame[f].is = x THEN 1 ELSE 0)
<1>1. /\ Being(a, x) \in SUBSET Frames /\ Being(b, x) \in SUBSET Frames
      /\ \A g \in Frames \ {f} : g \in Being(a, x) <=> g \in Being(b, x)
      /\ f \in Being(b, x) <=> b.frame[f].is = x
      /\ f \in Being(a, x) <=> a.frame[f].is = x
  BY DEF Being, SameBut
<1> QED BY <1>1, MessageConstants, DifferInOne

\* The same for the counts of one connection.
LEMMA MovedOfConn ==
  ASSUME NEW a, NEW b, NEW f \in Frames, SameBut(f, a, b), NEW d, NEW x
  PROVE  /\ Cardinality(OfConn(a, d, x)) \in Nat /\ Cardinality(OfConn(b, d, x)) \in Nat
         /\ Cardinality(OfConn(b, d, x)) = Cardinality(OfConn(a, d, x))
               + (IF b.frame[f].conn = d /\ b.frame[f].is = x THEN 1 ELSE 0)
               - (IF a.frame[f].conn = d /\ a.frame[f].is = x THEN 1 ELSE 0)
<1>1. /\ OfConn(a, d, x) \in SUBSET Frames /\ OfConn(b, d, x) \in SUBSET Frames
      /\ \A g \in Frames \ {f} : g \in OfConn(a, d, x) <=> g \in OfConn(b, d, x)
      /\ f \in OfConn(b, d, x) <=> b.frame[f].conn = d /\ b.frame[f].is = x
      /\ f \in OfConn(a, d, x) <=> a.frame[f].conn = d /\ a.frame[f].is = x
  BY DEF OfConn, SameBut
<1> QED BY <1>1, MessageConstants, DifferInOne

\* An edit that moves one frame keeps the account exact, if the permits and places
\* it counts are those it takes, and there was room.
LEMMA PutKeeps ==
  ASSUME NEW a, Exact(a), NEW f \in Frames, NEW c \in Conns, NEW is \in Fate,
         NEW permits \in Int, NEW places \in Int, NEW queue \in Seq(Frames),
         a.frame[f].is \in {"waiting", "running"} => c = a.frame[f].conn,
         permits = (IF is = "running" THEN 1 ELSE 0) - (IF a.frame[f].is = "running" THEN 1 ELSE 0),
         places  = (IF is = "waiting" THEN 1 ELSE 0) - (IF a.frame[f].is = "waiting" THEN 1 ELSE 0),
         permits > 0 => CanStart(a, c), places > 0 => ~a.counts[c].closed,
         IsInjective(queue), Len(queue) <= MaxQueue,
         ToSet(queue) = IF is = "waiting" THEN ToSet(a.waiting) \cup {f} ELSE ToSet(a.waiting) \ {f}
  PROVE  Exact(Put(a, f, c, is, permits, places, queue))
<1> DEFINE b == Put(a, f, c, is, permits, places, queue)
<1>1. a \in Accounts /\ QueueExact(a) /\ CountsExact(a)
  BY DEF Exact
<1>t. /\ a.frame \in [Frames -> [conn : Conns \cup {None}, is : Fate]]
      /\ a.active \in Int /\ a.waiting \in Seq(Frames)
      /\ a.counts \in [Conns -> [active : Int, queued : Int, closed : BOOLEAN]]
  BY <1>1 DEF Accounts
<1>3. /\ b.frame = [a.frame EXCEPT ![f] = [conn |-> c, is |-> is]]
      /\ b.active = a.active + permits
      /\ b.counts = [a.counts EXCEPT ![c] = [active |-> a.counts[c].active + permits,
                        queued |-> a.counts[c].queued + places, closed |-> a.counts[c].closed]]
      /\ b.waiting = queue
  BY DEF Put
<1>r. b = [frame |-> b.frame, active |-> b.active, counts |-> b.counts, waiting |-> b.waiting]
  BY DEF Put
<1> HIDE DEF b
<1>4. b.frame[f].conn = c /\ b.frame[f].is = is /\ SameBut(f, a, b)
  BY <1>t, <1>3 DEF SameBut
<1>5. b \in Accounts
  <2>2. b.frame \in [Frames -> [conn : Conns \cup {None}, is : Fate]]
    <3>1. [conn |-> c, is |-> is] \in [conn : Conns \cup {None}, is : Fate]
      OBVIOUS
    <3> QED BY <1>t, <1>3, <3>1
  <2>3. b.counts \in [Conns -> [active : Int, queued : Int, closed : BOOLEAN]]
    BY <1>t, <1>3
  <2>4. b.active \in Int
    BY <1>t, <1>3
  <2> QED BY <1>r, <2>2, <2>3, <2>4, <1>3 DEF Accounts
<1>6. QueueExact(b)
  <2>2. ToSet(b.waiting) = Being(b, "waiting")
    BY <1>1, <1>4, <1>3 DEF QueueExact, Being, SameBut
  <2>3. \A g \in Frames : b.frame[g].is \in {"waiting", "running"} => b.frame[g].conn \in Conns
    BY <1>1, <1>4 DEF QueueExact, SameBut
  <2> QED BY <1>3, <2>2, <2>3 DEF QueueExact
<1>7. CountsExact(b)
  <2>2. /\ b.active = Cardinality(Being(b, "running"))
        /\ GlobalConcurrent > 0 => b.active <= GlobalConcurrent
    <3>1. /\ a.active = Cardinality(Being(a, "running"))
          /\ GlobalConcurrent > 0 => a.active <= GlobalConcurrent
      BY <1>1 DEF CountsExact
    <3>2. Cardinality(Being(b, "running")) = Cardinality(Being(a, "running")) + permits
      <4>1. /\ Cardinality(Being(a, "running")) \in Nat
            /\ Cardinality(Being(b, "running")) = Cardinality(Being(a, "running"))
                  + (IF b.frame[f].is = "running" THEN 1 ELSE 0)
                  - (IF a.frame[f].is = "running" THEN 1 ELSE 0)
        BY <1>4, Moved
      <4> QED BY <4>1, <1>4
    <3>3. permits > 0 /\ GlobalConcurrent > 0 => permits = 1 /\ a.active < GlobalConcurrent
      BY MessageConstants DEF CanStart
    <3>4. permits \in {-1, 0, 1}
      OBVIOUS
    <3> QED BY <3>1, <3>2, <3>3, <3>4, <1>3, <1>t, MessageConstants
  <2>3. ASSUME NEW d \in Conns
        PROVE  /\ b.counts[d].active = Cardinality(OfConn(b, d, "running"))
               /\ b.counts[d].queued = Cardinality(OfConn(b, d, "waiting"))
               /\ ConnConcurrent > 0 => b.counts[d].active <= ConnConcurrent
               /\ b.counts[d].closed => b.counts[d].queued = 0
    <3>1. /\ a.counts[d].active = Cardinality(OfConn(a, d, "running"))
          /\ a.counts[d].queued = Cardinality(OfConn(a, d, "waiting"))
          /\ ConnConcurrent > 0 => a.counts[d].active <= ConnConcurrent
          /\ a.counts[d].closed => a.counts[d].queued = 0
      BY <1>1 DEF CountsExact
    <3>4. /\ Cardinality(OfConn(b, d, "running")) = Cardinality(OfConn(a, d, "running"))
                  + (IF c = d /\ is = "running" THEN 1 ELSE 0)
                  - (IF a.frame[f].conn = d /\ a.frame[f].is = "running" THEN 1 ELSE 0)
          /\ Cardinality(OfConn(b, d, "waiting")) = Cardinality(OfConn(a, d, "waiting"))
                  + (IF c = d /\ is = "waiting" THEN 1 ELSE 0)
                  - (IF a.frame[f].conn = d /\ a.frame[f].is = "waiting" THEN 1 ELSE 0)
          /\ Cardinality(OfConn(b, d, "waiting")) \in Nat
          /\ Cardinality(OfConn(a, d, "waiting")) \in Nat
          /\ Cardinality(OfConn(a, d, "running")) \in Nat
      <4>1. b.frame[f].conn = c /\ b.frame[f].is = is
        BY <1>4
      <4>2. \A x : /\ Cardinality(OfConn(a, d, x)) \in Nat /\ Cardinality(OfConn(b, d, x)) \in Nat
                   /\ Cardinality(OfConn(b, d, x)) = Cardinality(OfConn(a, d, x))
                        + (IF b.frame[f].conn = d /\ b.frame[f].is = x THEN 1 ELSE 0)
                        - (IF a.frame[f].conn = d /\ a.frame[f].is = x THEN 1 ELSE 0)
        BY <1>4, MovedOfConn
      <4> QED BY <4>1, <4>2
    <3>2. CASE d = c
      <4>1. /\ b.counts[d].active = a.counts[d].active + permits
            /\ b.counts[d].queued = a.counts[d].queued + places
            /\ b.counts[d].closed = a.counts[d].closed
        BY <1>3, <1>t, <3>2
      <4>2. /\ Cardinality(OfConn(b, d, "running")) = Cardinality(OfConn(a, d, "running")) + permits
            /\ Cardinality(OfConn(b, d, "waiting")) = Cardinality(OfConn(a, d, "waiting")) + places
        BY <3>4, <3>2
      <4>3. permits > 0 /\ ConnConcurrent > 0 => permits = 1 /\ a.counts[d].active < ConnConcurrent
        BY <3>2, MessageConstants DEF CanStart
      <4>4. permits \in {-1, 0, 1} /\ places \in {-1, 0, 1}
        OBVIOUS
      <4>5. a.counts[d].closed => places <= 0
        BY <3>2, <4>4
      <4>7. a.counts[d].active \in Int /\ a.counts[d].queued \in Int
        BY <1>t
      <4> QED BY <4>1, <4>2, <4>3, <4>4, <4>5, <4>7, <3>4, <3>1, MessageConstants
    <3>3. CASE d # c
      <4>1. b.counts[d] = a.counts[d]
        BY <1>3, <1>t, <3>3
      <4>2. /\ Cardinality(OfConn(b, d, "running")) = Cardinality(OfConn(a, d, "running"))
            /\ Cardinality(OfConn(b, d, "waiting")) = Cardinality(OfConn(a, d, "waiting"))
        BY <3>4, <3>3
      <4> QED BY <4>1, <4>2, <3>1
    <3> QED BY <3>2, <3>3
  <2> QED BY <2>2, <2>3 DEF CountsExact
<1> QED BY <1>5, <1>6, <1>7 DEF Exact, b

\* An edit that gives back no permit makes no room.
LEMMA PutMakesNoRoom ==
  ASSUME NEW a \in Accounts, NEW f \in Frames, NEW c \in Conns, NEW is,
         NEW permits \in Nat, NEW places, NEW queue
  PROVE  LET b == Put(a, f, c, is, permits, places, queue) IN
         /\ b.waiting = queue /\ SameBut(f, a, b)
         /\ b.frame[f].conn = c
         /\ \A d \in Conns : ~CanStart(a, d) => ~CanStart(b, d)
<1> DEFINE b == Put(a, f, c, is, permits, places, queue)
<1>t. /\ a.frame \in [Frames -> [conn : Conns \cup {None}, is : Fate]]
      /\ a.active \in Int
      /\ a.counts \in [Conns -> [active : Int, queued : Int, closed : BOOLEAN]]
  BY DEF Accounts
<1>1. /\ b.frame = [a.frame EXCEPT ![f] = [conn |-> c, is |-> is]]
      /\ b.active = a.active + permits /\ b.waiting = queue
      /\ b.counts = [a.counts EXCEPT ![c] = [active |-> a.counts[c].active + permits,
                        queued |-> a.counts[c].queued + places, closed |-> a.counts[c].closed]]
  BY DEF Put
<1> HIDE DEF b
<1>2. SameBut(f, a, b) /\ b.frame[f].conn = c
  BY <1>1, <1>t DEF SameBut
<1>3. ASSUME NEW d \in Conns, ~CanStart(a, d)
      PROVE  ~CanStart(b, d)
  <2>1. b.counts[d].active \in {a.counts[d].active, a.counts[d].active + permits}
    BY <1>1, <1>t
  <2>2. a.counts[d].active \in Int
    BY <1>t
  <2> QED BY <1>3, <2>1, <2>2, <1>1, <1>t, MessageConstants DEF CanStart
<1>4. b.waiting = queue /\ SameBut(f, a, b) /\ b.frame[f].conn = c
      /\ \A d \in Conns : ~CanStart(a, d) => ~CanStart(b, d)
  BY <1>1, <1>2, <1>3
<1> QED BY <1>4 DEF b

\* A waiting frame gets the permit there is room for.
LEMMA GrantKeeps ==
  ASSUME NEW a, Exact(a), NEW f \in ToSet(a.waiting), CanStart(a, a.frame[f].conn)
  PROVE  /\ Exact(Grant(a, f))
         /\ ToSet(Grant(a, f).waiting) = ToSet(a.waiting) \ {f}
         /\ SameBut(f, a, Grant(a, f))
         /\ \A c \in Conns : ~CanStart(a, c) => ~CanStart(Grant(a, f), c)
<1> DEFINE b == Grant(a, f)
           c == a.frame[f].conn
           q == Without(a.waiting, {f})
<1>1. a \in Accounts /\ QueueExact(a)
  BY DEF Exact
<1>2. f \in Frames /\ a.frame[f].is = "waiting" /\ c \in Conns /\ ~a.counts[c].closed
  BY WaiterIsOpen
<1>t. /\ a.frame \in [Frames -> [conn : Conns \cup {None}, is : Fate]]
      /\ a.active \in Int /\ a.waiting \in Seq(Frames)
      /\ a.counts \in [Conns -> [active : Int, queued : Int, closed : BOOLEAN]]
  BY <1>1 DEF Accounts
<1>4. /\ q \in Seq(Frames) /\ Len(q) <= Len(a.waiting)
      /\ ToSet(q) = ToSet(a.waiting) \ {f}
      /\ IsInjective(q)
  BY <1>1, <1>t, WithoutKeeps DEF QueueExact
<1>5. Len(q) <= MaxQueue
  BY <1>1, <1>4, <1>t, MessageConstants DEF QueueExact
<1>6. Exact(b)
  <2> HIDE DEF q
  <2>1. Exact(Put(a, f, c, "running", 1, -1, q))
    BY <1>2, <1>4, <1>5, PutKeeps, -1 \in Int, "running" \in Fate DEF Fate
  <2> QED BY <2>1 DEF Grant, q
<1>7. /\ b.waiting = q /\ SameBut(f, a, b)
      /\ \A d \in Conns : ~CanStart(a, d) => ~CanStart(b, d)
  <2> HIDE DEF q
  <2>1. LET p == Put(a, f, c, "running", 1, -1, q) IN
        /\ p.waiting = q /\ SameBut(f, a, p)
        /\ \A d \in Conns : ~CanStart(a, d) => ~CanStart(p, d)
    BY <1>1, <1>2, 1 \in Nat, PutMakesNoRoom
  <2> QED BY <2>1 DEF Grant, q
<1> QED BY <1>4, <1>6, <1>7

-----------------------------------------------------------------------------
(***************************************************************************)
(* The drain                                                               *)
(***************************************************************************)

\* The walk over the first k frames of the queue.
WalkUpTo(a, k, w) ==
  w = [i \in 0..k |-> IF i = 0 THEN a ELSE Visit(w[i - 1], a.waiting[i])]

\* There is such a walk, for every length.
LEMMA WalkExists ==
  ASSUME NEW a, NEW k \in Nat
  PROVE  \E w : WalkUpTo(a, k, w)
<1> DEFINE B == {m \in Nat : ~ \E w : WalkUpTo(a, m, w)}
<1>1. SUFFICES ASSUME B # {} PROVE FALSE
  OBVIOUS
<1>2. PICK m \in B : \A j \in B : m <= j
  <2>1. B \in SUBSET Nat OBVIOUS
  <2> HIDE DEF B
  <2> QED BY <1>1, <2>1, LeastNumber
<1>3. m # 0
  <2>1. WalkUpTo(a, 0, [i \in 0..0 |-> a])
    BY DEF WalkUpTo
  <2> QED BY <2>1
<1>4. m - 1 \in Nat /\ ~(m <= m - 1)
  BY <1>3
<1>5. PICK w : WalkUpTo(a, m - 1, w)
  BY <1>2, <1>4
<1> DEFINE v == Visit(w[m - 1], a.waiting[m])
           g == [i \in 0..m |-> IF i = m THEN v ELSE w[i]]
<1>6. WalkUpTo(a, m, g)
  <2> SUFFICES ASSUME NEW i \in 0..m
               PROVE  g[i] = IF i = 0 THEN a ELSE Visit(g[i - 1], a.waiting[i])
    BY DEF WalkUpTo
  <2>1. CASE i = m
    BY <2>1, <1>3, <1>4
  <2>2. CASE i # m
    <3>1. i \in 0..m-1 /\ g[i] = w[i] /\ (i # 0 => g[i - 1] = w[i - 1])
      BY <2>2, <1>4
    <3>2. w[i] = IF i = 0 THEN a ELSE Visit(w[i - 1], a.waiting[i])
      BY <3>1, <1>5 DEF WalkUpTo
    <3> QED BY <3>1, <3>2
  <2> QED BY <2>1, <2>2
<1> QED BY <1>6, <1>2

\* Drain is where that walk ends.
LEMMA DrainUnfolds ==
  ASSUME NEW a, Len(a.waiting) \in Nat
  PROVE  \E w : WalkUpTo(a, Len(a.waiting), w) /\ Drain(a) = w[Len(a.waiting)]
<1> DEFINE w == CHOOSE g : WalkUpTo(a, Len(a.waiting), g)
<1>1. WalkUpTo(a, Len(a.waiting), w)
  BY WalkExists
<1>2. Drain(a) = w[Len(a.waiting)]
  BY DEF Drain, WalkUpTo
<1> QED BY <1>1, <1>2

\* What the walk has made of account a when it has seen i frames: those it left
\* behind cannot start, those to come still wait.
Reached(a, b, i) ==
  /\ Exact(b)
  /\ ToSet(b.waiting) \subseteq ToSet(a.waiting)
  /\ \A j \in (i + 1)..Len(a.waiting) : a.waiting[j] \in ToSet(b.waiting)
  /\ \A j \in 1..i : a.waiting[j] \in ToSet(b.waiting) =>
                      ~CanStart(b, b.frame[a.waiting[j]].conn)

\* The walk comes to its next frame.
LEMMA VisitReaches ==
  ASSUME NEW a, Exact(a), NEW i \in 1..Len(a.waiting), NEW b, Reached(a, b, i - 1)
  PROVE  Reached(a, Visit(b, a.waiting[i]), i)
<1> DEFINE f == a.waiting[i]
           c == b.frame[f].conn
<1>1. a.waiting \in Seq(Frames) /\ IsInjective(a.waiting) /\ i - 1 \in Nat /\ (i - 1) + 1 = i
      /\ Len(a.waiting) \in Nat
  BY DEF Exact, Accounts, QueueExact
<1>2. Exact(b) /\ f \in ToSet(b.waiting)
  BY <1>1 DEF Reached
<1>3. f \in Frames /\ c \in Conns /\ ~b.counts[c].closed
  BY <1>2, WaiterIsOpen
<1>4. \A j \in 1..Len(a.waiting) : j # i => a.waiting[j] # f
  BY <1>1 DEF IsInjective
<1>5. CASE CanStart(b, c)
  <2> DEFINE d == Grant(b, f)
  <2>1. Visit(b, f) = d
    BY <1>3, <1>5 DEF Visit
  <2>2. /\ Exact(d) /\ ToSet(d.waiting) = ToSet(b.waiting) \ {f} /\ SameBut(f, b, d)
        /\ \A e \in Conns : ~CanStart(b, e) => ~CanStart(d, e)
    BY <1>2, <1>5, GrantKeeps
  <2> HIDE DEF d
  <2>3. ASSUME NEW j \in (i + 1)..Len(a.waiting)
        PROVE  a.waiting[j] \in ToSet(d.waiting)
    <3>1. j \in ((i - 1) + 1)..Len(a.waiting) /\ j \in 1..Len(a.waiting) /\ j # i
      BY <1>1
    <3> QED BY <3>1, <2>2, <1>4 DEF Reached
  <2>4. ASSUME NEW j \in 1..i, a.waiting[j] \in ToSet(d.waiting)
        PROVE  ~CanStart(d, d.frame[a.waiting[j]].conn)
    <3> DEFINE g == a.waiting[j]
    <3>1. g \in ToSet(b.waiting) /\ g # f
      BY <2>2, <2>4
    <3>2. j \in 1..(i - 1)
      BY <3>1, <1>1
    <3>3. ~CanStart(b, b.frame[g].conn)
      BY <3>1, <3>2 DEF Reached
    <3>4. g \in Frames /\ b.frame[g].conn \in Conns
      BY <3>1, <1>2, WaiterIsOpen
    <3>5. d.frame[g] = b.frame[g]
      BY <3>1, <3>4, <2>2 DEF SameBut
    <3> QED BY <3>3, <3>4, <3>5, <2>2
  <2> QED BY <2>1, <2>2, <2>3, <2>4 DEF Reached
<1>6. CASE ~CanStart(b, c)
  <2>1. Visit(b, f) = b
    BY <1>6 DEF Visit
  <2>2. ASSUME NEW j \in (i + 1)..Len(a.waiting)
        PROVE  a.waiting[j] \in ToSet(b.waiting)
    <3>1. j \in ((i - 1) + 1)..Len(a.waiting)
      BY <1>1
    <3> QED BY <3>1 DEF Reached
  <2>3. ASSUME NEW j \in 1..i, a.waiting[j] \in ToSet(b.waiting)
        PROVE  ~CanStart(b, b.frame[a.waiting[j]].conn)
    <3>1. CASE j = i
      BY <3>1, <1>6
    <3>2. CASE j # i
      <4>1. j \in 1..(i - 1)
        BY <3>2, <1>1
      <4> QED BY <4>1, <2>3 DEF Reached
    <3> QED BY <3>1, <3>2
  <2> QED BY <2>1, <2>2, <2>3, <1>2 DEF Reached
<1> QED BY <1>5, <1>6

\* The drain keeps the account exact and leaves no capacity idle.
LEMMA DrainKeeps ==
  ASSUME NEW a, Exact(a)
  PROVE  Exact(Drain(a)) /\ NoIdle(Drain(a))
<1> DEFINE n == Len(a.waiting)
<1>1. a.waiting \in Seq(Frames) /\ n \in Nat
  BY DEF Exact, Accounts
<1>2. ToSet(a.waiting) = {a.waiting[i] : i \in 1..n}
  BY <1>1, ToSetIs
<1>3. PICK w : WalkUpTo(a, n, w) /\ Drain(a) = w[n]
  BY <1>1, DrainUnfolds
<1>4. \A i \in 0..n : w[i] = IF i = 0 THEN a ELSE Visit(w[i - 1], a.waiting[i])
  BY <1>3 DEF WalkUpTo
<1> DEFINE B == {i \in 0..n : ~Reached(a, w[i], i)}
<1>5. ASSUME B # {} PROVE FALSE
  <2>1. PICK i \in B : \A j \in B : i <= j
    <3>1. B \in SUBSET Nat BY <1>1
    <3> HIDE DEF B
    <3> QED BY <1>5, <3>1, LeastNumber
  <2>2. CASE i = 0
    <3>1. w[0] = a
      BY <1>1, <1>4
    <3>2. \A j \in (0 + 1)..n : a.waiting[j] \in ToSet(a.waiting)
      BY <1>1, <1>2
    <3>3. Reached(a, a, 0)
      BY <3>2 DEF Reached
    <3> QED BY <2>1, <2>2, <3>1, <3>3
  <2>3. CASE i # 0
    <3>1. i \in 1..n /\ i - 1 \in 0..n /\ ~(i <= i - 1)
      BY <1>1, <2>1, <2>3
    <3>2. Reached(a, w[i - 1], i - 1)
      BY <2>1, <3>1
    <3>3. w[i] = Visit(w[i - 1], a.waiting[i])
      BY <1>4, <3>1
    <3>4. Reached(a, Visit(w[i - 1], a.waiting[i]), i)
      BY <3>1, <3>2, VisitReaches
    <3> QED BY <2>1, <3>3, <3>4
  <2> QED BY <2>2, <2>3
<1>6. Reached(a, w[n], n)
  <2>1. n \in 0..n
    BY <1>1
  <2> QED BY <2>1, <1>5
<1> DEFINE b == w[n]
<1>7. NoIdle(b)
  <2> SUFFICES ASSUME NEW f \in ToSet(b.waiting) PROVE ~CanStart(b, b.frame[f].conn)
    BY DEF NoIdle
  <2>1. PICK j \in 1..n : f = a.waiting[j]
    BY <1>2, <1>6 DEF Reached
  <2> QED BY <2>1, <1>6 DEF Reached
<1> QED BY <1>3, <1>6, <1>7 DEF Reached

-----------------------------------------------------------------------------
(***************************************************************************)
(* The calls                                                               *)
(***************************************************************************)

\* Nothing has been sent.
LEMMA MessageInit == Init => MessageInv
<1> SUFFICES ASSUME Init PROVE MessageInv
  OBVIOUS
<1> DEFINE a == Account
<1>1. /\ a.frame = [f \in Frames |-> [conn |-> None, is |-> "unsent"]]
      /\ a.active = 0 /\ a.waiting = <<>>
      /\ a.counts = [c \in Conns |-> [active |-> 0, queued |-> 0, closed |-> FALSE]]
      /\ a = [frame |-> a.frame, active |-> a.active, counts |-> a.counts, waiting |-> a.waiting]
  BY DEF Account, Init
<1> HIDE DEF a
<1>2. a \in Accounts
  <2>1. a.frame \in [Frames -> [conn : Conns \cup {None}, is : Fate]]
    BY <1>1 DEF Fate
  <2>2. a.counts \in [Conns -> [active : Int, queued : Int, closed : BOOLEAN]]
    BY <1>1
  <2>3. a.active \in Int /\ a.waiting \in Seq(Frames)
    BY <1>1
  <2> QED BY <1>1, <2>1, <2>2, <2>3 DEF Accounts
<1>3. ToSet(a.waiting) = {} /\ IsInjective(a.waiting) /\ Len(a.waiting) <= MaxQueue
  BY <1>1, MessageConstants DEF ToSet, IsInjective
<1>4. \A f \in Frames : a.frame[f].is = "unsent"
  BY <1>1
<1>5. /\ Being(a, "waiting") = {} /\ Being(a, "running") = {}
      /\ \A c \in Conns : OfConn(a, c, "waiting") = {} /\ OfConn(a, c, "running") = {}
  BY <1>4 DEF Being, OfConn
<1>6. QueueExact(a)
  BY <1>3, <1>4, <1>5 DEF QueueExact
<1>7. CountsExact(a)
  <2>1. \A c \in Conns : a.counts[c].active = 0 /\ a.counts[c].queued = 0
    BY <1>1
  <2>2. Cardinality({}) = 0
    BY FS_EmptySet
  <2>3. a.active = Cardinality(Being(a, "running")) /\ (GlobalConcurrent > 0 => a.active <= GlobalConcurrent)
    <3>1. a.active = 0
      BY <1>1
    <3>2. Cardinality(Being(a, "running")) = 0
      BY <1>5, <2>2
    <3>3. GlobalConcurrent > 0 => 0 <= GlobalConcurrent
      BY MessageConstants
    <3> QED BY <3>1, <3>2, <3>3
  <2>4. ASSUME NEW c \in Conns
        PROVE  /\ a.counts[c].active = Cardinality(OfConn(a, c, "running"))
               /\ a.counts[c].queued = Cardinality(OfConn(a, c, "waiting"))
               /\ ConnConcurrent > 0 => a.counts[c].active <= ConnConcurrent
               /\ a.counts[c].closed => a.counts[c].queued = 0
    BY <1>5, <2>1, <2>2, MessageConstants
  <2> QED BY <2>3, <2>4 DEF CountsExact
<1>8. NoIdle(a)
  BY <1>3 DEF NoIdle
<1> QED BY <1>2, <1>6, <1>7, <1>8 DEF MessageInv, Exact, a

\* The account after a call is what the call made of it.
LEMMA BecomesIs ==
  ASSUME NEW b, b \in Accounts, Becomes(b)
  PROVE  Account' = b
<1>1. /\ frame' = b.frame /\ active' = b.active /\ counts' = b.counts /\ waiting' = b.waiting
  BY DEF Becomes
<1>2. b = [frame |-> b.frame, active |-> b.active, counts |-> b.counts, waiting |-> b.waiting]
  BY DEF Accounts
<1> QED BY <1>1, <1>2 DEF Account

\* A call that ends in a drain keeps the invariant if its edit is exact.
LEMMA DrainedKeeps ==
  ASSUME NEW b, Exact(b), BecomesDrained(b)
  PROVE  MessageInv'
<1>1. Becomes(Drain(b))
  BY DEF BecomesDrained
<1>2. Exact(Drain(b)) /\ NoIdle(Drain(b))
  BY DrainKeeps
<1>3. Account' = Drain(b)
  BY <1>1, <1>2, BecomesIs DEF Exact
<1> QED BY <1>2, <1>3 DEF MessageInv

\* enter(): a permit at once, a place in the queue, or a refusal.
LEMMA EnterKeeps ==
  ASSUME MessageInv, NEW f \in Frames, NEW c \in Conns, Enter(f, c)
  PROVE  MessageInv'
<1> DEFINE a == Account
<1>1. Exact(a) /\ NoIdle(a) /\ a \in Accounts /\ QueueExact(a)
  BY DEF MessageInv, Exact
<1>2. /\ a.frame = frame /\ a.waiting = waiting /\ a.counts = counts
      /\ a.frame[f].is = "unsent"
  BY DEF Enter, Account
<1>3. waiting \in Seq(Frames) /\ IsInjective(waiting) /\ Len(waiting) <= MaxQueue
      /\ f \notin ToSet(waiting) /\ Len(waiting) \in Nat
  BY <1>1, <1>2 DEF Accounts, QueueExact, Being
<1> HIDE DEF a
<1>4. ASSUME NEW b, Exact(b), NEW queue, b.waiting = queue, SameBut(f, a, b),
             ToSet(queue) \subseteq ToSet(waiting) \cup {f},
             f \in ToSet(queue) => ~CanStart(b, b.frame[f].conn),
             \A d \in Conns : ~CanStart(a, d) => ~CanStart(b, d),
             Becomes(b)
      PROVE  MessageInv'
  <2>1. Account' = b
    BY <1>4, BecomesIs DEF Exact
  <2>2. NoIdle(b)
    <3> SUFFICES ASSUME NEW g \in ToSet(queue), g # f PROVE ~CanStart(b, b.frame[g].conn)
      BY <1>4 DEF NoIdle
    <3>1. g \in ToSet(a.waiting)
      BY <1>2, <1>4
    <3>2. g \in Frames /\ a.frame[g].conn \in Conns
      BY <3>1, <1>1, WaiterIsOpen
    <3>3. ~CanStart(a, a.frame[g].conn)
      BY <3>1, <1>1 DEF NoIdle
    <3>4. b.frame[g] = a.frame[g]
      BY <3>2, <1>4 DEF SameBut
    <3> QED BY <3>2, <3>3, <3>4, <1>4
  <2> QED BY <2>1, <2>2, <1>4 DEF MessageInv
<1>5. CASE ~counts[c].closed /\ CanStart(a, c) /\ Becomes(Put(a, f, c, "running", 1, 0, waiting))
  <2> DEFINE b == Put(a, f, c, "running", 1, 0, waiting)
  <2>0. /\ 1 = (IF "running" = "running" THEN 1 ELSE 0) - (IF a.frame[f].is = "running" THEN 1 ELSE 0)
        /\ 0 = (IF "running" = "waiting" THEN 1 ELSE 0) - (IF a.frame[f].is = "waiting" THEN 1 ELSE 0)
        /\ ToSet(waiting) = ToSet(a.waiting) \ {f}
        /\ "running" \in Fate /\ 1 \in Int /\ 0 \in Int /\ ~(0 > 0)
        /\ a.frame[f].is \notin {"waiting", "running"} /\ CanStart(a, c)
    BY <1>2, <1>3, <1>5 DEF Fate
  <2>1. Exact(b)
    BY <1>1, <1>3, <2>0, PutKeeps
  <2>2. /\ b.waiting = waiting /\ SameBut(f, a, b)
        /\ \A d \in Conns : ~CanStart(a, d) => ~CanStart(b, d)
    BY <1>1, 1 \in Nat, PutMakesNoRoom
  <2> HIDE DEF b
  <2> QED BY <2>1, <2>2, <1>3, <1>4, <1>5 DEF b
<1>6. CASE /\ ~counts[c].closed /\ ~CanStart(a, c)
           /\ Len(waiting) < MaxQueue /\ counts[c].queued < MaxQueue
           /\ Becomes(Put(a, f, c, "waiting", 0, 1, Append(waiting, f)))
  <2> DEFINE q == Append(waiting, f)
             b == Put(a, f, c, "waiting", 0, 1, q)
  <2>1. /\ q \in Seq(Frames) /\ Len(q) = Len(waiting) + 1
        /\ \A i \in 1..Len(waiting) : q[i] = waiting[i]
        /\ q[Len(waiting) + 1] = f
    BY <1>3
  <2>2. ToSet(q) = {q[i] : i \in 1..Len(q)} /\ ToSet(waiting) = {waiting[i] : i \in 1..Len(waiting)}
    BY <2>1, <1>3, ToSetIs
  <2> HIDE DEF q
  <2>3. ToSet(q) = ToSet(waiting) \cup {f}
    BY <2>1, <2>2, <1>3
  <2>4. IsInjective(q)
    <3>1. \A i \in 1..Len(waiting) : waiting[i] # f
      BY <2>2, <1>3
    <3>2. \A i, j \in 1..Len(waiting) : waiting[i] = waiting[j] => i = j
      BY <1>3 DEF IsInjective
    <3>3. \A i, j \in 1..(Len(waiting) + 1) : q[i] = q[j] => i = j
      BY <3>1, <3>2, <2>1, <1>3
    <3> QED BY <3>3, <2>1 DEF IsInjective
  <2>5. Len(q) <= MaxQueue
    BY <2>1, <1>3, <1>6, MessageConstants
  <2>6. Exact(b)
    BY <1>1, <1>2, <2>1, <2>3, <2>4, <2>5, <1>6, PutKeeps, "waiting" \in Fate DEF Fate
  <2>7. /\ b.waiting = q /\ SameBut(f, a, b) /\ b.frame[f].conn = c
        /\ \A d \in Conns : ~CanStart(a, d) => ~CanStart(b, d)
    BY <1>1, 0 \in Nat, PutMakesNoRoom
  <2>8. Becomes(b)
    BY <1>6 DEF q
  <2> HIDE DEF b
  <2> QED BY <2>3, <2>6, <2>7, <2>8, <1>4, <1>6
<1>7. CASE Becomes(Put(a, f, c, "refused", 0, 0, waiting))
  <2> DEFINE b == Put(a, f, c, "refused", 0, 0, waiting)
  <2>0. /\ 0 = (IF "refused" = "running" THEN 1 ELSE 0) - (IF a.frame[f].is = "running" THEN 1 ELSE 0)
        /\ 0 = (IF "refused" = "waiting" THEN 1 ELSE 0) - (IF a.frame[f].is = "waiting" THEN 1 ELSE 0)
        /\ ToSet(waiting) = ToSet(a.waiting) \ {f}
        /\ "refused" \in Fate /\ 0 \in Int /\ ~(0 > 0)
        /\ a.frame[f].is \notin {"waiting", "running"}
    BY <1>2, <1>3 DEF Fate
  <2>1. Exact(b)
    BY <1>1, <1>3, <2>0, PutKeeps
  <2>2. /\ b.waiting = waiting /\ SameBut(f, a, b)
        /\ \A d \in Conns : ~CanStart(a, d) => ~CanStart(b, d)
    BY <1>1, 0 \in Nat, PutMakesNoRoom
  <2> HIDE DEF b
  <2> QED BY <2>1, <2>2, <1>3, <1>4, <1>7 DEF b
<1> QED BY <1>5, <1>6, <1>7 DEF Enter, a

\* release(): the permit goes back.
LEMMA ReleaseKeeps ==
  ASSUME MessageInv, NEW f \in Frames, Release(f)
  PROVE  MessageInv'
<1> DEFINE a == Account
           c == frame[f].conn
<1>1. Exact(a) /\ a \in Accounts /\ QueueExact(a)
  BY DEF MessageInv, Exact
<1>2. a.frame = frame /\ a.waiting = waiting /\ a.frame[f].is = "running" /\ c = a.frame[f].conn
  BY DEF Release, Account
<1>3. waiting \in Seq(Frames) /\ IsInjective(waiting) /\ Len(waiting) <= MaxQueue
      /\ f \notin ToSet(waiting) /\ c \in Conns
  BY <1>1, <1>2 DEF Accounts, QueueExact, Being
<1> HIDE DEF a, c
<1>4. Exact(Put(a, f, c, "done", -1, 0, waiting))
  <2>1. "done" \in Fate /\ -1 \in Int /\ 0 \in Int /\ ~(-1 > 0) /\ ~(0 > 0)
        /\ -1 = 0 - 1 /\ 0 = 0 - 0
    BY DEF Fate
  <2>2. ToSet(waiting) = ToSet(a.waiting) \ {f}
    BY <1>2, <1>3
  <2> QED BY <1>1, <1>2, <1>3, <2>1, <2>2, PutKeeps
<1>5. Exact(Released(f)) /\ BecomesDrained(Released(f))
  BY <1>4 DEF Released, Release, a, c
<1> QED BY <1>5, DrainedKeeps

\* close(): every waiting frame of the connection leaves the queue.
LEMMA CloseKeeps ==
  ASSUME MessageInv, NEW c \in Conns, Close(c)
  PROVE  MessageInv'
<1> DEFINE a   == Account
           out == {waiting[i] : i \in Cancelled(Account, c)}
           b   == [frame   |-> [f \in Frames |-> IF f \in out THEN [conn |-> frame[f].conn, is |-> "cancelled"]
                                                 ELSE frame[f]],
                   active  |-> active,
                   counts  |-> [counts EXCEPT ![c] = [active |-> @.active, closed |-> TRUE,
                                                      queued |-> @.queued - Cardinality(out)]],
                   waiting |-> Without(waiting, out)]
<1>1. Exact(a) /\ a \in Accounts /\ QueueExact(a) /\ CountsExact(a) /\ BecomesDrained(b)
  BY DEF MessageInv, Exact, Close
<1>2. a.frame = frame /\ a.waiting = waiting /\ a.counts = counts /\ a.active = active
  BY DEF Account
<1>t. /\ frame \in [Frames -> [conn : Conns \cup {None}, is : Fate]]
      /\ active \in Int /\ waiting \in Seq(Frames)
      /\ counts \in [Conns -> [active : Int, queued : Int, closed : BOOLEAN]]
  BY <1>1, <1>2 DEF Accounts
<1>3. out = OfConn(a, c, "waiting")
  <2>1. ToSet(waiting) = {waiting[i] : i \in 1..Len(waiting)}
    BY <1>t, ToSetIs
  <2>2. out = {g \in ToSet(waiting) : frame[g].conn = c}
    BY <2>1, <1>2 DEF Cancelled
  <2>3. ToSet(waiting) = {g \in Frames : frame[g].is = "waiting"}
    BY <1>1, <1>2 DEF QueueExact, Being
  <2> QED BY <2>2, <2>3, <1>2 DEF OfConn
<1>4. /\ b.frame = [f \in Frames |-> IF f \in out THEN [conn |-> frame[f].conn, is |-> "cancelled"]
                                      ELSE frame[f]]
      /\ b.active = active /\ b.waiting = Without(waiting, out)
      /\ b.counts = [counts EXCEPT ![c] = [active |-> counts[c].active, closed |-> TRUE,
                        queued |-> counts[c].queued - Cardinality(out)]]
      /\ b = [frame |-> b.frame, active |-> b.active, counts |-> b.counts, waiting |-> b.waiting]
  OBVIOUS
<1> HIDE DEF a, b, out
<1>5. /\ out \subseteq Frames
      /\ \A f \in Frames : b.frame[f].conn = frame[f].conn
      /\ \A f \in out : frame[f].conn = c /\ frame[f].is = "waiting" /\ b.frame[f].is = "cancelled"
      /\ \A f \in Frames \ out : b.frame[f] = frame[f]
      /\ \A f \in Frames \ out : ~(frame[f].conn = c /\ frame[f].is = "waiting")
  <2>1. out = {f \in Frames : frame[f].conn = c /\ frame[f].is = "waiting"}
    BY <1>2, <1>3 DEF OfConn
  <2> QED BY <2>1, <1>4, <1>t
<1>6. /\ b.waiting \in Seq(Frames) /\ Len(b.waiting) <= Len(waiting)
      /\ ToSet(b.waiting) = ToSet(waiting) \ out /\ IsInjective(b.waiting)
  BY <1>1, <1>2, <1>t, <1>4, WithoutKeeps DEF QueueExact
<1>7. b \in Accounts
  <2>1. b.frame \in [Frames -> [conn : Conns \cup {None}, is : Fate]]
    BY <1>4, <1>t DEF Fate
  <2>2. counts[c].queued - Cardinality(out) \in Int
    <3>1. IsFiniteSet(out)
      BY <1>5, MessageConstants, FS_Subset
    <3> QED BY <3>1, FS_CardinalityType, <1>t
  <2>3. b.counts \in [Conns -> [active : Int, queued : Int, closed : BOOLEAN]]
    BY <1>4, <1>t, <2>2
  <2> QED BY <2>1, <2>3, <1>4, <1>6, <1>t DEF Accounts
<1>8. QueueExact(b)
  <2>1. ToSet(b.waiting) = Being(b, "waiting")
    BY <1>1, <1>2, <1>5, <1>6 DEF QueueExact, Being
  <2>2. Len(b.waiting) <= MaxQueue
    BY <1>1, <1>2, <1>6, <1>t, MessageConstants DEF QueueExact
  <2>3. \A g \in Frames : b.frame[g].is \in {"waiting", "running"} => b.frame[g].conn \in Conns
    BY <1>1, <1>2, <1>5 DEF QueueExact
  <2> QED BY <1>6, <2>1, <2>2, <2>3 DEF QueueExact
<1>9. CountsExact(b)
  <2>1. Being(b, "running") = Being(a, "running")
    BY <1>2, <1>5 DEF Being
  <2>2. \A d : OfConn(b, d, "running") = OfConn(a, d, "running")
    BY <1>2, <1>5 DEF OfConn
  <2>3. \A d \in Conns \ {c} : OfConn(b, d, "waiting") = OfConn(a, d, "waiting")
    BY <1>2, <1>5 DEF OfConn
  <2>4. OfConn(b, c, "waiting") = {}
    BY <1>5 DEF OfConn
  <2>5. b.counts[c].queued = 0 /\ b.counts[c].active = counts[c].active
    <3>1. counts[c].queued = Cardinality(out)
      BY <1>1, <1>2, <1>3 DEF CountsExact
    <3> QED BY <3>1, <1>4, <1>t
  <2>6. \A d \in Conns \ {c} : b.counts[d] = counts[d]
    BY <1>4, <1>t
  <2>7. b.active = Cardinality(Being(b, "running")) /\ (GlobalConcurrent > 0 => b.active <= GlobalConcurrent)
    BY <1>1, <1>2, <1>4, <2>1 DEF CountsExact
  <2>8. ASSUME NEW d \in Conns
        PROVE  /\ b.counts[d].active = Cardinality(OfConn(b, d, "running"))
               /\ b.counts[d].queued = Cardinality(OfConn(b, d, "waiting"))
               /\ ConnConcurrent > 0 => b.counts[d].active <= ConnConcurrent
               /\ b.counts[d].closed => b.counts[d].queued = 0
    <3>1. /\ counts[d].active = Cardinality(OfConn(a, d, "running"))
          /\ counts[d].queued = Cardinality(OfConn(a, d, "waiting"))
          /\ ConnConcurrent > 0 => counts[d].active <= ConnConcurrent
          /\ counts[d].closed => counts[d].queued = 0
      BY <1>1, <1>2 DEF CountsExact
    <3>2. CASE d = c
      BY <3>1, <3>2, <2>2, <2>4, <2>5, FS_EmptySet
    <3>3. CASE d # c
      BY <3>1, <3>3, <2>2, <2>3, <2>6
    <3> QED BY <3>2, <3>3
  <2> QED BY <2>7, <2>8 DEF CountsExact
<1> QED BY <1>1, <1>7, <1>8, <1>9, DrainedKeeps DEF Exact

\* Every step keeps the invariant.
LEMMA MessageNext == MessageInv /\ [Next]_vars => MessageInv'
<1> SUFFICES ASSUME MessageInv, [Next]_vars PROVE MessageInv'
  OBVIOUS
<1>1. CASE UNCHANGED vars
  BY <1>1 DEF vars, MessageInv, Account
<1>2. CASE Next
  BY <1>2, EnterKeeps, ReleaseKeeps, CloseKeeps DEF Next
<1> QED BY <1>1, <1>2

\* Whatever frames arrive, settle and are cancelled: the gate's counts are the
\* permits out and the frames in its queue, no ceiling is passed, and no frame
\* waits while it could run (message-admission.js, drain and close).
THEOREM PermitsStayExact == Spec => []PermitsExact
<1>1. MessageInv => PermitsExact
  BY InvGivesExact
<1> QED BY MessageInit, MessageNext, <1>1, PTL DEF Spec

-----------------------------------------------------------------------------
(***************************************************************************)
(* The gate of upgrades.  A call changes what one attempt holds (GateMoves *)
(* says what becomes of the counters) and what stage it is in; the ring    *)
(* changes at its ends.                                                    *)
(***************************************************************************)

SlotState == {Nothing, "main", "cursor"}
PermitState == {Nothing, "reserved", "carried"}
Stage == {"new", "hook", "deferred", "live", "gone"}

Gates == [inFlight : Int, cursorInFlight : Int, permits : Int,
          slot : [Attempts -> SlotState], permit : [Attempts -> PermitState]]

Rings == [slots : [0..(MaxDeferred - 1) -> Attempts \cup {Nothing}],
          head : Nat, tail : Nat, depth : 0..MaxDeferred]

InFlight(g) == {u \in Attempts : g.slot[u] # Nothing}
InCursorLane(g) == {u \in Attempts : g.slot[u] = "cursor"}
Permitted(g) == {u \in Attempts : g.permit[u] # Nothing}

GateExact(g) ==
  /\ g \in Gates
  /\ g.inFlight = Cardinality(InFlight(g)) /\ g.inFlight <= MaxConcurrent
  /\ g.cursorInFlight = Cardinality(InCursorLane(g)) /\ g.cursorInFlight <= CursorMax
  /\ g.permits = Cardinality(Permitted(g)) /\ g.permits <= MaxConnections

\* What an attempt holds at each stage, when the sockets in d are destroyed.
Holds(g, u, at, d) ==
  /\ at = "new" => g.slot[u] = Nothing /\ g.permit[u] = Nothing
  /\ at \in {"hook", "deferred"} =>
       /\ g.permit[u] # "carried"
       /\ u \notin d => g.slot[u] # Nothing /\ g.permit[u] = "reserved"
  /\ at = "live" => g.slot[u] = Nothing /\ g.permit[u] = "carried"
  /\ at = "gone" => g.slot[u] = Nothing /\ g.permit[u] = Nothing

\* The i-th of the retained accepts, from 0, and where it is.
At(r, i) == IF r.head + i < MaxDeferred THEN r.head + i ELSE r.head + i - MaxDeferred
Nth(r, i) == r.slots[At(r, i)]

RingExact(r, st) ==
  /\ r \in Rings
  /\ r.depth > 0 => r.head < MaxDeferred
  /\ MaxDeferred > 0 => r.head < MaxDeferred /\ r.tail = At(r, r.depth)
  /\ \A i \in 0..(r.depth - 1) : Nth(r, i) \in Attempts /\ st[Nth(r, i)] = "deferred"
  /\ \A i, j \in 0..(r.depth - 1) : Nth(r, i) = Nth(r, j) => i = j
  /\ \A u \in Attempts : st[u] = "deferred" => \E i \in 0..(r.depth - 1) : Nth(r, i) = u
  /\ r.depth = Cardinality({u \in Attempts : st[u] = "deferred"})

\* A gate, the stages of its attempts and the ring of the deferred ones.
Sound(w, d) ==
  /\ GateExact(w.gate)
  /\ w.stage \in [Attempts -> Stage]
  /\ \A u \in Attempts : Holds(w.gate, u, w.stage[u], d)
  /\ RingExact(w.ring, w.stage)

UpgradeInv ==
  /\ Sound([gate |-> gate, stage |-> stage, ring |-> ring], destroyed)
  /\ spent \in 0..Budget /\ scheduled \in BOOLEAN
  /\ ring.depth > 0 \/ spent > 0 => scheduled
  /\ spent < Budget => ring.depth = 0

\* UpgradeAssumption, expanded.
LEMMA UpgradeConstants ==
  /\ IsFiniteSet(Attempts)
  /\ MaxConcurrent \in Nat /\ MaxConnections \in Nat
  /\ Budget \in Nat /\ Budget > 0 /\ CursorMax \in Nat /\ MaxDeferred \in Nat
BY UpgradeAssumption DEF UpgradeAssumption

\* When one attempt takes or gives something, each counter moves with it.
LEMMA GateMoves ==
  ASSUME NEW g, GateExact(g), NEW u \in Attempts, NEW h \in Gates,
         NEW s \in SlotState, NEW p \in PermitState,
         h.slot = [g.slot EXCEPT ![u] = s], h.permit = [g.permit EXCEPT ![u] = p],
         h.inFlight = g.inFlight + (IF s # Nothing THEN 1 ELSE 0)
                                 - (IF g.slot[u] # Nothing THEN 1 ELSE 0),
         h.cursorInFlight = g.cursorInFlight + (IF s = "cursor" THEN 1 ELSE 0)
                                             - (IF g.slot[u] = "cursor" THEN 1 ELSE 0),
         h.permits = g.permits + (IF p # Nothing THEN 1 ELSE 0)
                               - (IF g.permit[u] # Nothing THEN 1 ELSE 0),
         h.inFlight <= MaxConcurrent, h.cursorInFlight <= CursorMax, h.permits <= MaxConnections
  PROVE  GateExact(h)
<1>1. g \in Gates
  BY DEF GateExact
<1>2. /\ \A v \in Attempts \ {u} : h.slot[v] = g.slot[v] /\ h.permit[v] = g.permit[v]
      /\ h.slot[u] = s /\ h.permit[u] = p
  BY <1>1 DEF Gates
<1>3. Cardinality(InFlight(h)) = Cardinality(InFlight(g)) + (IF s # Nothing THEN 1 ELSE 0)
                                 - (IF g.slot[u] # Nothing THEN 1 ELSE 0)
  <2>1. /\ InFlight(g) \in SUBSET Attempts /\ InFlight(h) \in SUBSET Attempts
        /\ \A v \in Attempts \ {u} : v \in InFlight(g) <=> v \in InFlight(h)
        /\ u \in InFlight(h) <=> s # Nothing
        /\ u \in InFlight(g) <=> g.slot[u] # Nothing
    BY <1>2 DEF InFlight
  <2> QED BY <2>1, DifferInOne, UpgradeConstants
<1>4. Cardinality(InCursorLane(h)) = Cardinality(InCursorLane(g)) + (IF s = "cursor" THEN 1 ELSE 0)
                                     - (IF g.slot[u] = "cursor" THEN 1 ELSE 0)
  <2>1. /\ InCursorLane(g) \in SUBSET Attempts /\ InCursorLane(h) \in SUBSET Attempts
        /\ \A v \in Attempts \ {u} : v \in InCursorLane(g) <=> v \in InCursorLane(h)
        /\ u \in InCursorLane(h) <=> s = "cursor"
        /\ u \in InCursorLane(g) <=> g.slot[u] = "cursor"
    BY <1>2 DEF InCursorLane
  <2> QED BY <2>1, DifferInOne, UpgradeConstants
<1>5. Cardinality(Permitted(h)) = Cardinality(Permitted(g)) + (IF p # Nothing THEN 1 ELSE 0)
                                  - (IF g.permit[u] # Nothing THEN 1 ELSE 0)
  <2>1. /\ Permitted(g) \in SUBSET Attempts /\ Permitted(h) \in SUBSET Attempts
        /\ \A v \in Attempts \ {u} : v \in Permitted(g) <=> v \in Permitted(h)
        /\ u \in Permitted(h) <=> p # Nothing
        /\ u \in Permitted(g) <=> g.permit[u] # Nothing
    BY <1>2 DEF Permitted
  <2> QED BY <2>1, DifferInOne, UpgradeConstants
<1> QED BY <1>3, <1>4, <1>5 DEF GateExact

\* h is g with what attempt u holds changed.
Changes(g, u, h) ==
  \A v \in Attempts \ {u} : h.slot[v] = g.slot[v] /\ h.permit[v] = g.permit[v]

\* A slot taken or given back, within the ceilings.
LEMMA SlotMoves ==
  ASSUME NEW g, GateExact(g), NEW u \in Attempts, NEW lane \in SlotState, NEW n, NEW c,
         n = g.inFlight + (IF lane # Nothing THEN 1 ELSE 0)
                        - (IF g.slot[u] # Nothing THEN 1 ELSE 0),
         c = g.cursorInFlight + (IF lane = "cursor" THEN 1 ELSE 0)
                              - (IF g.slot[u] = "cursor" THEN 1 ELSE 0),
         n <= MaxConcurrent, c <= CursorMax
  PROVE  LET h == Up!WithSlot(g, u, lane, n, c) IN
         GateExact(h) /\ Changes(g, u, h) /\ h.slot[u] = lane /\ h.permit = g.permit
<1> DEFINE h == Up!WithSlot(g, u, lane, n, c)
<1>1. /\ g \in Gates /\ g.slot \in [Attempts -> SlotState] /\ g.permit \in [Attempts -> PermitState]
      /\ g.inFlight \in Int /\ g.cursorInFlight \in Int /\ g.permits \in Int
      /\ g.permits <= MaxConnections
  BY DEF GateExact, Gates
<1>2. /\ h.slot = [g.slot EXCEPT ![u] = lane] /\ h.permit = g.permit
      /\ h.inFlight = n /\ h.permits = g.permits /\ h.cursorInFlight = c /\ h \in Gates
  BY <1>1 DEF Up!WithSlot, Gates
<1> HIDE DEF h
<1>3. GateExact(h)
  <2>1. h.permit = [g.permit EXCEPT ![u] = g.permit[u]] /\ g.permit[u] \in PermitState
    BY <1>1, <1>2
  <2>2. /\ h.inFlight <= MaxConcurrent /\ h.cursorInFlight <= CursorMax /\ h.permits <= MaxConnections
        /\ h.permits = g.permits + (IF g.permit[u] # Nothing THEN 1 ELSE 0)
                                 - (IF g.permit[u] # Nothing THEN 1 ELSE 0)
    BY <1>1, <1>2
  <2> QED BY <1>2, <2>1, <2>2, GateMoves
<1> QED BY ZenonT(60), <1>1, <1>2, <1>3 DEF Changes, h

\* A permit taken, handed over or given back, within the ceiling.
LEMMA PermitMoves ==
  ASSUME NEW g, GateExact(g), NEW u \in Attempts, NEW permit \in PermitState, NEW n,
         n = g.permits + (IF permit # Nothing THEN 1 ELSE 0)
                       - (IF g.permit[u] # Nothing THEN 1 ELSE 0),
         n <= MaxConnections
  PROVE  LET h == Up!WithPermit(g, u, permit, n) IN
         GateExact(h) /\ Changes(g, u, h) /\ h.permit[u] = permit /\ h.slot = g.slot
<1> DEFINE h == Up!WithPermit(g, u, permit, n)
<1>1. /\ g \in Gates /\ g.slot \in [Attempts -> SlotState] /\ g.permit \in [Attempts -> PermitState]
      /\ g.inFlight \in Int /\ g.cursorInFlight \in Int /\ g.permits \in Int
      /\ g.inFlight <= MaxConcurrent /\ g.cursorInFlight <= CursorMax
  BY DEF GateExact, Gates
<1>2. /\ h.permit = [g.permit EXCEPT ![u] = permit] /\ h.slot = g.slot
      /\ h.inFlight = g.inFlight /\ h.permits = n /\ h.cursorInFlight = g.cursorInFlight
      /\ h \in Gates
  BY <1>1 DEF Up!WithPermit, Gates
<1> HIDE DEF h
<1>3. GateExact(h)
  <2>1. h.slot = [g.slot EXCEPT ![u] = g.slot[u]] /\ g.slot[u] \in SlotState
    BY <1>1, <1>2
  <2>2. /\ h.inFlight <= MaxConcurrent /\ h.cursorInFlight <= CursorMax /\ h.permits <= MaxConnections
        /\ h.inFlight = g.inFlight + (IF g.slot[u] # Nothing THEN 1 ELSE 0)
                                   - (IF g.slot[u] # Nothing THEN 1 ELSE 0)
        /\ h.cursorInFlight = g.cursorInFlight + (IF g.slot[u] = "cursor" THEN 1 ELSE 0)
                                               - (IF g.slot[u] = "cursor" THEN 1 ELSE 0)
    BY <1>1, <1>2
  <2> QED BY <1>2, <2>1, <2>2, GateMoves
<1> QED BY <1>1, <1>2, <1>3 DEF Changes, h

\* What a gate counts is a number of attempts.
LEMMA GateTypes ==
  ASSUME NEW g, GateExact(g)
  PROVE  /\ g.inFlight \in Nat /\ g.cursorInFlight \in Nat /\ g.permits \in Nat
         /\ g.inFlight <= MaxConcurrent /\ g.cursorInFlight <= CursorMax
         /\ g.permits <= MaxConnections
         /\ \A u \in Attempts : g.slot[u] \in SlotState /\ g.permit[u] \in PermitState
<1>1. /\ IsFiniteSet(InFlight(g)) /\ IsFiniteSet(InCursorLane(g)) /\ IsFiniteSet(Permitted(g))
  BY FS_Subset, UpgradeConstants DEF InFlight, InCursorLane, Permitted
<1> QED BY <1>1, FS_CardinalityType DEF GateExact, Gates

\* A slot given back.
LEMMA DropSlotKeeps ==
  ASSUME NEW g, GateExact(g), NEW u \in Attempts, g.slot[u] # Nothing
  PROVE  LET h == Up!DropSlot(g, u) IN
         GateExact(h) /\ Changes(g, u, h) /\ h.slot[u] = Nothing /\ h.permit = g.permit
<1>1. Nothing \in SlotState /\ Nothing # "cursor" /\ Up!Nothing = Nothing
  BY DEF SlotState, Nothing, Up!Nothing
<1> DEFINE c == IF g.slot[u] = "cursor" THEN g.cursorInFlight - 1 ELSE g.cursorInFlight
           n == g.inFlight - 1
<1>2. n = g.inFlight + 0 - 1 /\ n <= MaxConcurrent /\ c <= CursorMax
      /\ c = g.cursorInFlight + 0 - (IF g.slot[u] = "cursor" THEN 1 ELSE 0)
  BY GateTypes, UpgradeConstants
<1>3. Up!DropSlot(g, u) = Up!WithSlot(g, u, Nothing, n, c)
  BY <1>1 DEF Up!DropSlot
<1> HIDE DEF c, n
<1> QED BY <1>1, <1>2, <1>3, SlotMoves

\* A slot taken, below the ceiling and the lane's share.
LEMMA TakeSlotKeeps ==
  ASSUME NEW g, GateExact(g), NEW u \in Attempts, g.slot[u] = Nothing,
         NEW lane \in {"main", "cursor"}, Up!HasSlot(g, lane)
  PROVE  LET h == Up!TakeSlot(g, u, lane) IN
         GateExact(h) /\ Changes(g, u, h) /\ h.slot[u] = lane /\ h.permit = g.permit
<1>1. lane \in SlotState /\ Nothing # "cursor" /\ lane # Nothing
  BY DEF SlotState, Nothing
<1> DEFINE c == IF lane = "cursor" THEN g.cursorInFlight + 1 ELSE g.cursorInFlight
           n == g.inFlight + 1
<1>2. n = g.inFlight + 1 - 0 /\ n <= MaxConcurrent /\ c <= CursorMax
      /\ c = g.cursorInFlight + (IF lane = "cursor" THEN 1 ELSE 0) - 0
  BY GateTypes, UpgradeConstants DEF Up!HasSlot
<1>3. Up!TakeSlot(g, u, lane) = Up!WithSlot(g, u, lane, n, c)
  BY DEF Up!TakeSlot
<1> HIDE DEF c, n
<1> QED BY <1>1, <1>2, <1>3, SlotMoves

\* A permit given back.
LEMMA DropPermitKeeps ==
  ASSUME NEW g, GateExact(g), NEW u \in Attempts, g.permit[u] # Nothing
  PROVE  LET h == Up!DropPermit(g, u) IN
         GateExact(h) /\ Changes(g, u, h) /\ h.permit[u] = Nothing /\ h.slot = g.slot
<1>1. Nothing \in PermitState /\ Up!Nothing = Nothing
  BY DEF PermitState, Nothing, Up!Nothing
<1> DEFINE n == g.permits - 1
<1>2. n = g.permits + 0 - 1 /\ n <= MaxConnections
  BY GateTypes, UpgradeConstants
<1>3. Up!DropPermit(g, u) = Up!WithPermit(g, u, Nothing, n)
  BY <1>1 DEF Up!DropPermit
<1> HIDE DEF n
<1> QED BY <1>1, <1>2, <1>3, PermitMoves

\* A permit taken below the ceiling.
LEMMA TakePermitKeeps ==
  ASSUME NEW g, GateExact(g), NEW u \in Attempts, g.permit[u] = Nothing,
         ~(g.permits >= MaxConnections)
  PROVE  LET h == Up!TakePermit(g, u) IN
         GateExact(h) /\ Changes(g, u, h) /\ h.permit[u] = "reserved" /\ h.slot = g.slot
<1>1. "reserved" \in PermitState /\ "reserved" # Nothing
  BY DEF PermitState, Nothing
<1> DEFINE n == g.permits + 1
<1>2. n = g.permits + 1 - 0 /\ n <= MaxConnections
  BY GateTypes, UpgradeConstants
<1>3. Up!TakePermit(g, u) = Up!WithPermit(g, u, "reserved", n)
  BY DEF Up!TakePermit
<1> HIDE DEF n
<1> QED BY <1>1, <1>2, <1>3, PermitMoves

\* A permit handed over to the connection.
LEMMA CarryPermitKeeps ==
  ASSUME NEW g, GateExact(g), NEW u \in Attempts, g.permit[u] = "reserved"
  PROVE  LET h == Up!CarryPermit(g, u) IN
         GateExact(h) /\ Changes(g, u, h) /\ h.permit[u] = "carried" /\ h.slot = g.slot
<1>1. {"carried", "reserved"} \in SUBSET PermitState /\ "carried" # Nothing /\ "reserved" # Nothing
  BY DEF PermitState, Nothing
<1>2. g.permits = g.permits + 1 - 1 /\ g.permits <= MaxConnections
  BY GateTypes, UpgradeConstants
<1>3. Up!CarryPermit(g, u) = Up!WithPermit(g, u, "carried", g.permits)
  BY DEF Up!CarryPermit
<1> QED BY <1>1, <1>2, <1>3, PermitMoves

\* releaseInFlight gives back the slot, and the permit unless a connection has it.
LEMMA ReleaseKeepsGate ==
  ASSUME NEW g, GateExact(g), NEW u \in Attempts
  PROVE  LET h == Up!ReleaseInFlight(g, u) IN
         /\ GateExact(h) /\ Changes(g, u, h) /\ h.slot[u] = Nothing
         /\ h.permit[u] = IF g.permit[u] = "carried" THEN "carried" ELSE Nothing
<1> DEFINE s == IF g.slot[u] # Nothing THEN Up!DropSlot(g, u) ELSE g
           h == IF s.permit[u] = "reserved" THEN Up!DropPermit(s, u) ELSE s
<1>1. GateExact(s) /\ Changes(g, u, s) /\ s.slot[u] = Nothing /\ s.permit = g.permit
  BY DropSlotKeeps DEF Changes
<1>2. Up!ReleaseInFlight(g, u) = h
  BY DEF Up!ReleaseInFlight, Up!Nothing, Nothing
<1> HIDE DEF s
<1>3. g.permit[u] \in PermitState
  BY DEF GateExact, Gates
<1>4. GateExact(h) /\ Changes(s, u, h) /\ h.slot = s.slot
      /\ h.permit[u] = IF g.permit[u] = "carried" THEN "carried" ELSE Nothing
  <2>1. CASE s.permit[u] = "reserved"
    BY <1>1, <2>1, DropPermitKeeps DEF Nothing
  <2>2. CASE s.permit[u] # "reserved"
    BY <1>1, <1>3, <2>2 DEF Changes, PermitState
  <2> QED BY <2>1, <2>2
<1> HIDE DEF h
<1> QED BY <1>1, <1>2, <1>4 DEF Changes

\* acceptUpgrade leaves the permit with a connection that opened, and nothing else.
LEMMA AcceptKeeps ==
  ASSUME NEW g, GateExact(g), NEW u \in Attempts, NEW o \in Up!Outcomes,
         g.permit[u] # "carried", u \notin destroyed => g.permit[u] = "reserved"
  PROVE  LET h == Up!Accept(g, u, o) IN
         /\ GateExact(h) /\ Changes(g, u, h) /\ h.slot[u] = Nothing
         /\ h.permit[u] = IF Up!Accepted(u, o) = "live" THEN "carried" ELSE Nothing
<1> DEFINE h == Up!Accept(g, u, o)
<1>1. CASE u \in destroyed \/ o = "answered"
  <2>1. h = Up!ReleaseInFlight(g, u) /\ Up!Accepted(u, o) = "gone"
    BY <1>1 DEF Up!Accept, Up!Accepted
  <2> QED BY <2>1, ReleaseKeepsGate
<1>2. CASE ~(u \in destroyed \/ o = "answered")
  <2> DEFINE k == Up!CarryPermit(g, u)
             c == Up!ReleaseInFlight(k, u)
  <2>1. GateExact(k) /\ Changes(g, u, k) /\ k.permit[u] = "carried"
    BY <1>2, CarryPermitKeeps
  <2>2. h = IF o = "setup_fails" THEN Up!DropPermit(c, u) ELSE c
    BY <1>2 DEF Up!Accept
  <2> HIDE DEF k, h
  <2>3. GateExact(c) /\ Changes(k, u, c) /\ c.slot[u] = Nothing /\ c.permit[u] = "carried"
    BY <2>1, ReleaseKeepsGate
  <2> HIDE DEF c
  <2>4. CASE o = "setup_fails"
    <3>1. Up!Accepted(u, o) # "live" /\ c.permit[u] # Nothing
      BY <2>3, <2>4 DEF Up!Accepted, Nothing
    <3>2. GateExact(h) /\ Changes(c, u, h) /\ h.permit[u] = Nothing /\ h.slot = c.slot
      BY <2>2, <2>3, <2>4, <3>1, DropPermitKeeps
    <3> HIDE DEF h
    <3> QED BY <2>1, <2>3, <3>1, <3>2 DEF Changes, h
  <2>5. CASE o # "setup_fails"
    <3>1. o = "open" /\ Up!Accepted(u, o) = "live"
      BY <1>2, <2>5 DEF Up!Outcomes, Up!Accepted
    <3> QED BY <2>1, <2>2, <2>3, <2>5, <3>1 DEF Changes, h
  <2> QED BY <2>4, <2>5
<1> QED BY <1>1, <1>2

\* What the ring is made of.
LEMMA RingTypes ==
  ASSUME NEW r, NEW st, RingExact(r, st)
  PROVE  /\ r.head \in Nat /\ r.tail \in Nat /\ r.depth \in Nat /\ r.depth <= MaxDeferred
         /\ r.slots \in [0..(MaxDeferred - 1) -> Attempts \cup {Nothing}]
         /\ MaxDeferred \in Nat
         /\ MaxDeferred > 0 => /\ r.head < MaxDeferred
                               /\ \A i \in Nat : i <= MaxDeferred =>
                                     At(r, i) \in 0..(MaxDeferred - 1)
                               /\ r.tail = At(r, r.depth)
         /\ \A i, j \in 0..(MaxDeferred - 1) : At(r, i) = At(r, j) => i = j
BY SMTT(30), UpgradeConstants DEF RingExact, Rings, At

\* The place after the i-th, and the i-th place from the second one on.
LEMMA PlaceAfter ==
  ASSUME NEW r, MaxDeferred \in Nat, r.head \in Nat, r.head < MaxDeferred,
         NEW i \in Nat, i < MaxDeferred
  PROVE  Up!Wrap(At(r, i)) = At(r, i + 1)
<1> DEFINE M == MaxDeferred
           k == r.head
<1>1. M \in Nat /\ k \in Nat /\ k < M /\ i < M
  OBVIOUS
<1>2. /\ At(r, i) = (IF k + i < M THEN k + i ELSE k + i - M)
      /\ At(r, i + 1) = (IF k + (i + 1) < M THEN k + (i + 1) ELSE k + (i + 1) - M)
      /\ Up!Wrap(At(r, i)) = IF At(r, i) + 1 = M THEN 0 ELSE At(r, i) + 1
  BY DEF At, Up!Wrap
<1> HIDE DEF M, k
<1> QED BY <1>1, <1>2

LEMMA PlaceBefore ==
  ASSUME NEW r, NEW h, MaxDeferred \in Nat, r.head \in Nat, r.head < MaxDeferred,
         h.head = Up!Wrap(r.head), NEW i \in 0..(MaxDeferred - 1)
  PROVE  h.head < MaxDeferred /\ At(h, i) = At(r, i + 1)
<1> DEFINE M == MaxDeferred
           k == r.head
           n == h.head
<1>1. M \in Nat /\ k \in Nat /\ k < M /\ i \in 0..(M - 1)
  OBVIOUS
<1>2. n = IF k + 1 = M THEN 0 ELSE k + 1
  BY DEF Up!Wrap
<1>3. /\ At(h, i) = (IF n + i < M THEN n + i ELSE n + i - M)
      /\ At(r, i + 1) = (IF k + (i + 1) < M THEN k + (i + 1) ELSE k + (i + 1) - M)
  BY DEF At
<1> HIDE DEF M, k, n
<1>4. n < M /\ At(h, i) = At(r, i + 1)
  BY <1>1, <1>2, <1>3
<1> QED BY <1>4 DEF M, n

\* An attempt that neither was nor becomes deferred leaves the ring exact.
LEMMA StageKeepsRing ==
  ASSUME NEW r, NEW st \in [Attempts -> Stage], RingExact(r, st),
         NEW u \in Attempts, st[u] # "deferred", NEW to \in Stage, to # "deferred"
  PROVE  RingExact(r, [st EXCEPT ![u] = to])
<1> DEFINE t == [st EXCEPT ![u] = to]
<1>1. \A v \in Attempts : t[v] = "deferred" <=> st[v] = "deferred"
  OBVIOUS
<1>2. {v \in Attempts : t[v] = "deferred"} = {v \in Attempts : st[v] = "deferred"}
  BY <1>1
<1> HIDE DEF t
<1>3. RingExact(r, t)
  BY <1>1, <1>2 DEF RingExact
<1> QED BY <1>3 DEF t

\* An accept joins the ring at its tail.
LEMMA EnqueueKeeps ==
  ASSUME NEW r, NEW st \in [Attempts -> Stage], RingExact(r, st),
         NEW u \in Attempts, st[u] # "deferred", r.depth < MaxDeferred
  PROVE  /\ RingExact(Up!Enqueue(r, u), [st EXCEPT ![u] = "deferred"])
         /\ Up!Enqueue(r, u).depth = r.depth + 1
<1> DEFINE h == Up!Enqueue(r, u)
           t == [st EXCEPT ![u] = "deferred"]
           M == MaxDeferred
           d == r.depth
<1>1. /\ r.head \in Nat /\ r.tail \in Nat /\ d \in Nat /\ M \in Nat /\ d < M
      /\ r.slots \in [0..(M - 1) -> Attempts \cup {Nothing}]
      /\ r.head < M /\ r.tail = At(r, d) /\ r.tail \in 0..(M - 1)
      /\ \A i \in 0..d : At(r, i) \in 0..(M - 1)
      /\ \A i \in 0..(d - 1) : At(r, i) # r.tail
  BY RingTypes
<1>2. /\ h.head = r.head /\ h.depth = d + 1
      /\ h.slots = [r.slots EXCEPT ![r.tail] = u]
      /\ h.tail = Up!Wrap(r.tail)
      /\ h \in Rings
  BY <1>1 DEF Up!Enqueue, Up!Wrap, Rings
<1>3. /\ t \in [Attempts -> Stage] /\ t[u] = "deferred"
      /\ \A v \in Attempts \ {u} : t[v] = st[v]
  BY DEF Stage
<1> HIDE DEF h, t
<1>4. \A i \in Nat : At(h, i) = At(r, i)
  BY <1>2 DEF At
<1>5. h.tail = At(h, d + 1)
  BY <1>1, <1>2, <1>4, PlaceAfter
<1>6. \A i \in 0..(d - 1) : Nth(h, i) = Nth(r, i) /\ Nth(h, i) \in Attempts
                            /\ st[Nth(h, i)] = "deferred" /\ Nth(h, i) # u
  <2>1. \A i \in 0..(d - 1) : h.slots[At(r, i)] = r.slots[At(r, i)]
    BY <1>1, <1>2
  <2>2. \A i \in 0..(d - 1) : Nth(r, i) \in Attempts /\ st[Nth(r, i)] = "deferred"
    BY DEF RingExact
  <2> QED BY <2>1, <2>2, <1>1, <1>4 DEF Nth
<1>7. Nth(h, d) = u
  BY <1>1, <1>2, <1>4 DEF Nth
<1>8. \A i \in 0..d : i = d \/ i \in 0..(d - 1)
  BY <1>1
<1>9. \A i \in 0..d : Nth(h, i) \in Attempts /\ t[Nth(h, i)] = "deferred"
  BY <1>3, <1>6, <1>7, <1>8
<1>10. \A i, j \in 0..d : Nth(h, i) = Nth(h, j) => i = j
  <2>1. \A i, j \in 0..(d - 1) : Nth(r, i) = Nth(r, j) => i = j
    BY DEF RingExact
  <2> QED BY <2>1, <1>6, <1>7, <1>8
<1>11. \A v \in Attempts : t[v] = "deferred" => \E i \in 0..d : Nth(h, i) = v
  <2> SUFFICES ASSUME NEW v \in Attempts, t[v] = "deferred" PROVE \E i \in 0..d : Nth(h, i) = v
    OBVIOUS
  <2>1. CASE v = u
    BY <2>1, <1>1, <1>7
  <2>2. CASE v # u
    <3>1. \E i \in 0..(d - 1) : Nth(r, i) = v
      BY <2>2, <1>3 DEF RingExact
    <3> QED BY <3>1, <1>1, <1>6
  <2> QED BY <2>1, <2>2
<1>12. h.depth = Cardinality({v \in Attempts : t[v] = "deferred"})
  <2> DEFINE S == {v \in Attempts : st[v] = "deferred"}
             T == {v \in Attempts : t[v] = "deferred"}
  <2>1. /\ S \in SUBSET Attempts /\ T \in SUBSET Attempts /\ u \notin S /\ u \in T
        /\ \A v \in Attempts \ {u} : v \in S <=> v \in T
    BY <1>3
  <2>2. d = Cardinality(S)
    BY DEF RingExact
  <2> HIDE DEF S, T
  <2>3. Cardinality(T) = Cardinality(S) + 1 - 0
    BY <2>1, DifferInOne, UpgradeConstants
  <2> QED BY <2>2, <2>3, <1>1, <1>2 DEF T
<1>13. h.depth - 1 = d /\ h.head < M /\ h.tail = At(h, h.depth)
  BY <1>1, <1>2, <1>5
<1>14. RingExact(h, t)
  BY <1>2, <1>9, <1>10, <1>11, <1>12, <1>13 DEF RingExact
<1> QED BY <1>2, <1>14 DEF h, t

\* The accept at the head leaves the ring.
LEMMA DequeueKeeps ==
  ASSUME NEW r, NEW st \in [Attempts -> Stage], RingExact(r, st), r.depth > 0,
         NEW to \in Stage, to # "deferred"
  PROVE  LET u == r.slots[r.head] IN
         /\ u \in Attempts /\ st[u] = "deferred"
         /\ RingExact(Up!Dequeue(r), [st EXCEPT ![u] = to])
         /\ Up!Dequeue(r).depth = r.depth - 1
<1> DEFINE u == r.slots[r.head]
           h == Up!Dequeue(r)
           t == [st EXCEPT ![u] = to]
           M == MaxDeferred
           d == r.depth
<1>1. /\ r.head \in Nat /\ r.tail \in Nat /\ d \in Nat /\ M \in Nat /\ 0 < d /\ d <= M
      /\ r.slots \in [0..(M - 1) -> Attempts \cup {Nothing}]
      /\ r.head < M /\ r.tail = At(r, d)
      /\ \A i \in 0..(d - 1) : At(r, i) \in 0..(M - 1)
      /\ \A i, j \in 0..(d - 1) : At(r, i) = At(r, j) => i = j
  <2>1. /\ r.head \in Nat /\ r.tail \in Nat /\ d \in Nat /\ M \in Nat /\ 0 < d /\ d <= M
        /\ r.slots \in [0..(M - 1) -> Attempts \cup {Nothing}]
        /\ M > 0 /\ r.head < M /\ r.tail = At(r, d)
    BY RingTypes
  <2>2. \A i \in 0..(d - 1) : i \in 0..(M - 1) /\ i \in Nat /\ i <= M
    BY <2>1
  <2>3. \A i \in 0..(d - 1) : At(r, i) \in 0..(M - 1)
    BY <2>1, <2>2, RingTypes
  <2>4. \A i, j \in 0..(d - 1) : At(r, i) = At(r, j) => i = j
    BY <2>2, RingTypes
  <2> QED BY <2>1, <2>3, <2>4
<1>2. At(r, 0) = r.head /\ Nth(r, 0) = u
  BY <1>1 DEF At, Nth
<1>3. u \in Attempts /\ st[u] = "deferred"
  BY <1>1, <1>2 DEF RingExact
<1>4. /\ h.depth = d - 1
      /\ h.slots = [r.slots EXCEPT ![r.head] = Nothing]
      /\ h.head = (IF d = 1 THEN 0 ELSE Up!Wrap(r.head))
      /\ h.tail = (IF d = 1 THEN 0 ELSE r.tail)
      /\ h \in Rings
  BY <1>1 DEF Up!Dequeue, Up!Wrap, Rings, Up!Nothing, Nothing
<1>5. /\ t \in [Attempts -> Stage] /\ t[u] # "deferred"
      /\ \A v \in Attempts \ {u} : t[v] = st[v]
  BY <1>3
<1> HIDE DEF h, t, u
<1>6. h.head < M /\ h.tail = At(h, d - 1)
  <2>1. CASE d = 1
    BY <2>1, <1>1, <1>4 DEF At
  <2>2. CASE d # 1
    <3>1. h.head = Up!Wrap(r.head) /\ h.tail = r.tail
      BY <2>2, <1>4
    <3>2. d - 1 \in 0..(M - 1)
      BY <1>1
    <3>3. (d - 1) + 1 = d
      BY <1>1
    <3>4. h.head < M /\ At(h, d - 1) = At(r, (d - 1) + 1)
      BY <3>1, <3>2, <1>1, PlaceBefore
    <3> QED BY <3>1, <3>3, <3>4, <1>1
  <2> QED BY <2>1, <2>2
<1>7. \A i \in 0..(d - 2) : At(h, i) = At(r, i + 1)
  <2> SUFFICES ASSUME NEW i \in 0..(d - 2) PROVE At(h, i) = At(r, i + 1)
    OBVIOUS
  <2>1. h.head = Up!Wrap(r.head) /\ i \in 0..(M - 1)
    BY <1>1, <1>4
  <2> QED BY <2>1, <1>1, PlaceBefore
<1>8. \A i \in 0..(d - 2) : Nth(h, i) = Nth(r, i + 1)
  <2>1. \A i \in 0..(d - 2) : At(r, i + 1) # r.head /\ At(r, i + 1) \in 0..(M - 1)
    BY <1>1, <1>2
  <2>2. \A i \in 0..(d - 2) : h.slots[At(r, i + 1)] = r.slots[At(r, i + 1)]
    BY <2>1, <1>1, <1>4
  <2> QED BY <2>2, <1>7 DEF Nth
<1>9. /\ \A i \in 0..(d - 1) : Nth(r, i) \in Attempts /\ st[Nth(r, i)] = "deferred"
      /\ \A i, j \in 0..(d - 1) : Nth(r, i) = Nth(r, j) => i = j
      /\ \A v \in Attempts : st[v] = "deferred" => \E i \in 0..(d - 1) : Nth(r, i) = v
  BY DEF RingExact
<1>10. \A i \in 0..(d - 2) : i + 1 \in 0..(d - 1) /\ i + 1 # 0 /\ Nth(r, i + 1) # u
  BY <1>1, <1>2, <1>9
<1>11. \A i \in 0..(d - 2) : Nth(h, i) \in Attempts /\ t[Nth(h, i)] = "deferred"
  BY <1>5, <1>8, <1>9, <1>10
<1>12. \A i, j \in 0..(d - 2) : Nth(h, i) = Nth(h, j) => i = j
  <2> SUFFICES ASSUME NEW i \in 0..(d - 2), NEW j \in 0..(d - 2), Nth(h, i) = Nth(h, j)
               PROVE  i = j
    OBVIOUS
  <2>1. i + 1 = j + 1
    BY <1>8, <1>9, <1>10
  <2> QED BY <2>1, <1>1
<1>13. \A v \in Attempts : t[v] = "deferred" => \E i \in 0..(d - 2) : Nth(h, i) = v
  <2> SUFFICES ASSUME NEW v \in Attempts, t[v] = "deferred"
               PROVE  \E i \in 0..(d - 2) : Nth(h, i) = v
    OBVIOUS
  <2>1. v # u /\ st[v] = "deferred"
    BY <1>5
  <2>2. PICK i \in 0..(d - 1) : Nth(r, i) = v
    BY <2>1, <1>9
  <2>3. i # 0
    BY <2>1, <2>2, <1>2
  <2>4. i - 1 \in 0..(d - 2) /\ (i - 1) + 1 = i
    BY <2>3, <1>1
  <2>5. Nth(h, i - 1) = v
    BY <2>2, <2>4, <1>8
  <2> QED BY <2>4, <2>5
<1>14. h.depth = Cardinality({v \in Attempts : t[v] = "deferred"})
  <2> DEFINE S == {v \in Attempts : st[v] = "deferred"}
             T == {v \in Attempts : t[v] = "deferred"}
  <2>1. /\ S \in SUBSET Attempts /\ T \in SUBSET Attempts /\ u \in S /\ u \notin T
        /\ \A v \in Attempts \ {u} : v \in S <=> v \in T
    BY <1>3, <1>5
  <2>2. d = Cardinality(S)
    BY DEF RingExact
  <2> HIDE DEF S, T
  <2>3. Cardinality(T) = Cardinality(S) + 0 - 1
    BY <2>1, DifferInOne, UpgradeConstants
  <2> QED BY <2>2, <2>3, <1>1, <1>4 DEF T
<1>15. h.depth - 1 = d - 2 /\ h.tail = At(h, h.depth)
  BY <1>1, <1>4, <1>6
<1>16. RingExact(h, t)
  BY <1>4, <1>6, <1>11, <1>12, <1>13, <1>14, <1>15 DEF RingExact
<1> QED BY <1>3, <1>4, <1>16 DEF h, t, u

\* What the others hold is theirs still.
LEMMA OthersKeep ==
  ASSUME NEW g, NEW h, NEW st \in [Attempts -> Stage], NEW u \in Attempts, NEW to \in Stage,
         NEW d, \A v \in Attempts : Holds(g, v, st[v], d), Changes(g, u, h), Holds(h, u, to, d)
  PROVE  \A v \in Attempts : Holds(h, v, [st EXCEPT ![u] = to][v], d)
BY DEF Holds, Changes

\* An attempt moves on, deferred neither before nor after.
LEMMA MoveKeeps ==
  ASSUME NEW w, NEW d, Sound(w, d), NEW u \in Attempts, w.stage[u] # "deferred",
         NEW to \in Stage, to # "deferred",
         NEW h, GateExact(h), Changes(w.gate, u, h), Holds(h, u, to, d)
  PROVE  Sound([gate |-> h, stage |-> [w.stage EXCEPT ![u] = to], ring |-> w.ring], d)
<1> DEFINE t == [w.stage EXCEPT ![u] = to]
<1>1. w.stage \in [Attempts -> Stage] /\ RingExact(w.ring, w.stage)
      /\ \A v \in Attempts : Holds(w.gate, v, w.stage[v], d)
  BY DEF Sound
<1>2. t \in [Attempts -> Stage] /\ RingExact(w.ring, t)
  BY <1>1, StageKeepsRing
<1>3. \A v \in Attempts : Holds(h, v, t[v], d)
  BY <1>1, OthersKeep
<1> HIDE DEF t
<1>4. Sound([gate |-> h, stage |-> t, ring |-> w.ring], d)
  BY <1>2, <1>3 DEF Sound
<1> QED BY <1>4 DEF t

\* An upgrade under way may be accepted; what it then holds fits its new stage.
LEMMA AcceptFits ==
  ASSUME NEW g, GateExact(g), NEW u \in Attempts, NEW at \in {"hook", "deferred"},
         Holds(g, u, at, destroyed), NEW o \in Up!Outcomes
  PROVE  LET h == Up!Accept(g, u, o)
             to == Up!Accepted(u, o)
         IN GateExact(h) /\ Changes(g, u, h) /\ Holds(h, u, to, destroyed)
            /\ to \in Stage /\ to # "deferred"
<1>1. g.permit[u] # "carried" /\ (u \notin destroyed => g.permit[u] = "reserved")
  BY DEF Holds
<1> DEFINE h == Up!Accept(g, u, o)
<1>2. /\ GateExact(h) /\ Changes(g, u, h) /\ h.slot[u] = Nothing
      /\ h.permit[u] = IF Up!Accepted(u, o) = "live" THEN "carried" ELSE Nothing
  BY <1>1, AcceptKeeps
<1>3. Up!Accepted(u, o) \in {"live", "gone"}
  BY DEF Up!Accepted
<1> HIDE DEF h
<1>4. Holds(h, u, Up!Accepted(u, o), destroyed)
  BY <1>2, <1>3 DEF Holds
<1> QED BY <1>2, <1>3, <1>4 DEF h, Stage

\* The oldest deferred accept is run.
LEMMA RunOldestKeeps ==
  ASSUME NEW w, Sound(w, destroyed), w.ring.depth > 0, NEW o \in Up!Outcomes
  PROVE  /\ Sound(Up!RunOldest(w, o), destroyed)
         /\ Up!RunOldest(w, o).ring.depth = w.ring.depth - 1
<1> DEFINE u == w.ring.slots[w.ring.head]
           g == Up!Accept(w.gate, u, o)
           to == Up!Accepted(u, o)
           t == [w.stage EXCEPT ![u] = to]
           r == Up!Dequeue(w.ring)
<1>1. w.stage \in [Attempts -> Stage] /\ RingExact(w.ring, w.stage) /\ GateExact(w.gate)
      /\ \A v \in Attempts : Holds(w.gate, v, w.stage[v], destroyed)
  BY DEF Sound
<1>2. to \in Stage /\ to # "deferred"
  BY DEF Up!Accepted, Stage
<1>3. u \in Attempts /\ w.stage[u] = "deferred" /\ RingExact(r, t) /\ r.depth = w.ring.depth - 1
  <2> HIDE DEF to
  <2> QED BY <1>1, <1>2, DequeueKeeps
<1>4. GateExact(g) /\ Changes(w.gate, u, g) /\ Holds(g, u, to, destroyed)
  <2>1. Holds(w.gate, u, "deferred", destroyed)
    BY <1>1, <1>3
  <2> QED BY <2>1, <1>1, <1>3, AcceptFits
<1> HIDE DEF g, to
<1>5. t \in [Attempts -> Stage] /\ \A v \in Attempts : Holds(g, v, t[v], destroyed)
  BY <1>1, <1>2, <1>3, <1>4, OthersKeep
<1> HIDE DEF u, t, r
<1>6. Up!RunOldest(w, o) = [gate |-> g, stage |-> t, ring |-> r]
  BY DEF Up!RunOldest, g, t, r, u, to
<1> QED BY <1>3, <1>4, <1>5, <1>6 DEF Sound

\* The walk of Run(w, n, o), over the first k of the deferred accepts.
RanUpTo(w, o, k, f) ==
  f = [i \in 0..k |-> IF i = 0 THEN w ELSE Up!RunOldest(f[i - 1], o[i])]

\* There is such a walk, of every length.
LEMMA RanExists ==
  ASSUME NEW w, NEW o, NEW k \in Nat
  PROVE  \E f : RanUpTo(w, o, k, f)
<1> DEFINE B == {m \in Nat : ~ \E f : RanUpTo(w, o, m, f)}
<1>1. SUFFICES ASSUME B # {} PROVE FALSE
  OBVIOUS
<1>2. PICK m \in B : \A j \in B : m <= j
  <2>1. B \in SUBSET Nat OBVIOUS
  <2> HIDE DEF B
  <2> QED BY <1>1, <2>1, LeastNumber
<1>3. m # 0
  <2>1. RanUpTo(w, o, 0, [i \in 0..0 |-> w])
    BY DEF RanUpTo
  <2> QED BY <2>1
<1>4. m - 1 \in Nat /\ ~(m <= m - 1)
  BY <1>3
<1>5. PICK f : RanUpTo(w, o, m - 1, f)
  BY <1>2, <1>4
<1> DEFINE v == Up!RunOldest(f[m - 1], o[m])
           g == [i \in 0..m |-> IF i = m THEN v ELSE f[i]]
<1>6. RanUpTo(w, o, m, g)
  <2> SUFFICES ASSUME NEW i \in 0..m
               PROVE  g[i] = IF i = 0 THEN w ELSE Up!RunOldest(g[i - 1], o[i])
    BY DEF RanUpTo
  <2>1. CASE i = m
    BY <2>1, <1>3, <1>4
  <2>2. CASE i # m
    <3>1. i \in 0..m-1 /\ g[i] = f[i] /\ (i # 0 => g[i - 1] = f[i - 1])
      BY <2>2, <1>4
    <3>2. f[i] = IF i = 0 THEN w ELSE Up!RunOldest(f[i - 1], o[i])
      BY <3>1, <1>5 DEF RanUpTo
    <3> QED BY <3>1, <3>2
  <2> QED BY <2>1, <2>2
<1> QED BY <1>6, <1>2

\* A drain that runs no more accepts than wait keeps everything sound.
LEMMA RunKeeps ==
  ASSUME NEW w, Sound(w, destroyed), NEW n \in 0..w.ring.depth, NEW o \in [1..n -> Up!Outcomes]
  PROVE  /\ Sound(Up!Run(w, n, o), destroyed)
         /\ Up!Run(w, n, o).ring.depth = w.ring.depth - n
<1> DEFINE f == CHOOSE g : RanUpTo(w, o, n, g)
<1>1. w.ring.depth \in Nat /\ n \in Nat /\ n <= w.ring.depth
  BY RingTypes DEF Sound
<1>2. RanUpTo(w, o, n, f) /\ Up!Run(w, n, o) = f[n]
  <2>1. RanUpTo(w, o, n, f)
    BY <1>1, RanExists
  <2> QED BY <2>1 DEF Up!Run, RanUpTo
<1> HIDE DEF f
<1> DEFINE B == {i \in 0..n : ~(Sound(f[i], destroyed) /\ f[i].ring.depth = w.ring.depth - i)}
<1>3. ASSUME B # {} PROVE FALSE
  <2>1. PICK i \in B : \A j \in B : i <= j
    <3>1. B \in SUBSET Nat BY <1>1
    <3> HIDE DEF B
    <3> QED BY <1>3, <3>1, LeastNumber
  <2>2. i \in 0..n /\ f[i] = IF i = 0 THEN w ELSE Up!RunOldest(f[i - 1], o[i])
    BY <1>2, <2>1 DEF RanUpTo
  <2>3. CASE i = 0
    BY <2>1, <2>2, <2>3, <1>1
  <2>4. CASE i # 0
    <3>1. i - 1 \in 0..n /\ i \in 1..n /\ ~(i <= i - 1) /\ o[i] \in Up!Outcomes
      BY <2>2, <2>4, <1>1
    <3>2. Sound(f[i - 1], destroyed) /\ f[i - 1].ring.depth = w.ring.depth - (i - 1)
      BY <3>1, <2>1
    <3>3. f[i - 1].ring.depth > 0 /\ f[i - 1].ring.depth - 1 = w.ring.depth - i
      BY <3>1, <3>2, <1>1
    <3> DEFINE b == f[i - 1]
    <3> HIDE DEF b
    <3>4. Sound(b, destroyed) /\ b.ring.depth > 0 /\ b.ring.depth - 1 = w.ring.depth - i
          /\ f[i] = Up!RunOldest(b, o[i])
      BY <3>2, <3>3, <2>2, <2>4 DEF b
    <3>5. Sound(f[i], destroyed) /\ f[i].ring.depth = w.ring.depth - i
      BY <3>1, <3>4, RunOldestKeeps
    <3> QED BY <3>5, <2>1
  <2> QED BY <2>3, <2>4
<1>4. n \in 0..n
  BY <1>1
<1> QED BY <1>2, <1>3, <1>4

World == [gate |-> gate, stage |-> stage, ring |-> ring]

\* The parts of the invariant.
LEMMA UpgradeParts ==
  ASSUME UpgradeInv
  PROVE  /\ Sound(World, destroyed) /\ World.gate = gate /\ World.stage = stage
         /\ World.ring = ring
         /\ GateExact(gate) /\ stage \in [Attempts -> Stage] /\ RingExact(ring, stage)
         /\ \A u \in Attempts : Holds(gate, u, stage[u], destroyed)
BY DEF UpgradeInv, Sound, World

\* What a step must establish when it leaves the tick's budget alone.
LEMMA PacingStays ==
  ASSUME UpgradeInv, Sound(World, destroyed)', ring' = ring,
         UNCHANGED <<spent, scheduled>>
  PROVE  UpgradeInv'
BY DEF UpgradeInv, World

LEMMA ArriveKeeps ==
  ASSUME UpgradeInv, NEW u \in Attempts, NEW lane \in {"main", "cursor"}, Up!Arrive(u, lane)
  PROVE  UpgradeInv'
<1>1. /\ Sound(World, destroyed) /\ GateExact(gate) /\ stage \in [Attempts -> Stage]
      /\ World.gate = gate /\ World.stage = stage /\ World.ring = ring
  BY UpgradeParts
<1>2. /\ stage[u] = "new" /\ stage[u] # "deferred"
      /\ gate.slot[u] = Nothing /\ gate.permit[u] = Nothing
      /\ Nothing \notin {"main", "cursor", "reserved", "carried"}
  BY UpgradeParts DEF Up!Arrive, Holds, Nothing
<1> DEFINE taken == Up!TakeSlot(gate, u, lane)
<1>3. PICK to \in {"gone", "hook"} :
        /\ GateExact(gate') /\ Changes(gate, u, gate') /\ Holds(gate', u, to, destroyed)
        /\ stage' = [stage EXCEPT ![u] = to]
  <2>1. CASE ~Up!HasSlot(gate, lane)
    BY <1>1, <1>2, <2>1 DEF Up!Arrive, Changes, Holds
  <2>2. CASE Up!HasSlot(gate, lane)
    <3>1. GateExact(taken) /\ Changes(gate, u, taken) /\ taken.slot[u] = lane
          /\ taken.permit = gate.permit
      BY <1>1, <1>2, <2>2, TakeSlotKeeps
    <3>2. taken.permits = gate.permits
      BY DEF Up!TakeSlot, Up!WithSlot
    <3> HIDE DEF taken
    <3>3. CASE gate.permits >= MaxConnections
      <4>1. gate' = Up!ReleaseInFlight(taken, u) /\ stage' = [stage EXCEPT ![u] = "gone"]
        BY <2>2, <3>3 DEF Up!Arrive, taken
      <4>2. /\ GateExact(gate') /\ Changes(taken, u, gate')
            /\ gate'.slot[u] = Nothing /\ gate'.permit[u] = Nothing
        BY <1>2, <3>1, <4>1, ReleaseKeepsGate
      <4> QED BY <3>1, <4>1, <4>2 DEF Changes, Holds
    <3>4. CASE ~(gate.permits >= MaxConnections)
      <4>1. gate' = Up!TakePermit(taken, u) /\ stage' = [stage EXCEPT ![u] = "hook"]
        BY <2>2, <3>4 DEF Up!Arrive, taken
      <4>2. GateExact(gate') /\ Changes(taken, u, gate') /\ gate'.permit[u] = "reserved"
            /\ gate'.slot = taken.slot
        BY <1>2, <3>1, <3>2, <3>4, <4>1, TakePermitKeeps
      <4> QED BY <1>2, <3>1, <4>1, <4>2 DEF Changes, Holds
    <3> QED BY <3>3, <3>4
  <2> QED BY <2>1, <2>2
<1>4. UNCHANGED <<destroyed, ring, spent, scheduled>>
  BY DEF Up!Arrive
<1>5. to \in Stage /\ to # "deferred"
  BY DEF Stage
<1>6. Sound(World, destroyed)'
  BY <1>1, <1>2, <1>3, <1>4, <1>5, MoveKeeps DEF World
<1> QED BY <1>4, <1>6, PacingStays

\* A refusal gives everything back, whatever a 'close' already gave back.
LEMMA GoneHoldsNothing ==
  ASSUME NEW g, GateExact(g), NEW u \in Attempts, NEW at \in {"hook", "deferred"}, NEW d,
         Holds(g, u, at, d)
  PROVE  LET h == Up!ReleaseInFlight(g, u) IN
         GateExact(h) /\ Changes(g, u, h) /\ Holds(h, u, "gone", d)
         /\ h.slot[u] = Nothing /\ h.permit[u] = Nothing
<1> DEFINE h == Up!ReleaseInFlight(g, u)
<1>1. g.permit[u] # "carried"
  BY DEF Holds
<1>2. GateExact(h) /\ Changes(g, u, h) /\ h.slot[u] = Nothing /\ h.permit[u] = Nothing
  BY <1>1, ReleaseKeepsGate
<1> HIDE DEF h
<1>3. Holds(h, u, "gone", d)
  BY <1>2 DEF Holds
<1> QED BY <1>2, <1>3 DEF h

LEMMA RefuseKeeps ==
  ASSUME UpgradeInv, NEW u \in Attempts, Up!Refuse(u)
  PROVE  UpgradeInv'
<1>1. /\ Sound(World, destroyed) /\ GateExact(gate) /\ stage \in [Attempts -> Stage]
      /\ World.gate = gate /\ World.stage = stage /\ World.ring = ring
      /\ Holds(gate, u, stage[u], destroyed)
  BY UpgradeParts
<1>2. /\ stage[u] = "hook" /\ gate' = Up!ReleaseInFlight(gate, u)
      /\ stage' = [stage EXCEPT ![u] = "gone"]
      /\ UNCHANGED <<destroyed, ring, spent, scheduled>>
  BY DEF Up!Refuse
<1>3. GateExact(gate') /\ Changes(gate, u, gate') /\ Holds(gate', u, "gone", destroyed)
  BY <1>1, <1>2, GoneHoldsNothing
<1>4. "gone" \in Stage
  BY DEF Stage
<1>5. Sound(World, destroyed)'
  BY <1>1, <1>2, <1>3, <1>4, MoveKeeps DEF World
<1> QED BY <1>2, <1>5, PacingStays

LEMMA AdmitKeeps ==
  ASSUME UpgradeInv, NEW u \in Attempts, Up!Admit(u)
  PROVE  UpgradeInv'
<1>1. /\ Sound(World, destroyed) /\ GateExact(gate) /\ stage \in [Attempts -> Stage]
      /\ World.gate = gate /\ World.stage = stage /\ World.ring = ring
      /\ Holds(gate, u, stage[u], destroyed) /\ RingExact(ring, stage)
      /\ \A v \in Attempts : Holds(gate, v, stage[v], destroyed)
  BY UpgradeParts
<1>2. stage[u] = "hook" /\ u \notin destroyed /\ destroyed' = destroyed
  BY DEF Up!Admit
<1>3. /\ spent \in 0..Budget /\ scheduled \in BOOLEAN /\ Budget \in Nat
      /\ ring.depth > 0 \/ spent > 0 => scheduled
      /\ spent < Budget => ring.depth = 0
  BY UpgradeConstants DEF UpgradeInv
<1>4. CASE /\ spent < Budget /\ spent' = spent + 1 /\ scheduled' = TRUE
           /\ \E o \in Up!Outcomes : /\ gate' = Up!Accept(gate, u, o)
                                     /\ stage' = [stage EXCEPT ![u] = Up!Accepted(u, o)]
           /\ UNCHANGED ring
  <2>1. PICK o \in Up!Outcomes : /\ gate' = Up!Accept(gate, u, o)
                                 /\ stage' = [stage EXCEPT ![u] = Up!Accepted(u, o)]
    BY <1>4
  <2>2. /\ GateExact(gate') /\ Changes(gate, u, gate')
        /\ Holds(gate', u, Up!Accepted(u, o), destroyed)
        /\ Up!Accepted(u, o) \in Stage /\ Up!Accepted(u, o) # "deferred"
    BY <1>1, <1>2, <2>1, AcceptFits
  <2>3. Sound(World, destroyed)'
    BY <1>1, <1>2, <1>4, <2>1, <2>2, MoveKeeps DEF World
  <2>4. spent' \in 0..Budget /\ ring'.depth = 0
    BY <1>3, <1>4
  <2> QED BY <1>4, <2>3, <2>4 DEF UpgradeInv, World
<1>5. CASE /\ spent >= Budget /\ ring.depth >= MaxDeferred
           /\ gate' = Up!ReleaseInFlight(gate, u)
           /\ stage' = [stage EXCEPT ![u] = "gone"]
           /\ UNCHANGED <<ring, spent, scheduled>>
  <2>1. GateExact(gate') /\ Changes(gate, u, gate') /\ Holds(gate', u, "gone", destroyed)
    BY <1>1, <1>2, <1>5, GoneHoldsNothing
  <2>2. "gone" \in Stage
    BY DEF Stage
  <2>3. Sound(World, destroyed)'
    BY <1>1, <1>2, <1>5, <2>1, <2>2, MoveKeeps DEF World
  <2> QED BY <1>5, <2>3, PacingStays
<1>6. CASE /\ spent >= Budget /\ ring.depth < MaxDeferred
           /\ ring' = Up!Enqueue(ring, u) /\ scheduled' = TRUE
           /\ stage' = [stage EXCEPT ![u] = "deferred"]
           /\ UNCHANGED <<gate, spent>>
  <2>1. RingExact(ring', stage')
    BY <1>1, <1>2, <1>6, EnqueueKeeps
  <2>2. Holds(gate, u, "deferred", destroyed) /\ Changes(gate, u, gate) /\ "deferred" \in Stage
    BY <1>1, <1>2 DEF Holds, Changes, Stage
  <2>3. stage' \in [Attempts -> Stage] /\ \A v \in Attempts : Holds(gate, v, stage'[v], destroyed)
    BY <1>1, <1>6, <2>2, OthersKeep
  <2>4. Sound(World, destroyed)'
    BY <1>1, <1>2, <1>6, <2>1, <2>3 DEF Sound, World
  <2>5. ~(spent' < Budget)
    BY <1>3, <1>6
  <2> QED BY <1>3, <1>6, <2>4, <2>5 DEF UpgradeInv, World
<1> QED BY <1>4, <1>5, <1>6 DEF Up!Admit

LEMMA UpgradeDrainKeeps ==
  ASSUME UpgradeInv, Up!Drain
  PROVE  UpgradeInv'
<1>1. Sound(World, destroyed) /\ World.ring = ring /\ RingExact(ring, stage)
  BY UpgradeParts
<1>2. ring.depth \in Nat /\ Budget \in Nat /\ Budget > 0
  BY <1>1, RingTypes, UpgradeConstants
<1> DEFINE n == IF ring.depth < Budget THEN ring.depth ELSE Budget
<1>3. n \in 0..ring.depth /\ n \in 0..Budget /\ (n < Budget => ring.depth - n = 0)
  BY <1>2
<1>4. PICK o \in [1..n -> Up!Outcomes] :
        \E w \in {Up!Run(World, n, o)} :
          /\ gate' = w.gate /\ stage' = w.stage /\ ring' = w.ring
          /\ spent' = n /\ scheduled' = Up!DrainsAgain(w.ring.depth, n)
  BY DEF Up!Drain, World
<1> HIDE DEF n
<1> DEFINE w == Up!Run(World, n, o)
<1>5. Sound(w, destroyed) /\ w.ring.depth = ring.depth - n
  BY <1>1, <1>3, RunKeeps
<1>6. /\ gate' = w.gate /\ stage' = w.stage /\ ring' = w.ring /\ destroyed' = destroyed
      /\ spent' = n /\ scheduled' = Up!DrainsAgain(w.ring.depth, n)
  BY <1>4 DEF Up!Drain
<1> HIDE DEF w
<1>7. Sound(World, destroyed)'
  BY <1>5, <1>6 DEF Sound, World
<1>8. /\ scheduled' = (ring'.depth > 0 \/ n > 0)
      /\ spent' < Budget => ring'.depth = 0
  BY <1>3, <1>5, <1>6 DEF Up!DrainsAgain
<1> QED BY <1>3, <1>6, <1>7, <1>8 DEF UpgradeInv, World

LEMMA DestroyKeeps ==
  ASSUME UpgradeInv, NEW u \in Attempts, Up!Destroy(u)
  PROVE  UpgradeInv'
<1>1. UNCHANGED <<gate, stage, ring, spent, scheduled>> /\ destroyed \subseteq destroyed'
  BY DEF Up!Destroy
<1>2. \A v \in Attempts : Holds(gate, v, stage[v], destroyed')
  BY <1>1, UpgradeParts DEF Holds
<1>3. Sound(World, destroyed)'
  BY <1>1, <1>2, UpgradeParts DEF Sound, World
<1> QED BY <1>1, <1>3, PacingStays

LEMMA SocketClosedKeeps ==
  ASSUME UpgradeInv, NEW u \in Attempts, Up!SocketClosed(u)
  PROVE  UpgradeInv'
<1>1. /\ u \in destroyed /\ stage[u] \in {"hook", "deferred"}
      /\ gate' = Up!ReleaseInFlight(gate, u)
      /\ UNCHANGED <<stage, destroyed, ring, spent, scheduled>>
  BY DEF Up!SocketClosed
<1>2. GateExact(gate') /\ Changes(gate, u, gate') /\ gate'.permit[u] = Nothing
  BY <1>1, UpgradeParts, GoneHoldsNothing
<1>3. Holds(gate', u, stage[u], destroyed)
  BY <1>1, <1>2 DEF Holds, Nothing
<1>4. \A v \in Attempts : Holds(gate', v, stage[v], destroyed)
  BY <1>2, <1>3, UpgradeParts DEF Holds, Changes
<1>5. Sound(World, destroyed)'
  BY <1>1, <1>2, <1>4, UpgradeParts DEF Sound, World
<1> QED BY <1>1, <1>5, PacingStays

LEMMA UpgradeCloseKeeps ==
  ASSUME UpgradeInv, NEW u \in Attempts, Up!Close(u)
  PROVE  UpgradeInv'
<1>1. /\ stage[u] = "live" /\ stage' = [stage EXCEPT ![u] = "gone"]
      /\ gate' = Up!DropPermit(gate, u)
      /\ UNCHANGED <<destroyed, ring, spent, scheduled>>
  BY DEF Up!Close
<1>2. gate.slot[u] = Nothing /\ gate.permit[u] # Nothing
  BY <1>1, UpgradeParts DEF Holds, Nothing
<1>3. /\ GateExact(gate') /\ Changes(gate, u, gate')
      /\ gate'.permit[u] = Nothing /\ gate'.slot = gate.slot
  BY <1>1, <1>2, UpgradeParts, DropPermitKeeps
<1>4. Holds(gate', u, "gone", destroyed) /\ "gone" \in Stage
  BY <1>2, <1>3 DEF Holds, Stage
<1>5. Sound(World, destroyed)'
  BY <1>1, <1>3, <1>4, UpgradeParts, MoveKeeps DEF World
<1> QED BY <1>1, <1>5, PacingStays

LEMMA UpgradeInit == Up!Init => UpgradeInv
<1> SUFFICES ASSUME Up!Init PROVE UpgradeInv
  OBVIOUS
<1>1. /\ gate.inFlight = 0 /\ gate.cursorInFlight = 0 /\ gate.permits = 0
      /\ gate.slot = [u \in Attempts |-> Nothing] /\ gate.permit = [u \in Attempts |-> Nothing]
      /\ gate \in Gates
  BY DEF Up!Init, Up!Nothing, Nothing, Gates, SlotState, PermitState
<1>2. InFlight(gate) = {} /\ InCursorLane(gate) = {} /\ Permitted(gate) = {}
  BY <1>1 DEF InFlight, InCursorLane, Permitted, Nothing
<1>3. GateExact(gate)
  BY <1>1, <1>2, FS_EmptySet, UpgradeConstants DEF GateExact
<1>4. stage = [u \in Attempts |-> "new"] /\ stage \in [Attempts -> Stage]
  BY DEF Up!Init, Stage
<1>5. \A u \in Attempts : Holds(gate, u, stage[u], destroyed)
  BY <1>1, <1>4 DEF Holds
<1>6. /\ ring.head = 0 /\ ring.tail = 0 /\ ring.depth = 0 /\ ring \in Rings
      /\ MaxDeferred \in Nat
  BY UpgradeConstants DEF Up!Init, Rings, Up!Nothing, Nothing
<1>7. {u \in Attempts : stage[u] = "deferred"} = {}
  BY <1>4
<1>8. RingExact(ring, stage)
  <2>1. MaxDeferred > 0 => ring.head < MaxDeferred /\ ring.tail = At(ring, ring.depth)
    BY <1>6 DEF At
  <2>2. 0..(ring.depth - 1) = {}
    BY <1>6
  <2> QED BY <1>4, <1>6, <1>7, <2>1, <2>2, FS_EmptySet DEF RingExact
<1>9. Sound([gate |-> gate, stage |-> stage, ring |-> ring], destroyed)
  BY <1>3, <1>4, <1>5, <1>8 DEF Sound
<1>10. spent \in 0..Budget /\ ~(ring.depth > 0 \/ spent > 0)
  BY <1>6, UpgradeConstants DEF Up!Init
<1>11. scheduled \in BOOLEAN
  BY DEF Up!Init
<1> QED BY <1>6, <1>9, <1>10, <1>11 DEF UpgradeInv

LEMMA UpgradeNext == UpgradeInv /\ [Up!Next]_(Up!vars) => UpgradeInv'
<1> SUFFICES ASSUME UpgradeInv, [Up!Next]_(Up!vars) PROVE UpgradeInv'
  OBVIOUS
<1>1. CASE UNCHANGED Up!vars
  BY <1>1 DEF Up!vars, UpgradeInv
<1>2. CASE Up!Next
  BY <1>2, ArriveKeeps, RefuseKeeps, AdmitKeeps, UpgradeDrainKeeps, DestroyKeeps,
     SocketClosedKeeps, UpgradeCloseKeeps DEF Up!Next
<1> QED BY <1>1, <1>2

\* What the run checks, of the invariant.
LEMMA InvGivesReservations == UpgradeInv => ReservationsExact
<1> SUFFICES ASSUME UpgradeInv PROVE ReservationsExact
  OBVIOUS
<1>1. /\ GateExact(gate) /\ stage \in [Attempts -> Stage] /\ RingExact(ring, stage)
      /\ \A u \in Attempts : Holds(gate, u, stage[u], destroyed)
  BY UpgradeParts
<1>2. UpgradeTypeOK
  BY <1>1 DEF UpgradeTypeOK, UpgradeInv, GateExact, Gates, RingExact, Rings, SlotState,
              PermitState, Stage
<1>3. ToSet(Waiting) = {u \in Attempts : stage[u] = "deferred"}
  <2>1. ring.depth \in Nat
    BY <1>1, RingTypes
  <2>2. \A i \in 1..ring.depth : Waiting[i] = Nth(ring, i - 1)
    <3> SUFFICES ASSUME NEW i \in 1..ring.depth PROVE Waiting[i] = Nth(ring, i - 1)
      OBVIOUS
    <3>1. ring.head \in Nat /\ ring.head + i - 1 = ring.head + (i - 1) /\ MaxDeferred \in Nat
      BY <1>1, <2>1, RingTypes
    <3> QED BY <3>1 DEF Waiting, Nth, At
  <2>3. DOMAIN Waiting = 1..ring.depth
    BY DEF Waiting
  <2>4. ToSet(Waiting) = {Nth(ring, i - 1) : i \in 1..ring.depth}
    BY <2>2, <2>3 DEF ToSet
  <2>5. \A i \in 1..ring.depth : i - 1 \in 0..(ring.depth - 1)
    BY <2>1
  <2>6. \A j \in 0..(ring.depth - 1) : j + 1 \in 1..ring.depth /\ (j + 1) - 1 = j
    BY <2>1
  <2>7. ASSUME NEW u \in Attempts, stage[u] = "deferred"
        PROVE  u \in ToSet(Waiting)
    <3>1. PICK j \in 0..(ring.depth - 1) : Nth(ring, j) = u
      BY <1>1, <2>7 DEF RingExact
    <3> QED BY <3>1, <2>4, <2>6
  <2> QED BY <1>1, <2>4, <2>5, <2>7 DEF RingExact
<1>4. DeferralIsSound
  BY <1>1, <1>3 DEF DeferralIsSound, RingExact, UpgradeInv
<1>5. ASSUME NEW u \in Attempts
      PROVE  /\ stage[u] \in {"hook", "deferred"} /\ u \notin destroyed =>
                    gate.slot[u] # Nothing /\ gate.permit[u] = "reserved"
             /\ stage[u] = "live" <=> gate.permit[u] = "carried"
             /\ stage[u] \in {"live", "gone"} => gate.slot[u] = Nothing
  BY <1>1 DEF Holds, Stage, Nothing
<1> QED BY <1>1, <1>2, <1>4, <1>5
        DEF ReservationsExact, GateExact, InFlight, InCursorLane, Permitted

\* Whatever upgrades arrive, are refused, deferred, accepted, cut off and closed:
\* the counters equal what the attempts hold, no ceiling is passed, and the ring
\* holds exactly the deferred (upgrade-admission.js, connection-permit.js).
THEOREM ReservationsStayExact == Up!Spec => []ReservationsExact
<1>1. UpgradeInv => ReservationsExact
  BY InvGivesReservations
<1> QED BY UpgradeInit, UpgradeNext, <1>1, PTL DEF Up!Spec

-----------------------------------------------------------------------------
(* The browser's connection: exactly one way on.                           *)

Link == [ws : Sock \cup {NoSock},
         socks : [Sock -> {"free", "connecting", "open", "closing"}],
         timer : {"none", "armed", "stale", "spent"},
         preflight : BOOLEAN, reserved : BOOLEAN, attempt : Nat, tried : Nat,
         closed : BOOLEAN, terminal : BOOLEAN, offline : BOOLEAN, advisory : BOOLEAN,
         status : {"disconnected", "connecting", "open", "suspended", "failed"},
         called : BOOLEAN]

HasWay(c) == c.timer # "none" \/ c.preflight \/ c.ws # NoSock

\* What holds also in the middle of a step: the retries are counted, a pending timer
\* is the current one, only the sockets O that are about to be closed may be open
\* beside the current one, and there are no two ways on.
Sane(c, O) ==
    /\ c \in Link
    /\ ~c.closed => /\ c.attempt = c.tried + (IF c.reserved THEN 1 ELSE 0)
                    /\ c.attempt <= MaxAttempts
    /\ c.timer \in {"none", "armed"}
    /\ \A s \in Sock \ {c.ws} : s \in O \/ c.socks[s] \in {"free", "closing"}
    /\ \A s \in O : c.ws # s /\ c.socks[s] # "free"
    /\ c.ws # NoSock => c.socks[c.ws] # "free" /\ (c.socks[c.ws] = "open" => ~c.reserved)
    /\ c.timer # "none" => ~c.preflight /\ c.ws = NoSock
    /\ c.preflight => c.ws = NoSock
    /\ Inert(c) => ~HasWay(c)

\* The status shows what is so.
Told(c) ==
    /\ c.status \in {"open", "suspended"} => c.ws # NoSock /\ c.socks[c.ws] = "open"
    /\ c.status = "failed" <=> c.closed \/ c.terminal

\* A step may end here.
Settled(c, O) == Sane(c, O) /\ Told(c) /\ (Inert(c) \/ HasWay(c))

LinkInv == Settled(conn, {})

\* Without a way on, and in nobody's hands but the step's.
Adrift(c, O) == Sane(c, O) /\ ~HasWay(c) /\ ~Inert(c) /\ ~c.called

-----------------------------------------------------------------------------

\* A retry is scheduled, or given up.
LEMMA ScheduleSettles ==
  ASSUME BrowserAssumption, NEW O \in SUBSET Sock, NEW c, NEW dispersed \in BOOLEAN,
         Sane(c, O), ~HasWay(c), ~Inert(c), ~c.reserved, Told(c)
  PROVE  Settled(Cli!Schedule(c, dispersed), O)
<1> DEFINE d == Cli!Schedule(c, dispersed)
<1>1. CASE c.attempt >= MaxAttempts
  <2>1. d = [c EXCEPT !.terminal = TRUE, !.status = "failed"]
    BY <1>1 DEF Cli!Schedule, Cli!Inert, Inert, HasWay
  <2> QED
    BY ZenonT(60), <2>1 DEF Sane, Settled, Told, Inert, HasWay, Link
<1>2. CASE ~(c.attempt >= MaxAttempts) /\ dispersed
  <2>1. d = [c EXCEPT !.timer = "armed"]
    BY <1>2 DEF Cli!Schedule, Cli!Inert, Inert, HasWay
  <2> QED
    BY <2>1 DEF Sane, Settled, Told, Inert, HasWay, Link
<1>3. CASE ~(c.attempt >= MaxAttempts) /\ ~dispersed
  <2>1. d = [c EXCEPT !.timer = "armed", !.attempt = @ + 1, !.reserved = TRUE]
    BY <1>3 DEF Cli!Schedule, Cli!Inert, Inert, HasWay
  <2>2. /\ c \in Link /\ MaxAttempts \in Nat /\ c.attempt \in Nat /\ c.attempt + 1 \in Nat
        /\ c.attempt < MaxAttempts
        /\ ~c.closed => c.attempt = c.tried
    BY <1>3 DEF Sane, Link, BrowserAssumption
  <2>3. /\ d \in Link /\ d.ws = c.ws /\ d.socks = c.socks /\ d.timer = "armed"
        /\ d.preflight = c.preflight /\ d.reserved /\ d.attempt = c.attempt + 1 /\ d.tried = c.tried
        /\ d.closed = c.closed /\ d.terminal = c.terminal /\ d.offline = c.offline
        /\ d.status = c.status
    BY <2>1, <2>2 DEF Link
  <2> QED
    BY <2>2, <2>3 DEF Sane, Settled, Told, Inert, HasWay
<1> QED
  BY <1>1, <1>2, <1>3

\* A socket is constructed, or its constructor throws.
LEMMA OpenSocketSettles ==
  ASSUME BrowserAssumption, NEW O \in SUBSET Sock, NEW c,
         Sane(c, O), ~HasWay(c), ~Inert(c), Told(c), NEW d \in Cli!OpenSocket(c)
  PROVE  /\ Settled(d, O)
         /\ d.ws = NoSock \/ c.socks[d.ws] = "free"
<1> DEFINE o == Cli!Outcome(c)
<1>1. CASE d = Cli!Schedule(o, FALSE)
  <2>1. /\ o = [c EXCEPT !.reserved = FALSE, !.tried = IF c.reserved THEN @ + 1 ELSE @]
        /\ c \in Link
    BY DEF Cli!Outcome, Sane
  <2>3. c.attempt \in Nat /\ c.tried \in Nat /\ c.tried + 1 \in Nat
    BY <2>1 DEF Link
  <2>2. /\ o \in Link /\ o.ws = c.ws /\ o.socks = c.socks /\ o.timer = c.timer
        /\ o.preflight = c.preflight /\ ~o.reserved /\ o.attempt = c.attempt
        /\ o.tried = (IF c.reserved THEN c.tried + 1 ELSE c.tried)
        /\ o.closed = c.closed /\ o.terminal = c.terminal /\ o.offline = c.offline
        /\ o.status = c.status
    BY <2>1, <2>3 DEF Link
  <2>4. Sane(o, O) /\ ~HasWay(o) /\ ~Inert(o) /\ ~o.reserved /\ Told(o)
    BY <2>2, <2>3 DEF Sane, Told, Inert, HasWay
  <2>5. Settled(d, O)
    BY <1>1, <2>4, ScheduleSettles
  <2>6. d.ws = NoSock
    BY <1>1, <2>2, <2>4 DEF Cli!Schedule, HasWay, Link
  <2> QED
    BY <2>5, <2>6
<1>2. CASE d \in {[c EXCEPT !.ws = s, !.socks[s] = "connecting"] : s \in {x \in Sock : c.socks[x] = "free"}}
  <2>1. PICK s \in Sock : c.socks[s] = "free" /\ d = [c EXCEPT !.ws = s, !.socks[s] = "connecting"]
    BY <1>2
  <2>2. c \in Link
    BY DEF Sane
  <2>3. /\ d \in Link /\ d.ws = s /\ d.socks = [c.socks EXCEPT ![s] = "connecting"]
        /\ d.timer = c.timer /\ d.preflight = c.preflight /\ d.reserved = c.reserved
        /\ d.attempt = c.attempt /\ d.tried = c.tried /\ d.closed = c.closed
        /\ d.terminal = c.terminal /\ d.offline = c.offline /\ d.status = c.status
    BY <2>1, <2>2 DEF Link
  <2>4. c.socks \in [Sock -> {"free", "connecting", "open", "closing"}] /\ s # NoSock
    BY <2>2 DEF Link, BrowserAssumption
  <2> QED
    BY <2>1, <2>3, <2>4 DEF Sane, Settled, Told, Inert, HasWay
<1> QED
  BY <1>1, <1>2 DEF Cli!OpenSocket

\* doConnect out of a callback.
LEMMA ReconnectedSettles ==
  ASSUME BrowserAssumption, NEW O \in SUBSET Sock, NEW c,
         Sane(c, O), ~HasWay(c), ~Inert(c), NEW d \in Cli!Reconnected(c)
  PROVE  /\ Settled(d, O)
         /\ d.ws = NoSock \/ c.socks[d.ws] = "free"
<1> DEFINE n == [Cli!NewGeneration(c) EXCEPT !.ws = NoSock, !.status = "connecting"]
<1>1. c \in Link /\ c.timer = "none" /\ ~c.preflight /\ c.ws = NoSock
  BY DEF Sane, HasWay
<1>2. n = [c EXCEPT !.status = "connecting"]
  BY <1>1 DEF Cli!NewGeneration, Link
<1>3. Sane(n, O) /\ ~HasWay(n) /\ ~Inert(n) /\ Told(n) /\ n.socks = c.socks
  BY <1>1, <1>2 DEF Sane, HasWay, Inert, Told, Link
<1>4. ~Cli!Live(c)
  BY <1>1 DEF Cli!Live
<1>5. d \in IF auth THEN {[n EXCEPT !.preflight = TRUE]} ELSE Cli!OpenSocket(n)
  BY <1>1, <1>4 DEF Cli!Reconnected, Cli!Inert, Inert
<1>6. CASE auth
  <2>1. d = [n EXCEPT !.preflight = TRUE]
    BY <1>5, <1>6
  <2> QED
    BY ZenonT(60), <1>3, <2>1 DEF Sane, Settled, HasWay, Inert, Told, Link
<1>7. CASE ~auth
  BY <1>3, <1>5, <1>7, OpenSocketSettles
<1> QED
  BY <1>6, <1>7

\* Without a way on and wanting none: the socket it had is closing.
LEMMA StoppedIsSettled ==
  ASSUME BrowserAssumption, NEW O \in SUBSET Sock, NEW c, Sane(c, O), NEW r \in Link, Inert(r), ~HasWay(r),
         ~r.closed => ~r.reserved /\ r.attempt = r.tried /\ r.attempt <= MaxAttempts,
         r.socks = c.socks \/ r.socks = [c.socks EXCEPT ![c.ws] = "closing"],
         c.ws = NoSock \/ r.socks[c.ws] = "closing",
         r.status \notin {"open", "suspended"},
         r.status = "failed" <=> r.closed \/ r.terminal
  PROVE  Settled(r, O)
<1>1. /\ c.socks \in [Sock -> {"free", "connecting", "open", "closing"}]
      /\ c.ws \in Sock \cup {NoSock} /\ r.attempt \in Nat
  BY DEF Sane, Link
<1>2. /\ r.ws = NoSock /\ r.timer = "none" /\ ~r.preflight
  BY DEF HasWay, Link
<1>3. \A s \in Sock : s # c.ws => r.socks[s] = c.socks[s]
  BY <1>1
<1>4. \A s \in Sock \ {r.ws} : s \in O \/ r.socks[s] \in {"free", "closing"}
  BY <1>1, <1>3 DEF Sane
<1>5. \A s \in O : r.ws # s /\ r.socks[s] # "free"
  <2> TAKE s \in O
  <2>1. s \in Sock /\ s # c.ws /\ c.socks[s] # "free"
    BY DEF Sane
  <2>2. s # NoSock
    BY <2>1 DEF BrowserAssumption
  <2> QED
    BY <1>2, <1>3, <2>1, <2>2
<1> QED
  BY <1>1, <1>2, <1>4, <1>5 DEF Settled, Sane, Told

\* close() from anywhere.
LEMMA ClosedSettles ==
  ASSUME BrowserAssumption, NEW O \in SUBSET Sock, NEW c, Sane(c, O)
  PROVE  Settled(Cli!Closed(c), O) /\ Cli!Closed(c).ws = NoSock /\ Cli!Closed(c).closed
<1> DEFINE d == Cli!ClearReconnect(Cli!CancelAttempt([c EXCEPT !.closed = TRUE]), FALSE)
           r == Cli!Closed(c)
<1>1. c \in Link
  BY DEF Sane
<1>2. /\ d \in Link /\ d.timer = "none" /\ ~d.preflight /\ ~d.reserved /\ d.closed
      /\ d.ws = c.ws /\ d.socks = c.socks
  BY <1>1 DEF Cli!ClearReconnect, Cli!CancelAttempt, Cli!NewGeneration, Link
<1>3. r = [Cli!Shut(d, d.ws) EXCEPT !.ws = NoSock, !.status = "failed"]
  BY DEF Cli!Closed
<1>4. CASE c.ws = NoSock
  <2>1. Cli!Shut(d, d.ws) = d
    BY <1>2, <1>4 DEF Cli!Shut
  <2>2. r = [d EXCEPT !.ws = NoSock, !.status = "failed"]
    BY <1>3, <2>1 DEF Cli!Closed
  <2> HIDE DEF d, r
  <2>4. /\ r \in Link /\ r.socks = c.socks /\ r.timer = "none" /\ ~r.preflight
        /\ r.ws = NoSock /\ r.closed /\ r.status = "failed"
    BY <1>2, <2>2 DEF Link
  <2>3. Inert(r) /\ ~HasWay(r)
    BY <2>4 DEF Inert, HasWay
  <2>9. Settled(r, O) /\ r.ws = NoSock /\ r.closed
    BY <1>4, <2>3, <2>4, StoppedIsSettled
  <2> QED
    BY <2>9 DEF r
<1>5. CASE c.ws # NoSock
  <2>1. c.socks[c.ws] # "free" /\ c.ws \in Sock
    BY <1>1, <1>5 DEF Sane, Link
  <2> DEFINE h == [d EXCEPT !.socks[c.ws] = "closing"]
  <2>5. Cli!Shut(d, d.ws) = h
    BY <1>2, <1>5, <2>1 DEF Cli!Shut
  <2>6. /\ h \in Link /\ h.socks = [c.socks EXCEPT ![c.ws] = "closing"]
        /\ h.timer = "none" /\ ~h.preflight /\ h.closed
    BY <1>2, <2>1 DEF Link
  <2>2. r = [h EXCEPT !.ws = NoSock, !.status = "failed"]
    BY <1>3, <2>5
  <2>3. /\ r \in Link /\ r.ws = NoSock /\ r.socks = [c.socks EXCEPT ![c.ws] = "closing"]
        /\ r.timer = "none" /\ ~r.preflight /\ r.closed /\ r.status = "failed"
    BY ZenonT(60), <2>6, <2>2 DEF Link
  <2>4. c.socks \in [Sock -> {"free", "connecting", "open", "closing"}]
    BY <1>1 DEF Link
  <2> QED
    BY <2>1, <2>3, <2>4 DEF Sane, Settled, HasWay, Inert, Told
<1> QED
  BY <1>4, <1>5

\* simulateOffline() out of a callback.
LEMMA PausedSettles ==
  ASSUME BrowserAssumption, NEW O \in SUBSET Sock, NEW c, Sane(c, O), ~Inert(c)
  PROVE  /\ Settled(Cli!Paused(c), O) /\ Cli!Paused(c).ws = NoSock
         /\ Cli!Paused(c).offline /\ ~Cli!Paused(c).closed /\ ~Cli!Paused(c).terminal
         /\ c.ws # NoSock => Cli!Paused(c).socks[c.ws] = "closing"
<1> DEFINE d == Cli!ClearReconnect(Cli!CancelAttempt([c EXCEPT !.offline = TRUE]), TRUE)
           r == Cli!Paused(c)
<1>1. c \in Link
  BY DEF Sane
<1> DEFINE a == [c EXCEPT !.offline = TRUE]
           b == Cli!CancelAttempt(a)
<1>6. /\ c.attempt \in Nat /\ c.tried \in Nat /\ c.tried <= MaxAttempts
      /\ c.attempt = (IF c.reserved THEN c.tried + 1 ELSE c.tried) /\ ~c.closed
  BY <1>1 DEF Sane, Link, Inert, BrowserAssumption
<1>7. /\ b \in Link /\ ~b.preflight /\ b.offline /\ b.reserved = c.reserved
      /\ b.ws = c.ws /\ b.socks = c.socks /\ b.closed = c.closed /\ b.terminal = c.terminal
      /\ b.tried = c.tried /\ b.attempt = c.attempt
  BY <1>1 DEF Cli!CancelAttempt, Cli!NewGeneration, Link
<1>8. (IF b.reserved /\ b.attempt > 0 THEN b.attempt - 1 ELSE b.attempt) = c.tried
  BY <1>6, <1>7
<1>9. d = [b EXCEPT !.timer = "none", !.attempt = c.tried, !.reserved = FALSE]
  BY <1>8 DEF Cli!ClearReconnect
<1>2. /\ d \in Link /\ d.timer = "none" /\ ~d.preflight /\ ~d.reserved /\ d.offline
      /\ d.ws = c.ws /\ d.socks = c.socks /\ d.closed = c.closed /\ d.terminal = c.terminal
      /\ d.tried = c.tried /\ d.attempt = c.tried /\ d.tried <= MaxAttempts
  <2> HIDE DEF b, d
  <2> QED
    BY <1>6, <1>7, <1>9 DEF Link
<1>3. r = [Cli!Shut(d, d.ws) EXCEPT !.ws = NoSock, !.status = "disconnected", !.advisory = FALSE]
  BY DEF Cli!Paused, Cli!Inert, Inert
<1>4. CASE c.ws = NoSock
  <2>1. Cli!Shut(d, d.ws) = d
    BY <1>2, <1>4 DEF Cli!Shut
  <2>2. r = [d EXCEPT !.ws = NoSock, !.status = "disconnected", !.advisory = FALSE]
    BY <1>3, <2>1
  <2> HIDE DEF d, r
  <2>4. /\ r \in Link /\ r.socks = c.socks /\ r.timer = "none" /\ ~r.preflight
        /\ r.ws = NoSock /\ r.offline /\ r.closed = c.closed /\ r.terminal = c.terminal
        /\ r.status = "disconnected" /\ ~r.reserved /\ r.attempt = c.tried /\ r.tried = c.tried
    BY <1>2, <2>2 DEF Link
  <2>3. Inert(r) /\ ~HasWay(r) /\ ~c.closed /\ ~c.terminal
    BY <2>4 DEF Inert, HasWay
  <2>9. /\ Settled(r, O) /\ r.ws = NoSock /\ r.offline /\ ~r.closed /\ ~r.terminal
        /\ c.ws # NoSock => r.socks[c.ws] = "closing"
    BY <1>2, <1>4, <2>3, <2>4, StoppedIsSettled
  <2> QED
    BY <2>9 DEF r
<1>5. CASE c.ws # NoSock
  <2>1. c.socks[c.ws] # "free" /\ c.ws \in Sock
    BY <1>1, <1>5 DEF Sane, Link
  <2> DEFINE h == [d EXCEPT !.socks[c.ws] = "closing"]
  <2>5. Cli!Shut(d, d.ws) = h
    BY <1>2, <1>5, <2>1 DEF Cli!Shut
  <2>2. r = [h EXCEPT !.ws = NoSock, !.status = "disconnected", !.advisory = FALSE]
    BY <1>3, <2>5
  <2> HIDE DEF d, r
  <2>6. /\ h \in Link /\ h.socks = [c.socks EXCEPT ![c.ws] = "closing"]
        /\ h.timer = "none" /\ ~h.preflight /\ ~h.reserved /\ h.offline
        /\ h.closed = c.closed /\ h.terminal = c.terminal /\ h.attempt = c.tried /\ h.tried = c.tried
    BY <1>2, <2>1 DEF Link
  <2>3. /\ r \in Link /\ r.ws = NoSock /\ r.socks = [c.socks EXCEPT ![c.ws] = "closing"]
        /\ r.timer = "none" /\ ~r.preflight /\ ~r.reserved /\ r.offline
        /\ r.closed = c.closed /\ r.terminal = c.terminal /\ r.status = "disconnected"
        /\ r.attempt = c.tried /\ r.tried = c.tried
    BY <2>6, <2>2 DEF Link
  <2>4. c.socks \in [Sock -> {"free", "connecting", "open", "closing"}]
    BY <1>1 DEF Link
  <2>7. Inert(r) /\ ~HasWay(r) /\ r.socks[c.ws] = "closing" /\ ~c.closed /\ ~c.terminal
    BY <2>1, <2>3, <2>4 DEF Inert, HasWay
  <2>9. /\ Settled(r, O) /\ r.ws = NoSock /\ r.offline /\ ~r.closed /\ ~r.terminal
        /\ c.ws # NoSock => r.socks[c.ws] = "closing"
    BY <1>2, <2>3, <2>7, StoppedIsSettled
  <2> QED
    BY <2>9 DEF r
<1> QED
  BY <1>4, <1>5

\* A store update, and what its subscribers may have called.
LEMMA NotifyLeaves ==
  ASSUME BrowserAssumption, NEW O \in SUBSET Sock, NEW c, Sane(c, O), ~c.called,
         NEW x \in Cli!Notify(c)
  PROVE  \/ x = c
         \/ /\ Settled(x, O) /\ x.called
            /\ x.ws = NoSock \/ x.ws # c.ws
            /\ c.terminal => x.closed
<1>1. PICK d \in {c, Cli!Closed(c), Cli!Paused(c)} \cup Cli!Resumed(c) \cup Cli!Resumed(Cli!Paused(c)) :
         x = [d EXCEPT !.called = d # c]
  BY DEF Cli!Notify
<1>2. c \in Link
  BY DEF Sane
<1>3. CASE d = c
  BY <1>1, <1>2, <1>3 DEF Link
<1>4. ASSUME d # c, Settled(d, O), d.ws = NoSock \/ d.ws # c.ws, c.terminal => d.closed
      PROVE  x.called /\ Settled(x, O) /\ (x.ws = NoSock \/ x.ws # c.ws) /\ (c.terminal => x.closed)
  BY <1>1, <1>4 DEF Settled, Sane, HasWay, Inert, Told, Link
<1>5. CASE d # c /\ d = Cli!Closed(c)
  BY <1>4, <1>5, ClosedSettles
<1>6. CASE d # c /\ d = Cli!Paused(c)
  <2>1. ~Inert(c)
    BY <1>6 DEF Cli!Paused, Cli!Inert, Inert
  <2> QED
    BY <1>4, <1>6, <2>1, PausedSettles DEF Inert
<1>7. CASE d # c /\ d \in Cli!Resumed(c)
  <2> DEFINE e == [c EXCEPT !.offline = FALSE]
  <2>1. c.offline /\ ~c.closed /\ ~c.terminal /\ d \in Cli!Reconnected(e)
    BY <1>7 DEF Cli!Resumed
  <2>2. Sane(e, O) /\ ~HasWay(e) /\ ~Inert(e)
    BY <1>2, <2>1 DEF Sane, HasWay, Inert, Link
  <2>3. Settled(d, O) /\ c.ws = NoSock
    BY <2>1, <2>2, ReconnectedSettles DEF Sane, HasWay, Inert
  <2> QED
    BY <1>4, <1>7, <2>1, <2>3
<1>8. CASE d # c /\ d \in Cli!Resumed(Cli!Paused(c))
  <2> DEFINE p == Cli!Paused(c)
             e == [p EXCEPT !.offline = FALSE]
  <2>1. CASE Inert(c)
    <3>1. p = c
      BY <2>1 DEF Cli!Paused, Cli!Inert, Inert
    <3> QED
      BY <1>7, <1>8, <3>1
  <2>2. CASE ~Inert(c)
    <3>1. /\ Settled(p, O) /\ p.ws = NoSock /\ p.offline /\ ~p.closed /\ ~p.terminal
          /\ c.ws # NoSock => p.socks[c.ws] = "closing"
      BY <2>2, PausedSettles
    <3>2. d \in Cli!Reconnected(e)
      BY <1>8, <3>1 DEF Cli!Resumed
    <3>3. Sane(e, O) /\ ~HasWay(e) /\ ~Inert(e) /\ e.socks = p.socks
      BY ZenonT(60), <3>1 DEF Settled, Sane, HasWay, Inert, Link
    <3>4. Settled(d, O) /\ (d.ws = NoSock \/ e.socks[d.ws] = "free")
      BY <3>2, <3>3, ReconnectedSettles
    <3>5. d.ws = NoSock \/ d.ws # c.ws
      BY <3>1, <3>3, <3>4
    <3> QED
      BY <1>4, <1>8, <2>2, <3>4, <3>5 DEF Inert
  <2> QED
    BY <2>1, <2>2
<1> QED
  BY <1>1, <1>3, <1>4, <1>5, <1>6, <1>7, <1>8

\* The same for an update of the status: nobody called back, or all is settled.
LEMMA StatusLeaves ==
  ASSUME BrowserAssumption, NEW O \in SUBSET Sock, NEW c, Sane(c, O), ~c.called,
         NEW status \in {"disconnected", "connecting", "open", "suspended", "failed"},
         NEW x \in Cli!SetStatus(c, status)
  PROVE  x = [c EXCEPT !.status = status] \/ (Settled(x, O) /\ x.called)
<1> DEFINE d == [c EXCEPT !.status = status]
<1>1. Sane(d, O) /\ ~d.called
  BY DEF Sane, HasWay, Inert, Link
<1>2. x \in Cli!Notify(d)
  BY DEF Cli!SetStatus
<1> QED
  BY <1>1, <1>2, NotifyLeaves

\* It shows what is so once nothing but the status was left to say.
LEMMA StatusTells ==
  ASSUME BrowserAssumption, NEW O \in SUBSET Sock, NEW c, Sane(c, O), ~c.called,
         Inert(c) \/ HasWay(c),
         NEW status \in {"disconnected", "connecting", "open", "suspended", "failed"},
         status \in {"open", "suspended"} => c.ws # NoSock /\ c.socks[c.ws] = "open",
         status = "failed" <=> c.closed \/ c.terminal,
         NEW x \in Cli!SetStatus(c, status)
  PROVE  Settled(x, O)
<1> DEFINE d == [c EXCEPT !.status = status]
<1>1. Settled(d, O)
  BY DEF Settled, Sane, Told, HasWay, Inert, Link
<1> QED
  BY <1>1, StatusLeaves

\* Two changes that keep what holds in the middle of a step, or end it.
LEMMA StatusKeepsAdrift ==
  ASSUME NEW O \in SUBSET Sock, NEW c, Adrift(c, O),
         NEW status \in {"disconnected", "connecting"}
  PROVE  /\ Adrift([c EXCEPT !.status = status], O) /\ Told([c EXCEPT !.status = status])
         /\ [c EXCEPT !.status = status].reserved = c.reserved
<1> DEFINE d == [c EXCEPT !.status = status]
<1>1. c \in Link
  BY DEF Adrift, Sane
<1>2. /\ d \in Link /\ d.ws = c.ws /\ d.socks = c.socks /\ d.timer = c.timer
      /\ d.preflight = c.preflight /\ d.reserved = c.reserved /\ d.attempt = c.attempt
      /\ d.tried = c.tried /\ d.closed = c.closed /\ d.terminal = c.terminal
      /\ d.offline = c.offline /\ d.called = c.called /\ d.status = status
  BY <1>1 DEF Link
<1> HIDE DEF d
<1>3. Adrift(d, O) /\ Told(d) /\ d.reserved = c.reserved
  BY <1>2 DEF Adrift, Sane, HasWay, Inert, Told
<1> QED
  BY <1>3 DEF d

LEMMA PreflightSettles ==
  ASSUME NEW O \in SUBSET Sock, NEW c, Adrift(c, O), Told(c)
  PROVE  Settled([c EXCEPT !.preflight = TRUE], O)
<1> DEFINE d == [c EXCEPT !.preflight = TRUE]
<1>1. c \in Link
  BY DEF Adrift, Sane
<1>2. /\ d \in Link /\ d.ws = c.ws /\ d.socks = c.socks /\ d.timer = c.timer
      /\ d.preflight /\ d.reserved = c.reserved /\ d.attempt = c.attempt
      /\ d.tried = c.tried /\ d.closed = c.closed /\ d.terminal = c.terminal
      /\ d.offline = c.offline /\ d.status = c.status
  BY <1>1 DEF Link
<1> HIDE DEF d
<1>3. Settled(d, O)
  BY <1>2 DEF Settled, Adrift, Sane, HasWay, Inert, Told
<1> QED
  BY <1>3 DEF d

\* doConnect, by whomever it is called.
LEMMA DoConnectSettles ==
  ASSUME BrowserAssumption, NEW c, Sane(c, {}), Told(c), ~c.called, ~Inert(c),
         c.timer = "none", NEW x \in Cli!DoConnect(c)
  PROVE  Settled(x, {})
<1> DEFINE begun == [Cli!NewGeneration(c) EXCEPT !.ws = NoSock]
           dropped == IF c.ws = NoSock THEN {begun} ELSE Cli!SetStatus(begun, "disconnected")
<1> USE DEF Cli!Inert
<1>1. CASE Cli!Live(c) \/ c.preflight
  <2>1. x = c
    BY <1>1 DEF Cli!DoConnect
  <2>2. HasWay(c)
    BY <1>1 DEF Cli!Live, HasWay
  <2> QED
    BY <2>1, <2>2 DEF Settled
<1>2. CASE ~Cli!Live(c) /\ ~c.preflight /\ c.timer = "none"
  <2>1. c \in Link /\ begun = [c EXCEPT !.ws = NoSock]
    BY <1>2 DEF Sane, Cli!NewGeneration
  <2>2. /\ begun \in Link /\ begun.ws = NoSock /\ begun.socks = c.socks
        /\ begun.timer = "none" /\ ~begun.preflight /\ begun.reserved = c.reserved
        /\ begun.attempt = c.attempt /\ begun.tried = c.tried /\ begun.closed = c.closed
        /\ begun.terminal = c.terminal /\ begun.offline = c.offline /\ begun.status = c.status
        /\ ~begun.called
    BY <1>2, <2>1 DEF Link
  <2>3. c.ws # NoSock => c.ws \in Sock /\ c.socks[c.ws] = "closing"
    BY <1>2, <2>1 DEF Cli!Live, Sane, Link
  <2>4. Adrift(begun, {})
    BY <2>2, <2>3 DEF Adrift, Sane, HasWay, Inert
  <2>5. PICK d \in dropped :
          x \in IF ~Cli!Current(d) THEN {d}
                ELSE UNION {IF ~Cli!Current(e) THEN {e}
                            ELSE IF auth THEN {[e EXCEPT !.preflight = TRUE]}
                            ELSE Cli!OpenSocket(e) : e \in Cli!SetStatus(d, "connecting")}
    BY <1>2 DEF Cli!DoConnect, Inert
  <2>6. d = begun \/ d = [begun EXCEPT !.status = "disconnected"] \/ (Settled(d, {}) /\ d.called)
    BY <2>4, StatusLeaves DEF Adrift
  <2>7. CASE Settled(d, {}) /\ d.called
    BY <2>5, <2>7 DEF Cli!Current
  <2>8. CASE d = begun \/ d = [begun EXCEPT !.status = "disconnected"]
    <3> HIDE DEF begun
    <3>1. Adrift(d, {})
      BY <2>4, <2>8, StatusKeepsAdrift
    <3>2. Cli!Current(d)
      BY <3>1 DEF Adrift, Cli!Current, Inert
    <3>3. PICK e \in Cli!SetStatus(d, "connecting") :
            x \in IF ~Cli!Current(e) THEN {e}
                  ELSE IF auth THEN {[e EXCEPT !.preflight = TRUE]} ELSE Cli!OpenSocket(e)
      BY <2>5, <3>2
    <3>4. e = [d EXCEPT !.status = "connecting"] \/ (Settled(e, {}) /\ e.called)
      BY <3>1, StatusLeaves DEF Adrift
    <3>5. CASE Settled(e, {}) /\ e.called
      BY <3>3, <3>5 DEF Cli!Current
    <3>6. CASE e = [d EXCEPT !.status = "connecting"]
      <4>1. Adrift(e, {}) /\ Told(e)
        BY <3>1, <3>6, StatusKeepsAdrift
      <4>2. x \in IF auth THEN {[e EXCEPT !.preflight = TRUE]} ELSE Cli!OpenSocket(e)
        BY <3>3, <4>1 DEF Adrift, Cli!Current, Inert
      <4>3. CASE auth
        BY <4>1, <4>2, <4>3, PreflightSettles
      <4>4. CASE ~auth
        BY <4>1, <4>2, <4>4, OpenSocketSettles DEF Adrift
      <4> QED
        BY <4>3, <4>4
    <3> QED
      BY <3>4, <3>5, <3>6
  <2> QED
    BY <2>6, <2>7, <2>8
<1> QED
  BY <1>1, <1>2

\* A refusal for good is published, then shown.
LEMMA GivenUpSettles ==
  ASSUME BrowserAssumption, NEW c, Sane(c, {}), c.terminal, ~c.called,
         NEW x \in UNION {Cli!SetStatus(d, "failed") : d \in Cli!Notify(c)}
  PROVE  Settled(x, {})
<1>1. PICK d \in Cli!Notify(c) : x \in Cli!SetStatus(d, "failed")
  OBVIOUS
<1>2. CASE d = c
  BY <1>1, <1>2, StatusTells DEF Inert
<1>3. CASE Settled(d, {}) /\ d.called /\ d.closed
  <2>1. x = [d EXCEPT !.status = "failed"]
    BY <1>1, <1>3 DEF Cli!SetStatus, Cli!Notify, Settled, Sane, Link
  <2> QED
    BY <1>3, <2>1 DEF Settled, Sane, HasWay, Inert, Link, Told
<1> QED
  BY <1>1, <1>2, <1>3, NotifyLeaves

\* A drop is published, shown and followed by a retry.
LEMMA DroppedSettles ==
  ASSUME BrowserAssumption, NEW c, Adrift(c, {}), ~c.reserved, NEW dispersed \in BOOLEAN,
         NEW x \in Cli!Dropped(c, dispersed)
  PROVE  Settled(x, {})
<1> USE DEF Cli!Inert
<1>1. PICK d \in Cli!Notify(c) :
        x \in IF ~Cli!Current(d) THEN {d}
              ELSE {IF Cli!Current(e) THEN Cli!Schedule(e, dispersed) ELSE e :
                      e \in Cli!SetStatus(IF dispersed THEN Cli!Reset(d) ELSE d, "disconnected")}
  BY DEF Cli!Dropped
<1>2. d = c \/ (Settled(d, {}) /\ d.called)
  BY NotifyLeaves DEF Adrift
<1>3. CASE Settled(d, {}) /\ d.called
  BY <1>1, <1>3 DEF Cli!Current
<1>4. CASE d = c
  <2> DEFINE r == IF dispersed THEN Cli!Reset(c) ELSE c
             n == [r EXCEPT !.status = "disconnected"]
  <2>1. Cli!Current(d)
    BY <1>4 DEF Adrift, Cli!Current, Inert
  <2>2. Adrift(r, {}) /\ ~r.reserved
    <3>1. CASE ~dispersed
      BY <3>1
    <3>2. CASE dispersed = TRUE
      <4>1. r = [c EXCEPT !.attempt = 0, !.tried = 0] /\ c \in Link
        BY <3>2 DEF Cli!Reset, Adrift, Sane
      <4>2. /\ r \in Link /\ r.ws = c.ws /\ r.socks = c.socks /\ r.timer = c.timer
            /\ r.preflight = c.preflight /\ r.reserved = c.reserved /\ r.attempt = 0
            /\ r.tried = 0 /\ r.closed = c.closed /\ r.terminal = c.terminal
            /\ r.offline = c.offline /\ r.called = c.called
        <5> HIDE DEF r
        <5> QED
          BY <4>1 DEF Link
      <4> HIDE DEF r
      <4>3. Sane(r, {})
        BY <4>2 DEF Adrift, Sane, HasWay, Inert, BrowserAssumption
      <4>4. ~HasWay(r) /\ ~Inert(r) /\ ~r.called /\ ~r.reserved
        BY <4>2 DEF Adrift, HasWay, Inert
      <4> QED
        BY <4>3, <4>4 DEF Adrift
    <3> QED
      BY <3>1, <3>2
  <2> HIDE DEF r
  <2>3. PICK e \in Cli!SetStatus(r, "disconnected") :
          x = IF Cli!Current(e) THEN Cli!Schedule(e, dispersed) ELSE e
    BY <1>1, <1>4, <2>1 DEF r
  <2>4. e = n \/ (Settled(e, {}) /\ e.called)
    BY <2>2, StatusLeaves DEF Adrift
  <2>5. Adrift(n, {}) /\ Told(n) /\ ~n.reserved
    BY <2>2, StatusKeepsAdrift
  <2> HIDE DEF n
  <2>6. CASE Settled(e, {}) /\ e.called
    BY <2>3, <2>6 DEF Cli!Current
  <2>7. CASE e = n
    BY <2>3, <2>5, <2>7, ScheduleSettles DEF Adrift, Cli!Current, Inert
  <2> QED
    BY <2>4, <2>6, <2>7
<1> QED
  BY <1>2, <1>3, <1>4

\* A retry came to an outcome with its way, and the connection has none.
LEMMA WayEnds ==
  ASSUME BrowserAssumption, NEW c, Sane(c, {}), ~Inert(c), ~c.called,
         NEW d \in Link, d.ws = NoSock, d.timer = "none", ~d.preflight, ~d.called,
         d.attempt = c.attempt, ~d.reserved,
         d.tried = (IF c.reserved THEN c.tried + 1 ELSE c.tried),
         d.closed = c.closed, d.offline = c.offline,
         \A s \in Sock : d.socks[s] \in {"free", "closing"}
  PROVE  Sane(d, {}) /\ (d.terminal = c.terminal => Adrift(d, {}))
<1>1. c \in Link /\ c.attempt \in Nat /\ c.tried \in Nat
  BY DEF Sane, Link
<1> QED
  BY <1>1 DEF Adrift, Sane, HasWay, Inert

LEMMA InitSettles == ASSUME BrowserAssumption, Cli!Init PROVE LinkInv
<1> DEFINE f == Cli!Fresh
<1>1. conn \in Cli!Reconnected(f)
  BY DEF Cli!Init
<1>2. f \in Link
  BY DEF Cli!Fresh, Link
<1>3. Sane(f, {}) /\ ~HasWay(f) /\ ~Inert(f)
  BY <1>2 DEF Cli!Fresh, Sane, HasWay, Inert, BrowserAssumption
<1> QED
  BY <1>1, <1>3, ReconnectedSettles DEF LinkInv

\* A step begins with nobody having called back.
LEMMA NowIsSettled ==
  ASSUME LinkInv
  PROVE  /\ Settled(Cli!Now, {}) /\ ~Cli!Now.called /\ Cli!Now \in Link
         /\ Cli!Now.ws = conn.ws /\ Cli!Now.socks = conn.socks /\ Cli!Now.timer = conn.timer
         /\ Cli!Now.preflight = conn.preflight /\ Cli!Now.reserved = conn.reserved
         /\ Cli!Now.attempt = conn.attempt /\ Cli!Now.tried = conn.tried
         /\ Cli!Now.closed = conn.closed /\ Cli!Now.terminal = conn.terminal
         /\ Cli!Now.offline = conn.offline /\ Cli!Now.status = conn.status
         /\ Inert(Cli!Now) = Inert(conn) /\ HasWay(Cli!Now) = HasWay(conn)
<1> DEFINE n == Cli!Now
<1>1. conn \in Link /\ n = [conn EXCEPT !.called = FALSE]
  BY DEF Cli!Now, LinkInv, Settled, Sane
<1>2. /\ n \in Link /\ n.ws = conn.ws /\ n.socks = conn.socks /\ n.timer = conn.timer
      /\ n.preflight = conn.preflight /\ n.reserved = conn.reserved /\ n.attempt = conn.attempt
      /\ n.tried = conn.tried /\ n.closed = conn.closed /\ n.terminal = conn.terminal
      /\ n.offline = conn.offline /\ n.status = conn.status /\ ~n.called
  BY <1>1 DEF Link
<1> HIDE DEF n
<1>3. Settled(n, {}) /\ Inert(n) = Inert(conn) /\ HasWay(n) = HasWay(conn)
  BY <1>2 DEF LinkInv, Settled, Sane, Told, HasWay, Inert
<1> QED
  BY <1>2, <1>3 DEF n

LEMMA TimerSettles == ASSUME BrowserAssumption, LinkInv, Cli!TimerFires PROVE LinkInv'
<1> DEFINE n == Cli!Now
           c == [n EXCEPT !.timer = "none"]
<1>1. conn.timer = "armed"
  BY DEF Cli!TimerFires, LinkInv, Settled, Sane
<1>2. conn' \in Cli!DoConnect(c)
  BY <1>1 DEF Cli!TimerFires, Cli!Become
<1>3. /\ Settled(n, {}) /\ ~n.called /\ n \in Link /\ n.timer = "armed"
  BY <1>1, NowIsSettled
<1> HIDE DEF n
<1>4. /\ c \in Link /\ c.ws = n.ws /\ c.socks = n.socks /\ c.timer = "none"
      /\ c.preflight = n.preflight /\ c.reserved = n.reserved /\ c.attempt = n.attempt
      /\ c.tried = n.tried /\ c.closed = n.closed /\ c.terminal = n.terminal
      /\ c.offline = n.offline /\ c.status = n.status /\ ~c.called
  BY <1>3 DEF Link
<1> HIDE DEF c
<1>5. Sane(c, {}) /\ Told(c) /\ ~Inert(c)
  BY <1>3, <1>4 DEF Settled, Sane, Told, HasWay, Inert
<1> QED
  BY <1>2, <1>4, <1>5, DoConnectSettles DEF LinkInv

LEMMA PreflightOkSettles == ASSUME BrowserAssumption, LinkInv, Cli!PreflightOk PROVE LinkInv'
<1> DEFINE n == Cli!Now
           c == [n EXCEPT !.preflight = FALSE]
<1>1. conn.preflight /\ conn' \in Cli!OpenSocket(c)
  BY DEF Cli!PreflightOk, Cli!Become
<1>2. /\ Settled(n, {}) /\ n \in Link /\ n.preflight
  BY <1>1, NowIsSettled
<1> HIDE DEF n
<1>3. /\ c \in Link /\ c.ws = n.ws /\ c.socks = n.socks /\ c.timer = n.timer
      /\ ~c.preflight /\ c.reserved = n.reserved /\ c.attempt = n.attempt
      /\ c.tried = n.tried /\ c.closed = n.closed /\ c.terminal = n.terminal
      /\ c.offline = n.offline /\ c.status = n.status
  BY <1>2 DEF Link
<1> HIDE DEF c
<1>4. Sane(c, {}) /\ Told(c) /\ ~Inert(c) /\ ~HasWay(c)
  BY <1>2, <1>3 DEF Settled, Sane, Told, HasWay, Inert
<1> QED
  BY <1>1, <1>4, OpenSocketSettles DEF LinkInv

\* The preflight came to an outcome.
LEMMA PreflightEnds ==
  ASSUME BrowserAssumption, LinkInv, conn.preflight,
         NEW d, d \in {[Cli!Outcome(Cli!Now) EXCEPT !.preflight = FALSE],
                       [Cli!Outcome(Cli!Now) EXCEPT !.preflight = FALSE, !.terminal = TRUE]}
  PROVE  /\ Sane(d, {}) /\ ~d.called /\ ~d.reserved
         /\ d = [Cli!Outcome(Cli!Now) EXCEPT !.preflight = FALSE] => Adrift(d, {})
         /\ d = [Cli!Outcome(Cli!Now) EXCEPT !.preflight = FALSE, !.terminal = TRUE] => d.terminal
<1> DEFINE n == Cli!Now
           o == Cli!Outcome(n)
<1>1. /\ Settled(n, {}) /\ n \in Link /\ n.preflight /\ ~n.called
  BY NowIsSettled
<1> HIDE DEF n
<1>2. n.tried + 1 \in Nat /\ n.tried \in Nat
  BY <1>1 DEF Link
<1>3. /\ o \in Link /\ o.ws = n.ws /\ o.socks = n.socks /\ o.timer = n.timer
      /\ ~o.reserved /\ o.attempt = n.attempt /\ ~o.called
      /\ o.tried = (IF n.reserved THEN n.tried + 1 ELSE n.tried)
      /\ o.closed = n.closed /\ o.terminal = n.terminal /\ o.offline = n.offline
  BY <1>1, <1>2 DEF Cli!Outcome, Link
<1> HIDE DEF o
<1>4. d \in {[o EXCEPT !.preflight = FALSE], [o EXCEPT !.preflight = FALSE, !.terminal = TRUE]}
  BY DEF o, n
<1>5. /\ d \in Link /\ d.ws = n.ws /\ d.socks = n.socks /\ d.timer = n.timer /\ ~d.preflight
      /\ ~d.reserved /\ d.attempt = n.attempt /\ ~d.called /\ d.tried = o.tried
      /\ d.closed = n.closed /\ d.offline = n.offline
      /\ d = [o EXCEPT !.preflight = FALSE] => d.terminal = n.terminal
      /\ d = [o EXCEPT !.preflight = FALSE, !.terminal = TRUE] => d.terminal
  <2>1. CASE d = [o EXCEPT !.preflight = FALSE]
    <3>1. /\ d \in Link /\ d.ws = o.ws /\ d.socks = o.socks /\ d.timer = o.timer /\ ~d.preflight
          /\ d.reserved = o.reserved /\ d.attempt = o.attempt /\ d.called = o.called
          /\ d.tried = o.tried /\ d.closed = o.closed /\ d.offline = o.offline
          /\ d.terminal = o.terminal
      BY <1>3, <2>1 DEF Link
    <3> HIDE <2>1
    <3>2. d = [o EXCEPT !.preflight = FALSE, !.terminal = TRUE] => d.terminal
      BY <1>3 DEF Link
    <3> QED
      BY <1>3, <3>1, <3>2
  <2>2. CASE d = [o EXCEPT !.preflight = FALSE, !.terminal = TRUE]
    <3>1. /\ d \in Link /\ d.ws = o.ws /\ d.socks = o.socks /\ d.timer = o.timer /\ ~d.preflight
          /\ d.reserved = o.reserved /\ d.attempt = o.attempt /\ d.called = o.called
          /\ d.tried = o.tried /\ d.closed = o.closed /\ d.offline = o.offline
          /\ d.terminal
      BY <1>3, <2>2 DEF Link
    <3> HIDE <2>2
    <3>2. d = [o EXCEPT !.preflight = FALSE] => d.terminal = n.terminal
      BY <1>3 DEF Link
    <3> QED
      BY <1>3, <3>1, <3>2
  <2> QED
    BY <1>4, <2>1, <2>2
<1>6. /\ n.ws = NoSock /\ n.timer = "none" /\ ~Inert(n)
      /\ \A s \in Sock : n.socks[s] \in {"free", "closing"}
  BY <1>1 DEF Settled, Sane, HasWay, BrowserAssumption
<1>7. Sane(d, {}) /\ (d.terminal = n.terminal => Adrift(d, {}))
  BY <1>1, <1>3, <1>5, <1>6, WayEnds DEF Settled
<1> QED
  BY <1>5, <1>7 DEF o, n

LEMMA RefusedSettles == ASSUME BrowserAssumption, LinkInv, Cli!PreflightRefused PROVE LinkInv'
<1> DEFINE c == [Cli!Outcome(Cli!Now) EXCEPT !.preflight = FALSE, !.terminal = TRUE]
<1>1. conn.preflight /\ conn' \in UNION {Cli!SetStatus(d, "failed") : d \in Cli!Notify(c)}
  BY DEF Cli!PreflightRefused, Cli!Become
<1>2. Sane(c, {}) /\ ~c.called /\ c.terminal
  BY <1>1, PreflightEnds
<1> HIDE DEF c
<1> QED
  BY <1>1, <1>2, GivenUpSettles DEF LinkInv

LEMMA FailsSettles == ASSUME BrowserAssumption, LinkInv, Cli!PreflightFails PROVE LinkInv'
<1> DEFINE c == [Cli!Outcome(Cli!Now) EXCEPT !.preflight = FALSE]
<1>1. conn.preflight /\ conn' \in Cli!Dropped(c, FALSE)
  BY DEF Cli!PreflightFails, Cli!Become
<1>2. Adrift(c, {}) /\ ~c.reserved
  BY <1>1, PreflightEnds
<1> HIDE DEF c
<1> QED
  BY <1>1, <1>2, DroppedSettles DEF LinkInv

LEMMA OpensSettles ==
  ASSUME BrowserAssumption, LinkInv, NEW s \in Sock, Cli!SocketOpens(s) PROVE LinkInv'
<1> DEFINE n == Cli!Now
           c == [n EXCEPT !.socks[s] = "open"]
           d == [Cli!Reset(c) EXCEPT !.reserved = FALSE, !.advisory = FALSE]
<1>1. /\ Settled(n, {}) /\ n \in Link /\ ~n.called /\ n.ws = conn.ws /\ n.socks = conn.socks
      /\ conn.socks[s] = "connecting"
  BY NowIsSettled DEF Cli!SocketOpens
<1>2. n.ws = s /\ s # NoSock /\ ~Inert(n)
  BY <1>1 DEF Settled, Sane, HasWay, BrowserAssumption
<1>3. PICK e \in Cli!Notify(d) :
        conn' \in IF e.ws # s THEN {e} ELSE UNION {Cli!SetStatus(e, x) : x \in {"open", "suspended"}}
  BY <1>1, <1>2 DEF Cli!SocketOpens, Cli!Replaced, Cli!Become
<1> HIDE DEF n
<1>4. /\ c \in Link /\ c.ws = s /\ c.socks = [n.socks EXCEPT ![s] = "open"] /\ c.timer = n.timer
      /\ c.preflight = n.preflight /\ c.closed = n.closed /\ c.terminal = n.terminal
      /\ c.offline = n.offline /\ c.status = n.status /\ ~c.called
  BY <1>1, <1>2 DEF Link
<1> HIDE DEF c
<1>5. /\ d \in Link /\ d.ws = s /\ d.socks = [n.socks EXCEPT ![s] = "open"] /\ d.timer = n.timer
      /\ d.preflight = n.preflight /\ d.closed = n.closed /\ d.terminal = n.terminal
      /\ d.offline = n.offline /\ d.status = n.status /\ ~d.called
      /\ d.attempt = 0 /\ d.tried = 0 /\ ~d.reserved
  BY <1>4 DEF Cli!Reset, Link
<1> HIDE DEF d
<1>6. n.socks \in [Sock -> {"free", "connecting", "open", "closing"}]
  BY <1>1 DEF Link
<1>7. Sane(d, {}) /\ ~Inert(d) /\ HasWay(d) /\ d.socks[d.ws] = "open"
  BY <1>1, <1>2, <1>5, <1>6 DEF Settled, Sane, HasWay, Inert, BrowserAssumption
<1>8. CASE e = d
  <2>1. PICK x \in {"open", "suspended"} : conn' \in Cli!SetStatus(d, x)
    BY <1>3, <1>5, <1>8
  <2>2. ~d.closed /\ ~d.terminal /\ d.ws # NoSock
    BY <1>2, <1>5, <1>7 DEF Inert
  <2> QED
    BY <1>5, <1>7, <2>1, <2>2, StatusTells DEF LinkInv
<1>9. CASE Settled(e, {}) /\ (e.ws = NoSock \/ e.ws # d.ws)
  BY <1>2, <1>3, <1>5, <1>9 DEF LinkInv
<1> QED
  BY <1>5, <1>7, <1>8, <1>9, NotifyLeaves

LEMMA ClosesSettles ==
  ASSUME BrowserAssumption, LinkInv, NEW s \in Sock, Cli!SocketCloses(s) PROVE LinkInv'
<1> DEFINE n == Cli!Now
           c == [n EXCEPT !.socks[s] = "free"]
           o == Cli!Outcome(c)
           d == [o EXCEPT !.ws = NoSock]
           e == [d EXCEPT !.advisory = FALSE]
           t == [d EXCEPT !.terminal = TRUE]
<1>1. /\ Settled(n, {}) /\ n \in Link /\ ~n.called /\ n.ws = conn.ws
  BY NowIsSettled
<1>2. IF conn.ws # s THEN conn' = c
      ELSE \/ conn' \in UNION {Cli!SetStatus(x, "failed") : x \in Cli!Notify(t)}
           \/ conn' \in Cli!Dropped(e, FALSE)
           \/ conn' \in Cli!Dropped(e, TRUE)
  BY DEF Cli!SocketCloses, Cli!Replaced, Cli!Become
<1> HIDE DEF n
<1>3. /\ c \in Link /\ c.ws = n.ws /\ c.socks = [n.socks EXCEPT ![s] = "free"] /\ c.timer = n.timer
      /\ c.preflight = n.preflight /\ c.closed = n.closed /\ c.terminal = n.terminal
      /\ c.offline = n.offline /\ c.status = n.status /\ ~c.called
      /\ c.reserved = n.reserved /\ c.attempt = n.attempt /\ c.tried = n.tried
  BY <1>1 DEF Link
<1>4. /\ n.socks \in [Sock -> {"free", "connecting", "open", "closing"}]
      /\ n.tried \in Nat /\ n.tried + 1 \in Nat /\ n.attempt \in Nat
  BY <1>1 DEF Link
<1> HIDE DEF c
<1>5. CASE conn.ws # s
  <2>1. conn' = c
    BY <1>2, <1>5
  <2>2. Settled(c, {})
    BY <1>1, <1>3, <1>4, <1>5 DEF Settled, Sane, HasWay, Inert, Told
  <2> QED
    BY <2>1, <2>2 DEF LinkInv
<1>6. CASE conn.ws = s
  <2>1. n.ws = s /\ s # NoSock /\ ~Inert(n) /\ n.timer = "none" /\ ~n.preflight
    BY <1>1, <1>6 DEF Settled, Sane, HasWay, BrowserAssumption
  <2>2. \A x \in Sock : c.socks[x] \in {"free", "closing"}
    BY <1>1, <1>3, <1>4, <2>1 DEF Settled, Sane
  <2>3. /\ o \in Link /\ o.socks = c.socks /\ o.timer = n.timer
        /\ o.preflight = n.preflight /\ o.closed = n.closed /\ o.terminal = n.terminal
        /\ o.offline = n.offline /\ ~o.called /\ ~o.reserved /\ o.attempt = n.attempt
        /\ o.tried = (IF n.reserved THEN n.tried + 1 ELSE n.tried)
    BY <1>3, <1>4 DEF Cli!Outcome, Link
  <2> HIDE DEF o
  <2>4. /\ d \in Link /\ d.ws = NoSock /\ d.socks = c.socks /\ d.timer = n.timer
        /\ d.preflight = n.preflight /\ d.closed = n.closed /\ d.terminal = n.terminal
        /\ d.offline = n.offline /\ ~d.called /\ ~d.reserved /\ d.attempt = n.attempt
        /\ d.tried = (IF n.reserved THEN n.tried + 1 ELSE n.tried)
    BY <2>3 DEF Link
  <2> HIDE DEF d
  <2>5. /\ e \in Link /\ e.ws = NoSock /\ e.socks = c.socks /\ e.timer = n.timer
        /\ e.preflight = n.preflight /\ e.closed = n.closed /\ e.terminal = n.terminal
        /\ e.offline = n.offline /\ ~e.called /\ ~e.reserved /\ e.attempt = n.attempt
        /\ e.tried = (IF n.reserved THEN n.tried + 1 ELSE n.tried)
    BY <2>4 DEF Link
  <2>6. /\ t \in Link /\ t.ws = NoSock /\ t.socks = c.socks /\ t.timer = n.timer
        /\ t.preflight = n.preflight /\ t.closed = n.closed /\ t.terminal
        /\ t.offline = n.offline /\ ~t.called /\ ~t.reserved /\ t.attempt = n.attempt
        /\ t.tried = (IF n.reserved THEN n.tried + 1 ELSE n.tried)
    BY <2>4 DEF Link
  <2> HIDE DEF e, t
  <2>7. Adrift(e, {}) /\ Sane(t, {})
    BY <1>1, <2>1, <2>2, <2>5, <2>6, WayEnds DEF Settled
  <2> QED
    BY <1>2, <1>6, <2>5, <2>6, <2>7, GivenUpSettles, DroppedSettles DEF LinkInv
<1> QED
  BY <1>5, <1>6

LEMMA DistrustSettles == ASSUME BrowserAssumption, LinkInv, Cli!Distrust PROVE LinkInv'
<1> DEFINE n == Cli!Now
<1>1. /\ Settled(n, {}) /\ n \in Link /\ ~n.called /\ n.ws = conn.ws /\ n.socks = conn.socks
      /\ ~Inert(n) /\ conn.ws # NoSock
  BY NowIsSettled DEF Cli!Distrust, Cli!Live, Cli!Inert, Inert
<1>2. PICK reset \in BOOLEAN :
        /\ reset => conn.socks[conn.ws] = "open"
        /\ conn' \in Cli!Disconnect(IF reset THEN Cli!Reset(n) ELSE n)
  BY DEF Cli!Distrust, Cli!Become
<1> DEFINE r == IF reset THEN Cli!Reset(n) ELSE n
           c == [r EXCEPT !.socks[n.ws] = "closing"]
<1> HIDE DEF n
<1>3. /\ r \in Link /\ r.ws = n.ws /\ r.socks = n.socks /\ r.timer = n.timer
      /\ r.preflight = n.preflight /\ r.closed = n.closed /\ r.terminal = n.terminal
      /\ r.offline = n.offline /\ ~r.called /\ r.reserved = n.reserved
      /\ r.attempt = (IF reset THEN 0 ELSE n.attempt) /\ r.tried = (IF reset THEN 0 ELSE n.tried)
  <2>1. r = n \/ r = [n EXCEPT !.attempt = 0, !.tried = 0]
    BY DEF Cli!Reset
  <2>2. CASE ~reset
    BY <1>1, <2>2
  <2>3. CASE reset = TRUE
    <3>1. r = [n EXCEPT !.attempt = 0, !.tried = 0]
      BY <2>3 DEF Cli!Reset
    <3> HIDE DEF r
    <3> QED
      BY <1>1, <2>3, <3>1 DEF Link
  <2> QED
    BY <2>2, <2>3
<1> HIDE DEF r
<1>4. /\ n.socks \in [Sock -> {"free", "connecting", "open", "closing"}]
      /\ n.ws \in Sock /\ n.socks[n.ws] # "free" /\ n.attempt \in Nat /\ n.tried \in Nat
  BY <1>1 DEF Settled, Sane, Link
<1>5. /\ c \in Link /\ c.ws = n.ws /\ c.socks = [n.socks EXCEPT ![n.ws] = "closing"]
      /\ c.timer = n.timer /\ c.preflight = n.preflight /\ c.closed = n.closed
      /\ c.terminal = n.terminal /\ c.offline = n.offline /\ ~c.called /\ c.reserved = n.reserved
      /\ c.attempt = r.attempt /\ c.tried = r.tried
  BY <1>3, <1>4 DEF Link
<1>6. Cli!Shut(r, r.ws) = c
  BY <1>1, <1>3, <1>4 DEF Cli!Shut
<1>7. conn' \in Cli!SetStatus(c, "disconnected")
  BY <1>2, <1>6 DEF Cli!Disconnect, r
<1> HIDE DEF c
<1>8. Sane(c, {}) /\ ~Inert(c) /\ HasWay(c)
  BY <1>1, <1>2, <1>3, <1>4, <1>5 DEF Settled, Sane, HasWay, Inert, BrowserAssumption
<1> QED
  BY <1>5, <1>7, <1>8, StatusTells DEF LinkInv, Inert

LEMMA AdvisedSettles == ASSUME BrowserAssumption, LinkInv, Cli!Advised PROVE LinkInv'
<1> DEFINE n == Cli!Now
           c == [n EXCEPT !.advisory = TRUE]
<1>1. conn' = c
  BY DEF Cli!Advised, Cli!Become
<1>2. Settled(n, {}) /\ n \in Link
  BY NowIsSettled
<1> HIDE DEF n
<1>3. /\ c \in Link /\ c.ws = n.ws /\ c.socks = n.socks /\ c.timer = n.timer
      /\ c.preflight = n.preflight /\ c.reserved = n.reserved /\ c.attempt = n.attempt
      /\ c.tried = n.tried /\ c.closed = n.closed /\ c.terminal = n.terminal
      /\ c.offline = n.offline /\ c.status = n.status
  BY <1>2 DEF Link
<1> HIDE DEF c
<1>4. Settled(c, {})
  BY <1>2, <1>3 DEF Settled, Sane, Told, HasWay, Inert
<1> QED
  BY <1>1, <1>4 DEF LinkInv

LEMMA WakeSettles == ASSUME BrowserAssumption, LinkInv, Cli!Wake PROVE LinkInv'
<1> DEFINE n == Cli!Now
           r == Cli!Reset(n)
           c == Cli!ClearReconnect(r, FALSE)
<1>1. conn' \in Cli!DoConnect(c) /\ Settled(n, {}) /\ n \in Link /\ ~n.called /\ ~Inert(n)
  BY NowIsSettled DEF Cli!Wake, Cli!Become, Cli!Inert, Inert
<1> HIDE DEF n
<1>2. /\ r \in Link /\ r.ws = n.ws /\ r.socks = n.socks /\ r.timer = n.timer
      /\ r.preflight = n.preflight /\ r.attempt = 0 /\ r.tried = 0
      /\ r.closed = n.closed /\ r.terminal = n.terminal
      /\ r.offline = n.offline /\ r.status = n.status /\ ~r.called
  BY <1>1 DEF Cli!Reset, Link
<1> HIDE DEF r
<1>3. c = [r EXCEPT !.timer = "none", !.attempt = 0, !.reserved = FALSE]
  BY <1>2 DEF Cli!ClearReconnect
<1>4. /\ c \in Link /\ c.ws = n.ws /\ c.socks = n.socks /\ c.timer = "none"
      /\ c.preflight = n.preflight /\ ~c.reserved /\ c.attempt = 0 /\ c.tried = 0
      /\ c.closed = n.closed /\ c.terminal = n.terminal
      /\ c.offline = n.offline /\ c.status = n.status /\ ~c.called
  <2> HIDE DEF c
  <2> QED
    BY <1>2, <1>3 DEF Link
<1> HIDE DEF c
<1>5. Sane(c, {}) /\ Told(c) /\ ~Inert(c)
  BY <1>1, <1>4 DEF Settled, Sane, Told, HasWay, Inert, BrowserAssumption
<1> QED
  BY <1>1, <1>4, <1>5, DoConnectSettles DEF LinkInv

LEMMA ShownSettles ==
  ASSUME BrowserAssumption, LinkInv,
         Cli!BrowserOffline \/ \E status \in {"open", "suspended"} : Cli!Shown(status)
  PROVE  LinkInv'
<1> DEFINE n == Cli!Now
<1>1. PICK status \in {"disconnected", "open", "suspended"} :
        /\ conn' \in Cli!SetStatus(n, status) /\ ~Inert(conn)
        /\ status \in {"open", "suspended"} => conn.ws # NoSock /\ conn.socks[conn.ws] = "open"
  BY DEF Cli!BrowserOffline, Cli!Shown, Cli!Live, Cli!Become, Cli!Inert, Inert
<1>2. /\ Settled(n, {}) /\ ~n.called /\ n.ws = conn.ws /\ n.socks = conn.socks /\ ~Inert(n)
  BY <1>1, NowIsSettled
<1> HIDE DEF n
<1>3. ~n.closed /\ ~n.terminal /\ (Inert(n) \/ HasWay(n)) /\ Sane(n, {})
  BY <1>2 DEF Settled, Inert
<1> QED
  BY <1>1, <1>2, <1>3, StatusTells DEF LinkInv

LEMMA CloseSettles == ASSUME BrowserAssumption, LinkInv, Cli!Close PROVE LinkInv'
<1>1. conn' = Cli!Closed(Cli!Now) /\ Sane(Cli!Now, {})
  BY NowIsSettled DEF Cli!Close, Cli!Become, Settled
<1> QED
  BY <1>1, ClosedSettles DEF LinkInv

LEMMA ResumeSettles == ASSUME BrowserAssumption, LinkInv, Cli!ResumeOnline PROVE LinkInv'
<1> DEFINE n == Cli!Now
           c == [n EXCEPT !.offline = FALSE]
<1>1. conn' \in Cli!DoConnect(c) /\ ~conn.closed /\ ~conn.terminal /\ conn.offline
  BY DEF Cli!ResumeOnline, Cli!Become
<1>2. Settled(n, {}) /\ n \in Link /\ ~n.called /\ ~n.closed /\ ~n.terminal /\ n.offline
  BY <1>1, NowIsSettled
<1> HIDE DEF n
<1>3. /\ c \in Link /\ c.ws = n.ws /\ c.socks = n.socks /\ c.timer = n.timer
      /\ c.preflight = n.preflight /\ c.reserved = n.reserved /\ c.attempt = n.attempt
      /\ c.tried = n.tried /\ ~c.closed /\ ~c.terminal /\ ~c.offline /\ c.status = n.status
      /\ ~c.called
  BY <1>2 DEF Link
<1> HIDE DEF c
<1>4. Sane(c, {}) /\ Told(c) /\ ~Inert(c) /\ c.timer = "none"
  BY <1>2, <1>3 DEF Settled, Sane, Told, HasWay, Inert
<1> QED
  BY <1>1, <1>3, <1>4, DoConnectSettles DEF LinkInv

LEMMA OfflineSettles == ASSUME BrowserAssumption, LinkInv, Cli!SimulateOffline PROVE LinkInv'
<1> DEFINE n == Cli!Now
           a == [n EXCEPT !.offline = TRUE]
           b == Cli!CancelAttempt(a)
           d == Cli!ClearReconnect(b, TRUE)
           m == [d EXCEPT !.ws = NoSock, !.advisory = FALSE]
           O == IF conn.ws = NoSock THEN {} ELSE {conn.ws}
<1>1. PICK e \in Cli!SetStatus(m, "disconnected") : conn' = Cli!Shut(e, conn.ws)
  BY DEF Cli!SimulateOffline, Cli!Become
<1>2. /\ Settled(n, {}) /\ n \in Link /\ ~n.called /\ ~Inert(n) /\ n.ws = conn.ws
      /\ n.socks = conn.socks
  BY NowIsSettled DEF Cli!SimulateOffline, Cli!Inert, Inert
<1> HIDE DEF n
<1>3. /\ n.attempt \in Nat /\ n.tried \in Nat /\ n.tried <= MaxAttempts /\ ~n.closed /\ ~n.terminal
      /\ n.attempt = (IF n.reserved THEN n.tried + 1 ELSE n.tried)
  BY <1>2 DEF Settled, Sane, Link, Inert, BrowserAssumption
<1>4. /\ b \in Link /\ ~b.preflight /\ b.offline /\ b.reserved = n.reserved
      /\ b.ws = n.ws /\ b.socks = n.socks /\ b.closed = n.closed /\ b.terminal = n.terminal
      /\ b.tried = n.tried /\ b.attempt = n.attempt /\ ~b.called
  BY <1>2 DEF Cli!CancelAttempt, Cli!NewGeneration, Link
<1>5. (IF b.reserved /\ b.attempt > 0 THEN b.attempt - 1 ELSE b.attempt) = n.tried
  BY <1>3, <1>4
<1>6. d = [b EXCEPT !.timer = "none", !.attempt = n.tried, !.reserved = FALSE]
  BY <1>5 DEF Cli!ClearReconnect
<1> HIDE DEF b, d
<1>7. /\ m \in Link /\ m.timer = "none" /\ ~m.preflight /\ ~m.reserved /\ m.offline
      /\ m.ws = NoSock /\ m.socks = n.socks /\ m.closed = n.closed /\ m.terminal = n.terminal
      /\ m.tried = n.tried /\ m.attempt = n.tried /\ ~m.called
  <2>1. /\ d \in Link /\ d.timer = "none" /\ ~d.preflight /\ ~d.reserved /\ d.offline
        /\ d.socks = n.socks /\ d.closed = n.closed /\ d.terminal = n.terminal
        /\ d.tried = n.tried /\ d.attempt = n.tried /\ ~d.called
    BY <1>3, <1>4, <1>6 DEF Link
  <2> QED
    BY <2>1 DEF Link
<1> HIDE DEF m
<1>8. /\ O \in SUBSET Sock /\ conn.ws \in Sock \cup {NoSock}
      /\ conn.ws # NoSock => n.socks[conn.ws] # "free"
  BY <1>2 DEF Settled, Sane, Link
<1>9. Sane(m, O) /\ Inert(m)
  <2>1. \A s \in Sock \ {m.ws} : s \in O \/ m.socks[s] \in {"free", "closing"}
    BY <1>2, <1>7 DEF Settled, Sane
  <2>2. \A s \in O : m.ws # s /\ m.socks[s] # "free"
    BY <1>7, <1>8
  <2> HIDE DEF O
  <2> QED
    BY <1>3, <1>7, <2>1, <2>2 DEF Sane, Inert, HasWay
<1>10. Settled(e, O)
  BY <1>1, <1>3, <1>7, <1>8, <1>9, StatusTells
<1>11. CASE conn.ws = NoSock
  BY <1>1, <1>10, <1>11 DEF Cli!Shut, LinkInv
<1>12. CASE conn.ws # NoSock
  <2> DEFINE r == [e EXCEPT !.socks[conn.ws] = "closing"]
  <2>1. e \in Link /\ e.ws # conn.ws /\ e.socks[conn.ws] # "free"
    BY <1>10, <1>12 DEF Settled, Sane
  <2>2. conn' = r
    BY <1>1, <1>12, <2>1 DEF Cli!Shut
  <2>3. /\ r \in Link /\ r.ws = e.ws /\ r.socks = [e.socks EXCEPT ![conn.ws] = "closing"]
        /\ r.timer = e.timer /\ r.preflight = e.preflight /\ r.reserved = e.reserved
        /\ r.attempt = e.attempt /\ r.tried = e.tried /\ r.closed = e.closed
        /\ r.terminal = e.terminal /\ r.offline = e.offline /\ r.status = e.status
    BY <1>8, <1>12, <2>1 DEF Link
  <2>4. e.socks \in [Sock -> {"free", "connecting", "open", "closing"}]
    BY <2>1 DEF Link
  <2> HIDE DEF r
  <2>5. Settled(r, {})
    BY <1>10, <1>12, <2>1, <2>3, <2>4 DEF Settled, Sane, Told, HasWay, Inert
  <2> QED
    BY <2>2, <2>5 DEF LinkInv
<1> QED
  BY <1>11, <1>12

LEMMA LinkStep ==
  ASSUME BrowserAssumption, LinkInv, [Cli!Next]_clientVars PROVE LinkInv'
<1>1. CASE Cli!Next
  BY <1>1, TimerSettles, PreflightOkSettles, RefusedSettles, FailsSettles, OpensSettles,
     ClosesSettles, DistrustSettles, AdvisedSettles, WakeSettles, ShownSettles, CloseSettles,
     OfflineSettles, ResumeSettles DEF Cli!Next
<1>2. CASE UNCHANGED clientVars
  BY <1>2 DEF clientVars, LinkInv
<1> QED
  BY <1>1, <1>2

\* What a settled connection promises.
LEMMA SettledIsOneWay == ASSUME BrowserAssumption, LinkInv PROVE OneWayOn
<1> DEFINE ways == {w \in {"timer", "preflight", "socket"} :
                      \/ w = "timer" /\ conn.timer # "none"
                      \/ w = "preflight" /\ conn.preflight
                      \/ w = "socket" /\ conn.ws # NoSock}
<1>1. Settled(conn, {}) /\ conn \in Link
  BY DEF LinkInv, Settled, Sane
<1>2. Cardinality(ways) = IF Inert(conn) THEN 0 ELSE 1
  <2>1. CASE Inert(conn)
    <3>1. ways = {}
      BY <1>1, <2>1 DEF Settled, Sane, HasWay
    <3> QED
      BY <2>1, <3>1, FS_EmptySet
  <2>2. CASE ~Inert(conn)
    <3>1. ways = {"timer"} \/ ways = {"preflight"} \/ ways = {"socket"}
      BY <1>1, <2>2 DEF Settled, Sane, HasWay
    <3> HIDE DEF ways
    <3> QED
      BY <2>2, <3>1, FS_Singleton
  <2> QED
    BY <2>1, <2>2
<1>3. ClientTypeOK
  BY <1>1 DEF ClientTypeOK, Link
<1>4. RetriesAreCounted
  BY <1>1 DEF RetriesAreCounted, Settled, Sane
<1> QED
  BY <1>1, <1>2, <1>3, <1>4 DEF OneWayOn, Settled, Sane, Told

\* However events and callbacks interleave, the client's connection has exactly one
\* way on, or none when it was closed, given up or paused (client.js).
THEOREM OneWayAlways == BrowserAssumption => (Cli!Spec => []OneWayOn)
<1> SUFFICES ASSUME BrowserAssumption PROVE Cli!Spec => []OneWayOn
  OBVIOUS
<1>1. Cli!Init => LinkInv
  BY InitSettles
<1>2. LinkInv /\ [Cli!Next]_(Cli!clientVars) => LinkInv'
  BY LinkStep DEF Cli!clientVars, clientVars
<1>3. LinkInv => OneWayOn
  BY SettledIsOneWay
<1> QED
  BY <1>1, <1>2, <1>3, PTL DEF Cli!Spec

=============================================================================
