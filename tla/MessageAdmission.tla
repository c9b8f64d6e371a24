-------------------------- MODULE MessageAdmission --------------------------
(***************************************************************************)
(* The gate in front of the application's message hook                     *)
(* (utils/message-admission.js): a ceiling on concurrent work, per worker  *)
(* and per connection, and one bounded FIFO for what has to wait. Frames   *)
(* of one connection arrive while others release, and a close takes the    *)
(* waiting frames of its connection out of the middle of the queue.        *)
(***************************************************************************)
EXTENDS MessageGate, OrderedRemoval

vars == <<frame, active, counts, waiting>>

None == "none"

Init ==
    /\ frame = [f \in Frames |-> [conn |-> None, is |-> "unsent"]]
    /\ active = 0
    /\ counts = [c \in Conns |-> [active |-> 0, queued |-> 0, closed |-> FALSE]]
    /\ waiting = <<>>

Becomes(account) ==
    \E a \in {account} :
        frame' = a.frame /\ active' = a.active /\ counts' = a.counts /\ waiting' = a.waiting

-----------------------------------------------------------------------------

\* Frame f of connection c becomes `is`; so many permits are taken with it, and
\* so many places of the queue.
Put(a, f, c, is, permits, places, queue) ==
    [frame   |-> [a.frame EXCEPT ![f] = [conn |-> c, is |-> is]],
     active  |-> a.active + permits,
     counts  |-> [a.counts EXCEPT ![c] = [active |-> @.active + permits,
                                          queued |-> @.queued + places, closed |-> @.closed]],
     waiting |-> queue]

\* A waiting frame gets the permit.
Grant(a, f) == Put(a, f, a.frame[f].conn, "running", 1, -1, Without(a.waiting, {f}))

\* The drain comes to a frame.
Visit(a, f) ==
    LET c == a.frame[f].conn
    IN IF ~a.counts[c].closed /\ CanStart(a, c) THEN Grant(a, f) ELSE a

\* drain takes the first frame that can start and begins again; a start only
\* takes room away, so that is one walk from the oldest frame.
Drain(a) ==
    LET walk[i \in 0..Len(a.waiting)] ==
          IF i = 0 THEN a ELSE Visit(walk[i - 1], a.waiting[i])
    IN walk[Len(a.waiting)]

BecomesDrained(account) == \E a \in {account} : Becomes(Drain(a))

\* enter: a frame past the ceilings waits, or is refused with the queue full.
\* The rate buckets may refuse it before.
Enter(f, c) ==
    /\ frame[f].is = "unsent"
    /\ \/ /\ ~counts[c].closed /\ CanStart(Account, c)
          /\ Becomes(Put(Account, f, c, "running", 1, 0, waiting))
       \/ /\ ~counts[c].closed /\ ~CanStart(Account, c)
          /\ Len(waiting) < MaxQueue /\ counts[c].queued < MaxQueue
          /\ Becomes(Put(Account, f, c, "waiting", 0, 1, Append(waiting, f)))
       \/ Becomes(Put(Account, f, c, "refused", 0, 0, waiting))

Released(f) == Put(Account, f, frame[f].conn, "done", -1, 0, waiting)

\* Slip: what a closing connection ran is released without a drain.
ReleaseQuietly(f) ==
    /\ frame[f].is = "running"
    /\ IF counts[frame[f].conn].closed THEN Becomes(Released(f)) ELSE BecomesDrained(Released(f))

\* The hook settled: release, once.
Release(f) == frame[f].is = "running" /\ BecomesDrained(Released(f))

\* Slip: the walk forward skips the entry after each it removes.
CancelledEveryOther(a, c) ==
    {i \in 1..Len(a.waiting) : a.frame[a.waiting[i]].conn = c
                               /\ (i = 1 \/ a.frame[a.waiting[i - 1]].conn # c)}

Cancelled(a, c) == {i \in 1..Len(a.waiting) : a.frame[a.waiting[i]].conn = c}

\* close: every waiting frame of the connection is answered, then a drain.
Close(c) ==
    LET out == {waiting[i] : i \in Cancelled(Account, c)}
    IN /\ ~counts[c].closed
       /\ BecomesDrained(
            [frame   |-> [f \in Frames |-> IF f \in out THEN [conn |-> frame[f].conn, is |-> "cancelled"]
                                           ELSE frame[f]],
             active  |-> active,
             counts  |-> [counts EXCEPT ![c] = [active |-> @.active, closed |-> TRUE,
                                                queued |-> @.queued - Cardinality(out)]],
             waiting |-> Without(waiting, out)])

Next ==
    \/ \E f \in Frames : Release(f) \/ \E c \in Conns : Enter(f, c)
    \/ \E c \in Conns : Close(c)

\* A message hook settles.
Fairness == \A f \in Frames : WF_vars(Release(f))

Spec == Init /\ [][Next]_vars /\ Fairness

-----------------------------------------------------------------------------

\* A waiting frame is granted a permit or told that its connection closed.
WaitersSettle == \A f \in Frames : frame[f].is = "waiting" ~> frame[f].is # "waiting"

=============================================================================
