-------------------------------- MODULE Lock --------------------------------
(***************************************************************************)
(* The lock plugin (src/plugins/lock/server.js): per-key critical sections *)
(* with a FIFO waiter queue, bounded waits and clear().                    *)
(*                                                                         *)
(* A Call is one withLock() promise.  The per-key state object of the code *)
(* is captured by every caller that runs or waits under it and outlives    *)
(* its registry entry, so it has an identity of its own here: the call     *)
(* that allocated it (only a call that finds no entry allocates one).      *)
(***************************************************************************)
EXTENDS Naturals, Sequences, FiniteSets

CONSTANTS
  Call,             \* withLock() invocations, each made once
  Key,              \* lock keys
  None,             \* no call, no key, no registry entry
  MaxKeys,          \* options.maxKeys
  MaxWaitersPerKey, \* options.maxWaitersPerKey
  MaxClears         \* model bound: how often clear() is called

ASSUME LockAssumption ==
  /\ IsFiniteSet(Call) /\ IsFiniteSet(Key)
  /\ None \notin Call \cup Key
  /\ MaxKeys \in Nat \ {0}
  /\ MaxWaitersPerKey \in Nat \ {0}
  /\ MaxClears \in Nat

VARIABLES
  states,   \* the registry: key -> the state object entered under it
  running,  \* the state objects whose `running` flag is set
  queue,    \* state object -> its waiter queue, cancelled entries included
  pc,       \* call -> where its promise stands
  key,      \* call -> the key it named
  home,     \* call -> the state object it captured
  bounded,  \* the calls that passed maxWaitMs (a timer is armed while they wait)
  ticket,   \* call -> its arrival number (history)
  clears    \* how many times clear() ran

vars == <<states, running, queue, pc, key, home, bounded, ticket, clears>>

Settled == {"done", "timeout", "cleared", "full", "tooManyKeys"}
Status  == {"idle", "running", "waiting"} \cup Settled

Registered == {k \in Key : states[k] # None}
Arrivals   == Cardinality({c \in Call : pc[c] # "idle"})

\* A waiter that timed out or was cleared stays in its queue as `cancelled`.
Cancelled(c) == pc[c] \in {"timeout", "cleared"}
LiveWaiters(s) == {i \in DOMAIN queue[s] : ~Cancelled(queue[s][i])}

Init ==
  /\ states  = [k \in Key |-> None]
  /\ running = {}
  /\ queue   = [s \in Call |-> <<>>]
  /\ pc      = [c \in Call |-> "idle"]
  /\ key     = [c \in Call |-> None]
  /\ home    = [c \in Call |-> None]
  /\ bounded = {}
  /\ ticket  = [c \in Call |-> 0]
  /\ clears  = 0

(***************************************************************************)
(* withLock(key, fn, opts), after its argument checks.  The four ways it   *)
(* can go, in the order the code tries them.                               *)
(***************************************************************************)
Arrive(c, k, b, status, s) ==
  /\ pc[c] = "idle"
  /\ pc'      = [pc EXCEPT ![c] = status]
  /\ key'     = [key EXCEPT ![c] = k]
  /\ home'    = [home EXCEPT ![c] = s]
  /\ bounded' = IF b THEN bounded \cup {c} ELSE bounded
  /\ ticket'  = [ticket EXCEPT ![c] = Arrivals + 1]
  /\ UNCHANGED clears

RefuseKey(c, k, b) ==
  /\ states[k] = None
  /\ Cardinality(Registered) >= MaxKeys
  /\ Arrive(c, k, b, "tooManyKeys", None)
  /\ UNCHANGED <<states, running, queue>>

\* Nobody runs under the key: its caller runs at once, under a state object
\* that is allocated here when the registry has none.
Acquire(c, k, b) ==
  LET s == IF states[k] = None THEN c ELSE states[k] IN
  /\ states[k] = None => Cardinality(Registered) < MaxKeys
  /\ s \notin running
  /\ Arrive(c, k, b, "running", s)
  /\ states'  = [states EXCEPT ![k] = s]
  /\ running' = running \cup {s}
  /\ UNCHANGED queue

\* Cancelled entries count too: advance() alone takes them out of the queue.
Shed(c, k, b) ==
  LET s == states[k] IN
  /\ s # None
  /\ s \in running
  /\ Len(queue[s]) >= MaxWaitersPerKey
  /\ Arrive(c, k, b, "full", None)
  /\ UNCHANGED <<states, running, queue>>

Enqueue(c, k, b) ==
  LET s == states[k] IN
  /\ s # None
  /\ s \in running
  /\ Len(queue[s]) < MaxWaitersPerKey
  /\ Arrive(c, k, b, "waiting", s)
  /\ queue' = [queue EXCEPT ![s] = Append(@, c)]
  /\ UNCHANGED <<states, running>>

WithLock(c, k, b) ==
  RefuseKey(c, k, b) \/ Acquire(c, k, b) \/ Shed(c, k, b) \/ Enqueue(c, k, b)

(***************************************************************************)
(* fn() of a running call settles: runHead's finally runs advance().       *)
(***************************************************************************)
\* Slip: the newest waiter goes first.
PromoteNewest(c, s) ==
  \E i \in LiveWaiters(s) :
    /\ \A j \in LiveWaiters(s) : i >= j
    /\ pc'    = [pc EXCEPT ![c] = "done", ![queue[s][i]] = "running"]
    /\ queue' = [queue EXCEPT ![s] = SubSeq(@, 1, i - 1)]
    /\ UNCHANGED <<states, running>>

\* Slip: the entry is dropped at every advance().
PromoteAndDelete(c, s) ==
  \E i \in LiveWaiters(s) :
    /\ \A j \in LiveWaiters(s) : i <= j
    /\ pc'     = [pc EXCEPT ![c] = "done", ![queue[s][i]] = "running"]
    /\ queue'  = [queue EXCEPT ![s] = SubSeq(@, i + 1, Len(@))]
    /\ states' = [states EXCEPT ![key[c]] = None]
    /\ UNCHANGED running

\* advance() found a waiter that has not given up: it becomes the head.
Promote(c, s) ==
  \E i \in LiveWaiters(s) :
    /\ \A j \in LiveWaiters(s) : i <= j
    /\ pc'    = [pc EXCEPT ![c] = "done", ![queue[s][i]] = "running"]
    /\ queue' = [queue EXCEPT ![s] = SubSeq(@, i + 1, Len(@))]
    /\ UNCHANGED <<states, running>>

\* Slip: a timed-out head waiter ends the hand-over.
ReleaseAtCancelled(c, s) ==
  /\ LiveWaiters(s) = {} \/ 1 \in DOMAIN queue[s] \ LiveWaiters(s)
  /\ pc'      = [pc EXCEPT ![c] = "done"]
  /\ queue'   = [queue EXCEPT ![s] = <<>>]
  /\ running' = running \ {s}
  /\ states'  = [states EXCEPT ![key[c]] = None]

\* Slip: the entry is left behind.
ReleaseButKeep(c, s) ==
  /\ LiveWaiters(s) = {}
  /\ pc'      = [pc EXCEPT ![c] = "done"]
  /\ queue'   = [queue EXCEPT ![s] = <<>>]
  /\ running' = running \ {s}
  /\ UNCHANGED states

\* advance() drained the queue: the flag drops and states.delete(key) runs,
\* whichever state object the registry holds under that key by now.
Release(c, s) ==
  /\ LiveWaiters(s) = {}
  /\ pc'      = [pc EXCEPT ![c] = "done"]
  /\ queue'   = [queue EXCEPT ![s] = <<>>]
  /\ running' = running \ {s}
  /\ states'  = [states EXCEPT ![key[c]] = None]

Settle(c) ==
  /\ pc[c] = "running"
  /\ Promote(c, home[c]) \/ Release(c, home[c])
  /\ UNCHANGED <<key, home, bounded, ticket, clears>>

\* The maxWaitMs timer of a waiter fires.
Timeout(c) ==
  /\ pc[c] = "waiting"
  /\ c \in bounded
  /\ pc' = [pc EXCEPT ![c] = "timeout"]
  /\ UNCHANGED <<states, running, queue, key, home, bounded, ticket, clears>>

\* clear(): reject the waiters of every registered key, empty the registry.
\* The queues keep their (now cancelled) entries and running calls go on.
Clear ==
  /\ clears < MaxClears
  /\ clears' = clears + 1
  /\ pc' = [c \in Call |-> IF pc[c] = "waiting" /\ home[c] \in {states[k] : k \in Key}
                           THEN "cleared" ELSE pc[c]]
  /\ states' = [k \in Key |-> None]
  /\ UNCHANGED <<running, queue, key, home, bounded, ticket>>

Next ==
  \/ \E c \in Call, k \in Key, b \in BOOLEAN : WithLock(c, k, b)
  \/ \E c \in Call : Settle(c) \/ Timeout(c)
  \/ Clear

\* The application's fn() settles; arrivals, timeouts and clear() are free.
Fairness == \A c \in Call : WF_vars(Settle(c))

Spec == Init /\ [][Next]_vars /\ Fairness

-----------------------------------------------------------------------------
(***************************************************************************)
(* Properties                                                              *)
(***************************************************************************)

\* Types, and the two caps: no queue outgrows maxWaitersPerKey, cancelled
\* entries included, and the registry never holds more than maxKeys.
TypeOK ==
  /\ states  \in [Key -> Call \cup {None}]
  /\ running \in SUBSET Call
  /\ queue   \in [Call -> Seq(Call)]
  /\ pc      \in [Call -> Status]
  /\ key     \in [Call -> Key \cup {None}]
  /\ home    \in [Call -> Call \cup {None}]
  /\ bounded \in SUBSET Call
  /\ ticket  \in [Call -> Nat]
  /\ clears  \in Nat
  /\ \A s \in Call : Len(queue[s]) <= MaxWaitersPerKey
  /\ Cardinality(Registered) <= MaxKeys

\* Two fn()s never overlap under one state object, whatever clear() and
\* timeouts do in between: the hand-over in advance() is exclusive.
ExclusivePerState ==
  \A c, d \in Call :
    (pc[c] = "running" /\ pc[d] = "running" /\ home[c] = home[d]) => c = d

\* Until clear() is used, two fn()s never overlap under one key (the promise
\* of withLock): no caller finds the registry entry gone while another runs.
ExclusivePerKey ==
  clears = 0 =>
    \A c, d \in Call :
      (pc[c] = "running" /\ pc[d] = "running" /\ key[c] = key[d]) => c = d

\* held(key) tells the truth until clear() is used: a key is registered
\* exactly while some call runs or waits under it (no leak, no early release).
HeldIsActive ==
  clears = 0 =>
    \A k \in Key : states[k] # None <=>
      \E c \in Call : key[c] = k /\ pc[c] \in {"running", "waiting"}

\* Every waiter is still reachable by the hand-over of a running call, so it
\* is never the last one standing behind a state nobody will advance.
WaiterHasHolder ==
  \A c \in Call : pc[c] = "waiting" =>
    \E d \in Call : pc[d] = "running" /\ home[d] = home[c]

\* FIFO: a waiter is never promoted past one that arrived earlier under the
\* same state object and still waits, timeouts in the queue notwithstanding.
FifoHandover ==
  [][\A c, d \in Call :
       (/\ pc[c] = "waiting" /\ pc[d] = "waiting"
        /\ home[c] = home[d] /\ ticket[c] < ticket[d])
       => pc'[d] # "running"]_vars

\* "a timeout never blocks the queue for later callers": every waiter's
\* promise settles or runs, whatever timeouts and clears hit the queue.
WaitersProgress == \A c \in Call : pc[c] = "waiting" ~> pc[c] # "waiting"
=============================================================================
