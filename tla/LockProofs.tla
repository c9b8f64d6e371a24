----------------------------- MODULE LockProofs -----------------------------
(***************************************************************************)
(* Proofs about the lock plugin (mutual exclusion per state object and,    *)
(* until clear() is used, per key; no early release and no leaked entry;   *)
(* no waiter without a holder; FIFO hand-over), about the crdt plugin      *)
(* (no accepted edit is lost, whatever became of the stores) and about the *)
(* presence plugin (what a client shows is the roster).                    *)
(***************************************************************************)
EXTENDS Lock, CrdtRecord, Presence, SequenceLemmas, FiniteSetTheorems, SequenceTheorems, TLAPS

Crd == INSTANCE CrdtAuthority

Active(c) == pc[c] \in {"running", "waiting"}

\* What a call knows of the state object it captured.
HomeInv ==
  \A c \in Call :
    /\ pc[c] = "idle" => home[c] = None
    /\ home[c] # None => home[home[c]] = home[c] /\ key[c] = key[home[c]]
    /\ Active(c) => home[c] # None /\ key[c] \in Key

\* A registered state object is registered under its own key and runs.
RegistryInv ==
  \A k \in Key : states[k] # None =>
    /\ states[k] \in running
    /\ home[states[k]] = states[k]
    /\ key[states[k]] = k

\* The flag says exactly whether a call runs under the state object.
FlagInv == \A s \in Call : s \in running <=> \E c \in Call : pc[c] = "running" /\ home[c] = s

\* A queue holds each of its calls once, and only calls that wait or gave up.
QueueInv ==
  \A s \in Call :
    /\ \A i \in DOMAIN queue[s] :
         /\ home[queue[s][i]] = s
         /\ pc[queue[s][i]] \in {"waiting", "timeout", "cleared"}
    /\ \A i, j \in DOMAIN queue[s] : i < j => ticket[queue[s][i]] < ticket[queue[s][j]]

WaitingInv ==
  \A c \in Call : pc[c] = "waiting" =>
    /\ home[c] \in running
    /\ \E i \in DOMAIN queue[home[c]] : queue[home[c]][i] = c

TicketInv == \A c \in Call : pc[c] # "idle" => ticket[c] <= Arrivals

\* Before the first clear(), every active call is under the registered object.
RegisteredInv == clears = 0 => \A c \in Call : Active(c) => states[key[c]] = home[c]

IInv == /\ TypeOK /\ ExclusivePerState /\ HomeInv /\ RegistryInv /\ FlagInv
        /\ QueueInv /\ WaitingInv /\ TicketInv /\ RegisteredInv
-----------------------------------------------------------------------------
(* Counting: an arrival adds one to Arrivals, no other step changes it. *)

\* The count of arrivals of a key is a number.
LEMMA ArrivalsNat == Arrivals \in Nat
<1>1. IsFiniteSet({c \in Call : pc[c] # "idle"})
  BY LockAssumption, FS_Subset
<1>2. QED BY <1>1, FS_CardinalityType DEF Arrivals

\* Who stands in a queue.
LEMMA QueueElements ==
  ASSUME TypeOK, NEW s \in Call
  PROVE  /\ queue[s] \in Seq(Call) /\ Len(queue[s]) \in Nat
         /\ DOMAIN queue[s] = 1..Len(queue[s])
         /\ \A i \in DOMAIN queue[s] : queue[s][i] \in Call
BY DEF TypeOK

\* A step that leaves the queues alone, and home and ticket of the calls in them.
LEMMA QueuesKept ==
  ASSUME TypeOK, QueueInv, queue' = queue,
         \A s \in Call : \A i \in DOMAIN queue[s] :
           LET d == queue[s][i] IN
           /\ home'[d] = home[d] /\ ticket'[d] = ticket[d]
           /\ pc'[d] \in {"waiting", "timeout", "cleared"}
  PROVE  QueueInv'
<1> SUFFICES ASSUME NEW s \in Call
             PROVE  /\ \A i \in DOMAIN queue[s] :
                         /\ home'[queue[s][i]] = s
                         /\ pc'[queue[s][i]] \in {"waiting", "timeout", "cleared"}
                    /\ \A i, j \in DOMAIN queue[s] :
                         i < j => ticket'[queue[s][i]] < ticket'[queue[s][j]]
  BY DEF QueueInv
<1>1. DOMAIN queue[s] = 1..Len(queue[s])
  BY QueueElements
<1>2. QED BY <1>1 DEF QueueInv

\* An arrival takes the next number of its key.
LEMMA ArriveCounts ==
  ASSUME TypeOK, NEW c \in Call, NEW k \in Key, NEW b \in BOOLEAN,
         NEW st \in Status \ {"idle"}, NEW s \in Call \cup {None}, Arrive(c, k, b, st, s)
  PROVE  Arrivals' = Arrivals + 1
<1> DEFINE Old == {d \in Call : pc[d] # "idle"}
<1>1. {d \in Call : pc'[d] # "idle"} = Old \cup {c} /\ c \notin Old
  BY DEF Arrive, TypeOK
<1>2. IsFiniteSet(Old)
  BY LockAssumption, FS_Subset
<1>3. Cardinality(Old \cup {c}) = Cardinality(Old) + 1
  BY <1>1, <1>2, FS_AddElement
<1>4. QED BY <1>1, <1>3 DEF Arrivals

\* A step that lets nobody arrive leaves the numbers alone.
LEMMA ArrivalsKept ==
  ASSUME TypeOK, \A c \in Call : pc'[c] = "idle" <=> pc[c] = "idle"
  PROVE  Arrivals' = Arrivals
<1>1. {c \in Call : pc'[c] # "idle"} = {c \in Call : pc[c] # "idle"}
  OBVIOUS
<1>2. QED BY <1>1 DEF Arrivals

-----------------------------------------------------------------------------
\* Nobody is anywhere at first.
THEOREM InitInv == Init => IInv
<1> SUFFICES ASSUME Init PROVE IInv
  OBVIOUS
<1>1. Registered = {} /\ Cardinality({}) = 0
  BY FS_EmptySet DEF Init, Registered
<1>2. TypeOK
  BY <1>1, LockAssumption DEF Init, TypeOK, Status
<1>3. QED
  BY <1>2, LockAssumption DEF Init, IInv, ExclusivePerState, HomeInv, Active, RegistryInv,
     FlagInv, QueueInv, WaitingInv, TicketInv, RegisteredInv

-----------------------------------------------------------------------------
(* What an arrival does to the calls' records, and where an idle call is not. *)

Arrived(c, k, st, s) ==
  /\ pc[c] = "idle" /\ pc'[c] = st
  /\ home'[c] = s /\ key'[c] = k /\ ticket'[c] = Arrivals + 1
  /\ clears' = clears
  /\ \A d \in Call : d # c => /\ pc'[d] = pc[d]
                             /\ home'[d] = home[d]
                             /\ key'[d] = key[d]
                             /\ ticket'[d] = ticket[d]
  /\ Arrivals' = Arrivals + 1
  /\ Arrivals \in Nat
  /\ pc' \in [Call -> Status]
  /\ key' \in [Call -> Key \cup {None}]
  /\ home' \in [Call -> Call \cup {None}]
  /\ bounded' \in SUBSET Call
  /\ ticket' \in [Call -> Nat]
  /\ clears' \in Nat

Nowhere(c) ==
  /\ home[c] = None /\ c \notin running
  /\ \A d \in Call : home[d] # c
  /\ \A k \in Key : states[k] # c
  /\ \A s \in Call : \A i \in DOMAIN queue[s] : queue[s][i] # c

\* What an arrival changes.
LEMMA ArriveEffects ==
  ASSUME TypeOK, NEW c \in Call, NEW k \in Key, NEW b \in BOOLEAN,
         NEW st \in Status \ {"idle"}, NEW s \in Call \cup {None}, Arrive(c, k, b, st, s)
  PROVE  Arrived(c, k, st, s)
<1>1. Arrivals' = Arrivals + 1 /\ Arrivals \in Nat
  BY ArriveCounts, ArrivalsNat
<1>2. QED
  BY <1>1 DEF TypeOK, Arrive, Arrived

\* A caller that asks for nothing stands in no queue and holds nothing.
LEMMA IdleIsNowhere ==
  ASSUME IInv, NEW c \in Call, pc[c] = "idle"
  PROVE  Nowhere(c)
<1>1. home[c] = None /\ \A d \in Call : home[d] # c
  BY LockAssumption DEF IInv, HomeInv
<1>2. c \notin running
  BY <1>1 DEF IInv, FlagInv
<1>3. \A k \in Key : states[k] # c
  BY <1>1, LockAssumption DEF IInv, RegistryInv
<1>4. \A s \in Call : \A i \in DOMAIN queue[s] : queue[s][i] # c
  BY QueueElements DEF IInv, QueueInv
<1>5. QED BY <1>1, <1>2, <1>3, <1>4 DEF Nowhere

-----------------------------------------------------------------------------
(* One lemma per action: it preserves the inductive invariant. *)

\* The two refusals: the call is settled at once and nothing else moves.
LEMMA RefusalInv ==
  ASSUME IInv, NEW c \in Call, NEW k \in Key, NEW b \in BOOLEAN,
         NEW st \in {"tooManyKeys", "full"}, Arrive(c, k, b, st, None),
         UNCHANGED <<states, running, queue>>
  PROVE  IInv'
<1>0. TypeOK /\ st \in Status \ {"idle"}
  BY DEF IInv, Status, Settled
<1>a. Arrived(c, k, st, None)
  BY <1>0, ArriveEffects
<1>1. Arrived(c, k, st, None) /\ Nowhere(c)
  BY <1>a, IdleIsNowhere DEF Arrived
<1>2. TypeOK'
  BY <1>0, <1>1 DEF TypeOK, Registered, Arrived
<1>3. HomeInv' /\ RegistryInv'
  BY SMTT(30), <1>0, <1>1, LockAssumption
  DEF IInv, TypeOK, HomeInv, RegistryInv, Active, Arrived, Nowhere
<1>4. FlagInv' /\ ExclusivePerState'
  BY <1>0, <1>1 DEF IInv, FlagInv, ExclusivePerState, Arrived
<1>5. QueueInv'
  <2>1. \A s \in Call : \A i \in DOMAIN queue[s] :
          /\ queue[s][i] \in Call /\ queue[s][i] # c
          /\ pc[queue[s][i]] \in {"waiting", "timeout", "cleared"}
    BY <1>0, <1>1, QueueElements DEF IInv, QueueInv, Nowhere
  <2>2. \A s \in Call : \A i \in DOMAIN queue[s] :
          /\ home'[queue[s][i]] = home[queue[s][i]]
          /\ ticket'[queue[s][i]] = ticket[queue[s][i]]
          /\ pc'[queue[s][i]] \in {"waiting", "timeout", "cleared"}
    BY <1>1, <2>1 DEF Arrived
  <2>3. QED
    BY <1>0, <2>2, QueuesKept DEF IInv
<1>6. WaitingInv'
  <2>1. ASSUME NEW d \in Call, pc'[d] = "waiting" PROVE pc[d] = "waiting" /\ home'[d] = home[d]
    BY <1>0, <1>1, <2>1 DEF Arrived
  <2>2. QED
    BY <2>1 DEF IInv, WaitingInv
<1>7. TicketInv'
  <2>1. \A d \in Call : ticket[d] \in Nat
    BY <1>0 DEF TypeOK
  <2>2. ASSUME NEW d \in Call, pc'[d] # "idle" PROVE ticket'[d] <= Arrivals'
    BY <1>1, <2>1, <2>2 DEF IInv, TicketInv, Arrived
  <2>3. QED BY <2>2 DEF TicketInv
<1>8. RegisteredInv'
  BY <1>0, <1>1 DEF IInv, RegisteredInv, Active, Arrived
<1>9. QED
  BY <1>2, <1>3, <1>4, <1>5, <1>6, <1>7, <1>8 DEF IInv

\* A caller joins the queue.
LEMMA EnqueueInv ==
  ASSUME IInv, NEW c \in Call, NEW k \in Key, NEW b \in BOOLEAN, Enqueue(c, k, b)
  PROVE  IInv'
<1> DEFINE s == states[k]
           n == Len(queue[s])
<1>0. TypeOK /\ "waiting" \in Status \ {"idle"} 
  BY DEF IInv, Status, Settled
<1>1. s \in Call /\ s \in running /\ home[s] = s /\ key[s] = k
  BY LockAssumption DEF IInv, TypeOK, Enqueue, RegistryInv
<1>a. Arrived(c, k, "waiting", s)
  BY <1>0, <1>1, ArriveEffects DEF Enqueue
<1>2. Arrived(c, k, "waiting", s) /\ Nowhere(c) /\ c # s
  BY <1>a, <1>1, IdleIsNowhere DEF Arrived, Nowhere
<1>3. /\ UNCHANGED <<states, running>>
      /\ n \in Nat /\ n < MaxWaitersPerKey
      /\ queue' \in [Call -> Seq(Call)]
      /\ Len(queue'[s]) = n + 1
      /\ DOMAIN queue'[s] = 1..(n + 1)
      /\ queue'[s][n + 1] = c
      /\ \A i \in 1..n : queue'[s][i] = queue[s][i]
      /\ \A r \in Call : r # s => queue'[r] = queue[r]
  BY <1>0, <1>1 DEF TypeOK, Enqueue
<1>b. states[k] = s
  OBVIOUS
<1> HIDE DEF s, n
<1>c. \A d \in Call : ticket[d] \in Nat /\ home[d] \in Call \cup {None} /\ queue[d] \in Seq(Call)
  BY <1>0 DEF TypeOK
<1>4. TypeOK'
  <2>1. Registered' = Registered
    BY <1>3 DEF Registered
  <2>2. ASSUME NEW r \in Call PROVE Len(queue'[r]) <= MaxWaitersPerKey
    <3>1. CASE r = s
      BY <1>3, <3>1, LockAssumption
    <3>2. CASE r # s
      <4>1. queue'[r] = queue[r]
        BY <1>3, <3>2
      <4>2. QED BY <1>0, <4>1 DEF TypeOK
    <3>3. QED BY <3>1, <3>2
  <2>3. QED
    BY <1>0, <1>2, <1>3, <2>1, <2>2 DEF TypeOK, Arrived
<1>5. HomeInv'
  <2>1. ASSUME NEW d \in Call
        PROVE  /\ pc'[d] = "idle" => home'[d] = None
               /\ home'[d] # None => home'[home'[d]] = home'[d] /\ key'[d] = key'[home'[d]]
               /\ Active(d)' => home'[d] # None /\ key'[d] \in Key
    <3>1. CASE d = c
      BY <1>1, <1>2, <3>1, LockAssumption DEF Arrived
    <3>2. CASE d # c
      BY SMTT(30), <1>2, <1>c, <3>2 DEF IInv, HomeInv, Active, Arrived, Nowhere
    <3>3. QED BY <3>1, <3>2
  <2>2. QED BY <2>1 DEF HomeInv
<1>6. RegistryInv'
  <2>1. ASSUME NEW l \in Key, states'[l] # None
        PROVE  states'[l] \in running' /\ home'[states'[l]] = states'[l] /\ key'[states'[l]] = l
    <3>1. states'[l] = states[l] /\ states[l] # c /\ states[l] \in Call
      BY <1>0, <1>2, <1>3, <2>1 DEF TypeOK, Nowhere
    <3>2. QED
      BY <1>2, <1>3, <2>1, <3>1 DEF IInv, RegistryInv, Arrived
  <2>2. QED BY <2>1 DEF RegistryInv
<1>7. FlagInv' /\ ExclusivePerState'
  <2>1. \A d \in Call : pc'[d] = "running" <=> pc[d] = "running"
    BY <1>2 DEF Arrived
  <2>2. \A d \in Call : pc[d] = "running" => home'[d] = home[d]
    BY <1>2 DEF Arrived
  <2>3. QED
    BY ZenonT(60), <1>3, <2>1, <2>2 DEF IInv, FlagInv, ExclusivePerState
<1>8. QueueInv'
  <2> SUFFICES ASSUME NEW r \in Call
               PROVE  /\ \A i \in DOMAIN queue'[r] :
                           /\ home'[queue'[r][i]] = r
                           /\ pc'[queue'[r][i]] \in {"waiting", "timeout", "cleared"}
                      /\ \A i, j \in DOMAIN queue'[r] :
                           i < j => ticket'[queue'[r][i]] < ticket'[queue'[r][j]]
    BY DEF QueueInv
  <2>1. \A i \in DOMAIN queue[r] :
          /\ queue[r][i] \in Call /\ queue[r][i] # c
          /\ home[queue[r][i]] = r
          /\ pc[queue[r][i]] \in {"waiting", "timeout", "cleared"}
    BY <1>0, <1>2, QueueElements DEF IInv, QueueInv, Nowhere
  <2>2. \A i \in DOMAIN queue[r] :
          /\ home'[queue[r][i]] = r
          /\ pc'[queue[r][i]] \in {"waiting", "timeout", "cleared"}
          /\ ticket'[queue[r][i]] = ticket[queue[r][i]]
          /\ ticket[queue[r][i]] \in Nat /\ ticket[queue[r][i]] <= Arrivals
    BY <1>2, <1>c, <2>1 DEF IInv, TicketInv, Arrived
  <2>3. \A i, j \in DOMAIN queue[r] : i < j => ticket[queue[r][i]] < ticket[queue[r][j]]
    BY DEF IInv, QueueInv
  <2>4. CASE r # s
    <3>1. queue'[r] = queue[r]
      BY <1>3, <2>4
    <3>2. QED BY <2>2, <2>3, <3>1, Zenon
  <2>5. CASE r = s
    <3>1. home'[c] = s /\ pc'[c] = "waiting" /\ ticket'[c] = Arrivals + 1 /\ Arrivals \in Nat
      BY <1>2 DEF Arrived
    <3>2. DOMAIN queue[s] = 1..n
      BY <1>0, <1>1, QueueElements DEF n
    <3>3. \A i \in 1..(n + 1) : i \in 1..n \/ i = n + 1
      BY <1>3
    <3>4. \A i \in DOMAIN queue'[s] :
            /\ home'[queue'[s][i]] = s
            /\ pc'[queue'[s][i]] \in {"waiting", "timeout", "cleared"}
      <4>1. ASSUME NEW i \in DOMAIN queue'[s]
            PROVE  home'[queue'[s][i]] = s /\ pc'[queue'[s][i]] \in {"waiting", "timeout", "cleared"}
        <5>1. i \in 1..n \/ i = n + 1
          BY <1>3, <3>3, <4>1, Zenon
        <5>2. CASE i \in 1..n
          <6>1. queue'[s][i] = queue[s][i] /\ i \in DOMAIN queue[r]
            BY <1>3, <2>5, <3>2, <5>2, Zenon
          <6>2. QED BY <2>2, <2>5, <6>1, Zenon
        <5>3. CASE i = n + 1
          BY <1>3, <3>1, <5>3, Zenon
        <5>4. QED BY <5>1, <5>2, <5>3
      <4>2. QED BY <4>1
    <3>5. ASSUME NEW i \in 1..(n + 1), NEW j \in 1..(n + 1), i < j
          PROVE  ticket'[queue'[s][i]] < ticket'[queue'[s][j]]
      <4>1. i \in 1..n
        BY <1>3, <3>5
      <4>2. CASE j = n + 1
        <5>1. queue'[s][i] = queue[s][i] /\ queue'[s][j] = c /\ i \in DOMAIN queue[r]
          BY <1>3, <2>5, <3>2, <4>1, <4>2, Zenon
        <5>2. /\ ticket'[queue[s][i]] = ticket[queue[s][i]]
              /\ ticket[queue[s][i]] \in Nat /\ ticket[queue[s][i]] <= Arrivals
          BY <2>2, <2>5, <5>1, Zenon
        <5>3. QED BY <3>1, <5>1, <5>2
      <4>3. CASE j \in 1..n
        <5>1. /\ queue'[s][i] = queue[s][i] /\ queue'[s][j] = queue[s][j]
              /\ i \in DOMAIN queue[r] /\ j \in DOMAIN queue[r]
          BY <1>3, <2>5, <3>2, <4>1, <4>3, Zenon
        <5>2. QED BY SMTT(30), <2>2, <2>3, <2>5, <3>5, <5>1
      <4>4. QED BY <3>3, <4>2, <4>3
    <3>6. QED BY <1>3, <2>5, <3>4, <3>5
  <2>6. QED BY <2>4, <2>5
<1>9. WaitingInv'
  <2>1. ASSUME NEW d \in Call, pc'[d] = "waiting"
        PROVE  home'[d] \in running' /\ \E i \in DOMAIN queue'[home'[d]] : queue'[home'[d]][i] = d
    <3>1. CASE d = c
      <4>1. home'[d] = s /\ s \in running' /\ n + 1 \in DOMAIN queue'[s]
        BY <1>1, <1>2, <1>3, <3>1 DEF Arrived
      <4>2. QED BY <1>3, <3>1, <4>1
    <3>2. CASE d # c
      <4>1. pc[d] = "waiting" /\ home'[d] = home[d]
        BY <1>2, <2>1, <3>2 DEF Arrived
      <4>2. home[d] \in running /\ \E i \in DOMAIN queue[home[d]] : queue[home[d]][i] = d
        BY <4>1 DEF IInv, WaitingInv
      <4>3. home[d] \in Call
        BY <1>0, <4>2 DEF TypeOK
      <4>4. DOMAIN queue[s] = 1..n
        BY <1>0, <1>1, QueueElements DEF n
      <4>5. CASE home[d] = s
        <5>1. PICK i \in 1..n : queue[s][i] = d
          BY <4>2, <4>4, <4>5, Zenon
        <5>2. i \in DOMAIN queue'[s] /\ queue'[s][i] = d
          BY <1>3, <5>1
        <5>3. QED BY <1>3, <4>1, <4>2, <4>5, <5>2, Zenon
      <4>6. CASE home[d] # s
        BY <1>3, <4>1, <4>2, <4>3, <4>6
      <4>7. QED BY <4>5, <4>6
    <3>3. QED BY <3>1, <3>2
  <2>2. QED BY <2>1 DEF WaitingInv
<1>10. TicketInv'
  <2>1. ASSUME NEW d \in Call, pc'[d] # "idle" PROVE ticket'[d] <= Arrivals'
    BY <1>2, <1>c, <2>1 DEF IInv, TicketInv, Arrived
  <2>2. QED BY <2>1 DEF TicketInv
<1>11. RegisteredInv'
  <2>1. ASSUME clears' = 0, NEW d \in Call, Active(d)' PROVE states'[key'[d]] = home'[d]
    BY <1>2, <1>3, <1>b, <2>1 DEF IInv, RegisteredInv, Active, Arrived
  <2>2. QED BY <2>1 DEF RegisteredInv
<1>12. QED
  BY <1>4, <1>5, <1>6, <1>7, <1>8, <1>9, <1>10, <1>11 DEF IInv

\* A caller takes a free lock.
LEMMA AcquireInv ==
  ASSUME IInv, NEW c \in Call, NEW k \in Key, NEW b \in BOOLEAN, Acquire(c, k, b)
  PROVE  IInv'
<1>0. TypeOK /\ "running" \in Status \ {"idle"}
  BY DEF IInv, Status, Settled
<1>1. states[k] = None /\ Cardinality(Registered) < MaxKeys
  BY DEF IInv, RegistryInv, Acquire
<1>2. /\ Arrive(c, k, b, "running", c)
      /\ states' = [states EXCEPT ![k] = c]
      /\ running' = running \cup {c}
      /\ queue' = queue
  BY <1>1 DEF Acquire
<1>a. Arrived(c, k, "running", c)
  BY <1>0, <1>2, ArriveEffects
<1>3. Arrived(c, k, "running", c) /\ Nowhere(c)
  BY <1>a, IdleIsNowhere DEF Arrived
<1>4. /\ states' \in [Key -> Call \cup {None}]
      /\ states'[k] = c /\ \A l \in Key : l # k => states'[l] = states[l]
      /\ \A d \in Call : /\ ticket[d] \in Nat /\ home[d] \in Call \cup {None}
                         /\ d # c => (d \in running' <=> d \in running)
  BY <1>0, <1>2 DEF TypeOK
<1>5. TypeOK'
  <2>1. Registered' = Registered \cup {k} /\ k \notin Registered
    BY <1>1, <1>4, LockAssumption DEF Registered
  <2>2. IsFiniteSet(Registered)
    BY LockAssumption, FS_Subset DEF Registered
  <2>3. Cardinality(Registered \cup {k}) = Cardinality(Registered) + 1 /\ Cardinality(Registered) \in Nat
    BY <2>1, <2>2, FS_AddElement, FS_CardinalityType
  <2>4. Cardinality(Registered') <= MaxKeys
    BY <1>1, <2>1, <2>3, LockAssumption
  <2>5. running' \in SUBSET Call
    BY <1>0, <1>2 DEF TypeOK
  <2>6. QED
    BY <1>0, <1>2, <1>3, <1>4, <2>4, <2>5 DEF TypeOK, Arrived
<1>6. HomeInv'
  <2>1. ASSUME NEW d \in Call
        PROVE  /\ pc'[d] = "idle" => home'[d] = None
               /\ home'[d] # None => home'[home'[d]] = home'[d] /\ key'[d] = key'[home'[d]]
               /\ Active(d)' => home'[d] # None /\ key'[d] \in Key
    <3>1. CASE d = c
      BY <1>3, <3>1, LockAssumption DEF Arrived
    <3>2. CASE d # c
      BY <1>3, <1>4, <3>2 DEF IInv, HomeInv, Active, Arrived, Nowhere
    <3>3. QED BY <3>1, <3>2
  <2>2. QED BY <2>1 DEF HomeInv
<1>7. RegistryInv'
  <2>1. ASSUME NEW l \in Key, states'[l] # None
        PROVE  states'[l] \in running' /\ home'[states'[l]] = states'[l] /\ key'[states'[l]] = l
    <3>1. CASE l = k
      BY <1>2, <1>3, <1>4, <3>1 DEF Arrived
    <3>2. CASE l # k
      <4>1. states'[l] = states[l] /\ states[l] # c /\ states[l] \in Call
        BY <1>0, <1>3, <1>4, <2>1, <3>2 DEF TypeOK, Nowhere
      <4>2. QED
        BY <1>2, <1>3, <2>1, <4>1 DEF IInv, RegistryInv, Arrived
    <3>3. QED BY <3>1, <3>2
  <2>2. QED BY <2>1 DEF RegistryInv
<1>8. FlagInv'
  <2>1. ASSUME NEW s \in Call
        PROVE  s \in running' <=> \E d \in Call : pc'[d] = "running" /\ home'[d] = s
    <3>1. CASE s = c
      BY <1>2, <1>3, <3>1 DEF Arrived
    <3>2. CASE s # c
      <4>1. s \in running <=> \E d \in Call : pc[d] = "running" /\ home[d] = s
        BY DEF IInv, FlagInv
      <4>2. \A d \in Call : (pc'[d] = "running" /\ home'[d] = s) <=> (pc[d] = "running" /\ home[d] = s)
        BY <1>3, <3>2 DEF Arrived
      <4>3. QED BY <1>4, <3>2, <4>1, <4>2
    <3>3. QED BY <3>1, <3>2
  <2>2. QED BY <2>1 DEF FlagInv
<1>9. ExclusivePerState'
  <2>1. ASSUME NEW d \in Call, NEW e \in Call,
               pc'[d] = "running", pc'[e] = "running", home'[d] = home'[e]
        PROVE  d = e
    BY <1>3, <2>1 DEF IInv, ExclusivePerState, Arrived, Nowhere
  <2>2. QED BY <2>1 DEF ExclusivePerState
<1>10. QueueInv'
  <2>1. \A s \in Call : \A i \in DOMAIN queue[s] :
          /\ queue[s][i] \in Call /\ queue[s][i] # c
          /\ pc[queue[s][i]] \in {"waiting", "timeout", "cleared"}
    BY <1>0, <1>3, QueueElements DEF IInv, QueueInv, Nowhere
  <2>2. \A s \in Call : \A i \in DOMAIN queue[s] :
          /\ home'[queue[s][i]] = home[queue[s][i]]
          /\ ticket'[queue[s][i]] = ticket[queue[s][i]]
          /\ pc'[queue[s][i]] \in {"waiting", "timeout", "cleared"}
    BY <1>3, <2>1 DEF Arrived
  <2>3. QED
    BY <1>0, <1>2, <2>2, QueuesKept DEF IInv
<1>11. WaitingInv'
  <2>1. ASSUME NEW d \in Call, pc'[d] = "waiting"
        PROVE  pc[d] = "waiting" /\ home'[d] = home[d]
    BY <1>3, <2>1 DEF Arrived
  <2>2. QED
    BY <1>2, <2>1 DEF IInv, WaitingInv
<1>12. TicketInv'
  <2>1. ASSUME NEW d \in Call, pc'[d] # "idle" PROVE ticket'[d] <= Arrivals'
    BY <1>3, <1>4, <2>1 DEF IInv, TicketInv, Arrived
  <2>2. QED BY <2>1 DEF TicketInv
<1>13. RegisteredInv'
  <2>1. ASSUME clears' = 0, NEW d \in Call, Active(d)' PROVE states'[key'[d]] = home'[d]
    <3>1. CASE d = c
      BY <1>3, <1>4, <3>1 DEF Arrived
    <3>2. CASE d # c
      <4>1. /\ Active(d) /\ key'[d] = key[d] /\ home'[d] = home[d] /\ clears = 0
        BY <1>3, <2>1, <3>2 DEF Arrived, Active
      <4>2. states[key[d]] = home[d] /\ home[d] # None /\ key[d] \in Key
        BY <4>1 DEF IInv, RegisteredInv, HomeInv
      <4>3. QED BY <1>1, <1>4, <4>1, <4>2
    <3>3. QED BY <3>1, <3>2
  <2>2. QED BY <2>1 DEF RegisteredInv
<1>14. QED
  BY <1>5, <1>6, <1>7, <1>8, <1>9, <1>10, <1>11, <1>12, <1>13 DEF IInv

\* The steps after arrival leave key, home and ticket alone.
LEMMA RecordsKept ==
  ASSUME IInv, UNCHANGED <<key, home, ticket>>,
         \A d \in Call : /\ pc'[d] = "idle" <=> pc[d] = "idle"
                         /\ Active(d)' => Active(d)
  PROVE  HomeInv' /\ TicketInv'
<1>1. HomeInv'
  BY DEF IInv, HomeInv, Active
<1>2. Arrivals' = Arrivals
  BY ArrivalsKept DEF IInv
<1>3. QED
  BY <1>1, <1>2 DEF IInv, TicketInv

\* The lock goes to the next in the queue.
LEMMA PromoteInv ==
  ASSUME IInv, NEW c \in Call, pc[c] = "running", Promote(c, home[c]),
         UNCHANGED <<key, home, bounded, ticket, clears>>
  PROVE  IInv'
<1> DEFINE s == home[c]
           n == Len(queue[s])
<1>0. TypeOK /\ s \in Call /\ c \in Call /\ "done" \in Status /\ "running" \in Status
  BY LockAssumption DEF IInv, TypeOK, HomeInv, Active, Status, Settled
<1>1. PICK i \in LiveWaiters(s) :
        /\ \A j \in LiveWaiters(s) : i <= j
        /\ pc' = [pc EXCEPT ![c] = "done", ![queue[s][i]] = "running"]
        /\ queue' = [queue EXCEPT ![s] = SubSeq(@, i + 1, Len(@))]
        /\ UNCHANGED <<states, running>>
  BY DEF Promote
<1> DEFINE w == queue[s][i]
<1>2. /\ queue[s] \in Seq(Call) /\ n \in Nat /\ DOMAIN queue[s] = 1..n
      /\ i \in 1..n /\ w \in Call
  BY <1>0, <1>1, QueueElements DEF LiveWaiters
<1>3. pc[w] = "waiting" /\ home[w] = s /\ w # c
  <2>1. pc[w] \in {"waiting", "timeout", "cleared"} /\ home[w] = s
    BY <1>0, <1>2 DEF IInv, QueueInv
  <2>2. ~Cancelled(w)
    BY <1>1 DEF LiveWaiters
  <2>3. QED BY <2>1, <2>2 DEF Cancelled
<1>4. /\ pc' \in [Call -> Status] /\ pc'[c] = "done" /\ pc'[w] = "running"
      /\ \A d \in Call : d # c /\ d # w => pc'[d] = pc[d]
  BY <1>0, <1>1, <1>2, <1>3 DEF TypeOK
<1>5. /\ queue' \in [Call -> Seq(Call)]
      /\ \A r \in Call : r # s => queue'[r] = queue[r]
      /\ queue'[s] = SubSeq(queue[s], i + 1, n)
  BY SMTT(30), <1>0, <1>1, <1>2 DEF TypeOK
<1>6. /\ Len(queue'[s]) = n - i /\ DOMAIN queue'[s] = 1..(n - i)
      /\ \A j \in 1..(n - i) : j + i \in 1..n /\ queue'[s][j] = queue[s][j + i]
  BY SMTT(30), <1>2, <1>5
<1>7. \A d \in Call : ticket[d] \in Nat /\ home[d] \in Call \cup {None}
  BY <1>0 DEF TypeOK
<1> HIDE DEF s, n, w
<1>8. TypeOK'
  <2>1. Registered' = Registered
    BY <1>1 DEF Registered
  <2>2. ASSUME NEW r \in Call PROVE Len(queue'[r]) <= MaxWaitersPerKey
    <3>1. Len(queue[r]) <= MaxWaitersPerKey /\ Len(queue[s]) <= MaxWaitersPerKey
      BY <1>0 DEF TypeOK
    <3>2. CASE r = s
      BY <1>2, <1>6, <3>1, <3>2, LockAssumption DEF n
    <3>3. CASE r # s
      <4>1. queue'[r] = queue[r]
        BY <1>5, <3>3
      <4>2. QED BY <3>1, <4>1
    <3>4. QED BY <3>2, <3>3
  <2>3. QED
    BY <1>0, <1>1, <1>4, <1>5, <2>1, <2>2 DEF TypeOK
<1>9. HomeInv' /\ TicketInv'
  <2>1. \A d \in Call : /\ pc'[d] = "idle" <=> pc[d] = "idle"
                        /\ Active(d)' => Active(d)
    BY <1>3, <1>4 DEF Active
  <2>2. UNCHANGED <<key, home, ticket>>
    OBVIOUS
  <2>3. QED BY <2>1, <2>2, RecordsKept DEF Active
<1>10. RegistryInv'
  BY <1>1 DEF IInv, RegistryInv
<1>11. FlagInv'
  <2>1. ASSUME NEW r \in Call
        PROVE  r \in running' <=> \E d \in Call : pc'[d] = "running" /\ home'[d] = r
    <3>1. r \in running <=> \E d \in Call : pc[d] = "running" /\ home[d] = r
      BY DEF IInv, FlagInv
    <3>2. CASE r = s
      BY <1>0, <1>1, <1>2, <1>3, <1>4, <3>1, <3>2 DEF s
    <3>3. CASE r # s
      <4>1. \A d \in Call : (pc'[d] = "running" /\ home[d] = r) <=> (pc[d] = "running" /\ home[d] = r)
        BY <1>3, <1>4, <3>3 DEF s
      <4>2. QED BY <1>1, <3>1, <4>1
    <3>4. QED BY <3>2, <3>3
  <2>2. QED BY <2>1 DEF FlagInv
<1>12. ExclusivePerState'
  <2>1. ASSUME NEW d \in Call, NEW e \in Call,
               pc'[d] = "running", pc'[e] = "running", home[d] = home[e]
        PROVE  d = e
    <3>1. d # c /\ e # c
      BY <1>4, <2>1
    <3>2. CASE d = w \/ e = w
      BY <1>3, <1>4, <2>1, <3>1, <3>2 DEF IInv, ExclusivePerState, s
    <3>3. CASE d # w /\ e # w
      BY <1>4, <2>1, <3>1, <3>3 DEF IInv, ExclusivePerState
    <3>4. QED BY <3>2, <3>3
  <2>2. QED BY <2>1 DEF ExclusivePerState
<1>13. QueueInv'
  <2>1. ASSUME NEW r \in Call, NEW j \in DOMAIN queue[r], queue[r][j] # w
        PROVE  /\ home[queue[r][j]] = r
               /\ pc'[queue[r][j]] \in {"waiting", "timeout", "cleared"}
    <3>1. /\ queue[r][j] \in Call /\ home[queue[r][j]] = r
          /\ pc[queue[r][j]] \in {"waiting", "timeout", "cleared"}
      BY <1>0, <2>1, QueueElements DEF IInv, QueueInv
    <3>2. QED BY <1>4, <2>1, <3>1
  <2>2. ASSUME NEW r \in Call
        PROVE  /\ \A j \in DOMAIN queue'[r] :
                    /\ home[queue'[r][j]] = r
                    /\ pc'[queue'[r][j]] \in {"waiting", "timeout", "cleared"}
               /\ \A j, m \in DOMAIN queue'[r] :
                    j < m => ticket[queue'[r][j]] < ticket[queue'[r][m]]
    <3>1. \A j, m \in DOMAIN queue[r] : j < m => ticket[queue[r][j]] < ticket[queue[r][m]]
      BY DEF IInv, QueueInv
    <3>2. CASE r # s
      <4>1. queue'[r] = queue[r]
        BY <1>5, <3>2
      <4>2. ASSUME NEW j \in DOMAIN queue[r] PROVE queue[r][j] # w
        BY <1>3, <3>2 DEF IInv, QueueInv
      <4>3. QED BY SMTT(30), <2>1, <3>1, <4>1, <4>2
    <3>3. CASE r = s
      <4>1. ASSUME NEW j \in 1..(n - i)
            PROVE  /\ j + i \in DOMAIN queue[r] /\ queue'[s][j] = queue[r][j + i]
                   /\ queue[r][j + i] # w
        <5>1. j + i \in DOMAIN queue[r] /\ i \in DOMAIN queue[r] /\ queue'[s][j] = queue[r][j + i]
          BY <1>2, <1>6, <3>3
        <5>2. i < j + i
          BY <1>2
        <5>3. ticket[queue[r][i]] < ticket[queue[r][j + i]] /\ w = queue[r][i]
          BY <3>1, <3>3, <5>1, <5>2 DEF w
        <5>4. ticket[w] \in Nat
          BY <1>2, <1>7
        <5>5. QED BY <5>1, <5>3, <5>4
      <4>2. ASSUME NEW j \in DOMAIN queue'[s]
            PROVE  /\ home[queue'[s][j]] = r
                   /\ pc'[queue'[s][j]] \in {"waiting", "timeout", "cleared"}
        <5>1. j \in 1..(n - i)
          BY <1>6
        <5>2. /\ j + i \in DOMAIN queue[r] /\ queue[r][j + i] # w
              /\ queue'[s][j] = queue[r][j + i]
          BY <4>1, <5>1
        <5>3. QED BY SMTT(30), <2>1, <5>2
      <4>3. ASSUME NEW j \in DOMAIN queue'[s], NEW m \in DOMAIN queue'[s], j < m
            PROVE  ticket[queue'[s][j]] < ticket[queue'[s][m]]
        <5>1. j \in 1..(n - i) /\ m \in 1..(n - i)
          BY <1>6
        <5>2. j + i < m + i
          BY <1>2, <4>3, <5>1
        <5>3. QED BY <3>1, <4>1, <5>1, <5>2, Zenon
      <4>4. QED BY <3>3, <4>2, <4>3
    <3>4. QED BY <3>2, <3>3
  <2>3. QED BY <2>2 DEF QueueInv
<1>14. WaitingInv'
  <2>1. ASSUME NEW d \in Call, pc'[d] = "waiting"
        PROVE  home[d] \in running /\ \E j \in DOMAIN queue'[home[d]] : queue'[home[d]][j] = d
    <3>1. pc[d] = "waiting" /\ d # w
      BY <1>3, <1>4, <2>1
    <3>2. home[d] \in running /\ \E j \in DOMAIN queue[home[d]] : queue[home[d]][j] = d
      BY <3>1 DEF IInv, WaitingInv
    <3>3. PICK j \in DOMAIN queue[home[d]] : queue[home[d]][j] = d
      BY <3>2
    <3>4. CASE home[d] # s
      <4>1. home[d] \in Call
        BY <1>0, <3>2 DEF TypeOK
      <4>2. queue'[home[d]] = queue[home[d]]
        BY <1>5, <3>4, <4>1
      <4>3. QED BY <3>2, <4>2
    <3>5. CASE home[d] = s
      <4>1. j \in 1..n /\ queue[s][j] = d /\ j # i
        BY <1>2, <3>1, <3>3, <3>5 DEF w
      <4>2. j \in LiveWaiters(s)
        BY <1>2, <3>1, <4>1 DEF LiveWaiters, Cancelled
      <4>3. i <= j
        BY <1>1, <4>2
      <4>4. j - i \in 1..(n - i) /\ (j - i) + i = j
        BY <1>2, <4>1, <4>3
      <4>5. j - i \in DOMAIN queue'[s] /\ queue'[s][j - i] = d
        BY <1>6, <4>1, <4>4
      <4>6. QED BY <3>2, <3>5, <4>5
    <3>6. QED BY <3>4, <3>5
  <2>2. QED BY ZenonT(60), <1>1, <2>1 DEF WaitingInv
<1>15. RegisteredInv'
  <2>1. \A d \in Call : Active(d)' => Active(d)
    BY <1>3, <1>4 DEF Active
  <2>2. QED BY <1>1, <2>1 DEF IInv, RegisteredInv
<1>16. QED
  BY <1>8, <1>9, <1>10, <1>11, <1>12, <1>13, <1>14, <1>15 DEF IInv

\* The lock is given back with nobody waiting.
LEMMA ReleaseInv ==
  ASSUME IInv, NEW c \in Call, pc[c] = "running", Release(c, home[c]),
         UNCHANGED <<key, home, bounded, ticket, clears>>
  PROVE  IInv'
<1> DEFINE s == home[c]
<1>0. /\ TypeOK /\ s \in Call /\ "done" \in Status
      /\ key[c] = key[s] /\ key[c] \in Key
  BY LockAssumption DEF IInv, TypeOK, HomeInv, Active, Status, Settled
<1>1. /\ LiveWaiters(s) = {}
      /\ pc' = [pc EXCEPT ![c] = "done"]
      /\ queue' = [queue EXCEPT ![s] = <<>>]
      /\ running' = running \ {s}
      /\ states' = [states EXCEPT ![key[c]] = None]
  BY DEF Release
<1>2. /\ pc' \in [Call -> Status] /\ pc'[c] = "done"
      /\ \A d \in Call : d # c => pc'[d] = pc[d]
  BY <1>0, <1>1 DEF TypeOK
<1>3. /\ queue' \in [Call -> Seq(Call)] /\ queue'[s] = <<>>
      /\ \A r \in Call : r # s => queue'[r] = queue[r]
  BY <1>0, <1>1 DEF TypeOK
<1>4. /\ states' \in [Key -> Call \cup {None}] /\ states'[key[c]] = None
      /\ \A k \in Key : k # key[c] => states'[k] = states[k]
  BY <1>0, <1>1 DEF TypeOK
<1>5. \A d \in Call : pc[d] = "waiting" => home[d] # s
  <2>1. ASSUME NEW d \in Call, pc[d] = "waiting", home[d] = s PROVE FALSE
    <3>1. PICK i \in DOMAIN queue[s] : queue[s][i] = d
      BY <2>1 DEF IInv, WaitingInv
    <3>2. i \in LiveWaiters(s)
      BY <2>1, <3>1 DEF LiveWaiters, Cancelled
    <3>3. QED BY <1>1, <3>2
  <2>2. QED BY <2>1
<1> HIDE DEF s
<1>6. \A d \in Call : pc[d] = "running" /\ home[d] = s => d = c
  BY DEF IInv, ExclusivePerState, s
<1>7. TypeOK'
  <2>1. Registered' \subseteq Registered
    BY <1>4, LockAssumption DEF Registered
  <2>2. IsFiniteSet(Registered)
    BY LockAssumption, FS_Subset DEF Registered
  <2>3. Cardinality(Registered') <= Cardinality(Registered)
        /\ Cardinality(Registered') \in Nat /\ Cardinality(Registered) \in Nat
    BY <2>1, <2>2, FS_Subset, FS_CardinalityType
  <2>4. Cardinality(Registered') <= MaxKeys
    BY <1>0, <2>3, LockAssumption DEF TypeOK
  <2>5. ASSUME NEW r \in Call PROVE Len(queue'[r]) <= MaxWaitersPerKey
    <3>1. CASE r = s
      BY <1>3, <3>1, LockAssumption
    <3>2. CASE r # s
      <4>1. queue'[r] = queue[r]
        BY <1>3, <3>2
      <4>2. QED BY <1>0, <4>1 DEF TypeOK
    <3>3. QED BY <3>1, <3>2
  <2>6. running' \in SUBSET Call
    BY <1>0, <1>1 DEF TypeOK
  <2>7. QED
    BY <1>0, <1>2, <1>3, <1>4, <2>4, <2>5, <2>6 DEF TypeOK
<1>8. HomeInv' /\ TicketInv'
  <2>1. \A d \in Call : /\ pc'[d] = "idle" <=> pc[d] = "idle"
                        /\ Active(d)' => Active(d)
    BY <1>2 DEF Active
  <2>2. UNCHANGED <<key, home, ticket>>
    OBVIOUS
  <2>3. QED BY <2>1, <2>2, RecordsKept DEF Active
<1>9. RegistryInv'
  <2>1. ASSUME NEW k \in Key, states'[k] # None
        PROVE  states'[k] \in running' /\ home[states'[k]] = states'[k] /\ key[states'[k]] = k
    <3>1. k # key[c] /\ states'[k] = states[k]
      BY <1>4, <2>1
    <3>2. states[k] \in running /\ home[states[k]] = states[k] /\ key[states[k]] = k
      BY <2>1, <3>1 DEF IInv, RegistryInv
    <3>3. QED BY <1>0, <1>1, <3>1, <3>2
  <2>2. QED BY <2>1 DEF RegistryInv
<1>10. FlagInv'
  <2>1. ASSUME NEW r \in Call
        PROVE  r \in running' <=> \E d \in Call : pc'[d] = "running" /\ home[d] = r
    <3>1. r \in running <=> \E d \in Call : pc[d] = "running" /\ home[d] = r
      BY DEF IInv, FlagInv
    <3>2. CASE r = s
      BY <1>1, <1>2, <1>6, <3>2
    <3>3. CASE r # s
      <4>1. \A d \in Call : (pc'[d] = "running" /\ home[d] = r) <=> (pc[d] = "running" /\ home[d] = r)
        BY <1>2, <3>3 DEF s
      <4>2. QED BY <1>1, <3>1, <3>3, <4>1
    <3>4. QED BY <3>2, <3>3
  <2>2. QED BY <2>1 DEF FlagInv
<1>11. ExclusivePerState'
  BY <1>2 DEF IInv, ExclusivePerState
<1>12. QueueInv'
  <2>1. ASSUME NEW r \in Call
        PROVE  /\ \A j \in DOMAIN queue'[r] :
                    /\ home[queue'[r][j]] = r
                    /\ pc'[queue'[r][j]] \in {"waiting", "timeout", "cleared"}
               /\ \A j, m \in DOMAIN queue'[r] :
                    j < m => ticket[queue'[r][j]] < ticket[queue'[r][m]]
    <3>1. CASE r = s
      BY <1>3, <3>1
    <3>2. CASE r # s
      <4>1. queue'[r] = queue[r]
        BY <1>3, <3>2
      <4>2. ASSUME NEW j \in DOMAIN queue[r]
            PROVE  /\ home[queue[r][j]] = r
                   /\ pc'[queue[r][j]] \in {"waiting", "timeout", "cleared"}
        <5>1. /\ queue[r][j] \in Call /\ home[queue[r][j]] = r
              /\ pc[queue[r][j]] \in {"waiting", "timeout", "cleared"}
          BY <1>0, QueueElements DEF IInv, QueueInv
        <5>2. QED BY <1>2, <5>1
      <4>3. \A j, m \in DOMAIN queue[r] : j < m => ticket[queue[r][j]] < ticket[queue[r][m]]
        BY DEF IInv, QueueInv
      <4>4. QED BY <4>1, <4>2, <4>3, Zenon
    <3>3. QED BY <3>1, <3>2
  <2>2. QED BY <2>1 DEF QueueInv
<1>13. WaitingInv'
  <2>1. ASSUME NEW d \in Call, pc'[d] = "waiting"
        PROVE  home[d] \in running' /\ \E j \in DOMAIN queue'[home[d]] : queue'[home[d]][j] = d
    <3>1. pc[d] = "waiting" /\ home[d] # s
      BY <1>2, <1>5, <2>1 DEF s
    <3>2. home[d] \in running /\ \E j \in DOMAIN queue[home[d]] : queue[home[d]][j] = d
      BY <3>1 DEF IInv, WaitingInv
    <3>3. home[d] \in Call
      BY <1>0, <3>2 DEF TypeOK
    <3>4. QED BY <1>1, <1>3, <3>1, <3>2, <3>3
  <2>2. QED BY <2>1 DEF WaitingInv
<1>14. RegisteredInv'
  <2>1. ASSUME clears' = 0, NEW d \in Call, Active(d)' PROVE states'[key[d]] = home[d]
    <3>1. d # c /\ Active(d) /\ clears = 0
      BY <1>2, <2>1 DEF Active
    <3>2. states[key[d]] = home[d] /\ states[key[c]] = s /\ key[d] \in Key
      BY <2>1, <3>1 DEF IInv, RegisteredInv, HomeInv, Active, s
    <3>3. home[d] # s
      BY <1>5, <1>6, <3>1 DEF Active, s
    <3>4. QED BY <1>4, <3>2, <3>3
  <2>2. QED BY <2>1 DEF RegisteredInv
<1>15. QED
  BY <1>7, <1>8, <1>9, <1>10, <1>11, <1>12, <1>13, <1>14 DEF IInv

\* Timeout and Clear only make waiters give up, and Clear empties the registry.
LEMMA GiveUpInv ==
  ASSUME IInv, UNCHANGED <<running, queue, key, home, bounded, ticket>>,
         pc' \in [Call -> Status], clears' \in Nat,
         \A c \in Call : pc'[c] # pc[c] => pc[c] = "waiting" /\ pc'[c] \in {"timeout", "cleared"},
         \/ states' = states /\ clears' = clears
         \/ states' = [k \in Key |-> None] /\ clears' # 0
  PROVE  IInv'
<1>1. TypeOK'
  <2>1. /\ Cardinality(Registered') <= MaxKeys
        /\ states' \in [Key -> Call \cup {None}]
    <3>1. CASE states' = states
      BY <3>1 DEF IInv, TypeOK, Registered
    <3>2. CASE states' = [k \in Key |-> None]
      <4>1. Registered' = {}
        BY <3>2 DEF Registered
      <4>2. Cardinality(Registered') = 0
        BY <4>1, FS_EmptySet
      <4>3. QED BY <3>2, <4>2, LockAssumption
    <3>3. QED BY <3>1, <3>2
  <2>2. QED BY <2>1 DEF IInv, TypeOK
<1>2. \A d \in Call : /\ pc'[d] = "idle" <=> pc[d] = "idle"
                      /\ pc'[d] = "running" <=> pc[d] = "running"
                      /\ pc'[d] = "waiting" => pc[d] = "waiting"
                      /\ Active(d)' => Active(d)
  BY DEF Active
<1>3. HomeInv' /\ TicketInv'
  <2>1. UNCHANGED <<key, home, ticket>>
    OBVIOUS
  <2>2. QED BY <1>2, <2>1, RecordsKept DEF Active
<1>4. FlagInv' /\ ExclusivePerState'
  BY <1>2 DEF IInv, FlagInv, ExclusivePerState
<1>5. RegistryInv'
  BY DEF IInv, RegistryInv
<1>6. QueueInv'
  <2>1. ASSUME NEW s \in Call, NEW i \in DOMAIN queue[s]
        PROVE  pc'[queue[s][i]] \in {"waiting", "timeout", "cleared"}
    <3>1. queue[s][i] \in Call /\ pc[queue[s][i]] \in {"waiting", "timeout", "cleared"}
      BY QueueElements DEF IInv, QueueInv
    <3>2. QED BY <3>1
  <2>2. QED BY <2>1, QueuesKept DEF IInv
<1>7. WaitingInv'
  BY <1>2 DEF IInv, WaitingInv
<1>8. RegisteredInv'
  BY <1>2 DEF IInv, RegisteredInv, Active
<1>9. QED
  BY <1>1, <1>3, <1>4, <1>5, <1>6, <1>7, <1>8 DEF IInv

\* Every step keeps the invariant.
LEMMA StepInv == IInv /\ [Next]_vars => IInv'
<1> SUFFICES ASSUME IInv, [Next]_vars PROVE IInv'
  OBVIOUS
<1>1. ASSUME NEW c \in Call, NEW k \in Key, NEW b \in BOOLEAN, WithLock(c, k, b) PROVE IInv'
  <2>1. CASE RefuseKey(c, k, b)
    BY <2>1, RefusalInv DEF RefuseKey
  <2>2. CASE Acquire(c, k, b)
    BY <2>2, AcquireInv
  <2>3. CASE Shed(c, k, b)
    BY <2>3, RefusalInv DEF Shed
  <2>4. CASE Enqueue(c, k, b)
    BY <2>4, EnqueueInv
  <2>5. QED BY <1>1, <2>1, <2>2, <2>3, <2>4 DEF WithLock
<1>2. ASSUME NEW c \in Call, Settle(c) PROVE IInv'
  BY <1>2, PromoteInv, ReleaseInv DEF Settle
<1>3. ASSUME NEW c \in Call, Timeout(c) PROVE IInv'
  <2>1. pc' \in [Call -> Status] /\ clears' \in Nat /\ pc[c] = "waiting" /\ pc'[c] = "timeout"
        /\ \A d \in Call : d # c => pc'[d] = pc[d]
    BY <1>3 DEF IInv, TypeOK, Timeout, Status, Settled
  <2>2. \A d \in Call : pc'[d] # pc[d] => pc[d] = "waiting" /\ pc'[d] \in {"timeout", "cleared"}
    BY <2>1
  <2>3. QED BY <1>3, <2>1, <2>2, GiveUpInv DEF Timeout
<1>4. CASE Clear
  <2>1. pc' \in [Call -> Status] /\ clears' \in Nat /\ clears' # 0
    BY <1>4 DEF IInv, TypeOK, Clear, Status, Settled
  <2>2. \A d \in Call : pc'[d] # pc[d] => pc[d] = "waiting" /\ pc'[d] \in {"timeout", "cleared"}
    BY <1>4 DEF Clear
  <2>3. QED BY <1>4, <2>1, <2>2, GiveUpInv DEF Clear
<1>5. CASE UNCHANGED vars
  <2>1. UNCHANGED <<Arrivals, Registered>>
    BY <1>5 DEF vars, Arrivals, Registered
  <2>2. QED
    BY <1>5, <2>1 DEF vars, IInv, TypeOK, ExclusivePerState, HomeInv, Active, RegistryInv,
       FlagInv, QueueInv, WaitingInv, TicketInv, RegisteredInv
<1>6. QED BY <1>1, <1>2, <1>3, <1>4, <1>5 DEF Next

-----------------------------------------------------------------------------
(* The theorems. *)

\* So it holds at all times.
LEMMA AlwaysIInv == Spec => []IInv
<1>1. QED BY InitInv, StepInv, PTL DEF Spec

\* Types, and the caps of withLock(): maxWaitersPerKey entries per queue,
\* maxKeys registered keys.
THEOREM TypeCorrect == Spec => []TypeOK
<1>1. IInv => TypeOK
  BY DEF IInv
<1>2. QED BY <1>1, AlwaysIInv, PTL

\* advance() hands over exclusively: one running call per state object, for
\* any number of calls and keys, with timeouts and clear() at any moment.
THEOREM MutualExclusionPerState == Spec => []ExclusivePerState
<1>1. IInv => ExclusivePerState
  BY DEF IInv
<1>2. QED BY <1>1, AlwaysIInv, PTL

\* withLock()'s promise: while clear() has not been used, no two calls run
\* under one key.
THEOREM MutualExclusionPerKey == Spec => []ExclusivePerKey
<1>1. ASSUME IInv, clears = 0, NEW c \in Call, NEW d \in Call,
             pc[c] = "running", pc[d] = "running", key[c] = key[d]
      PROVE  c = d
  <2>1. home[c] = home[d]
    BY <1>1 DEF IInv, RegisteredInv, Active
  <2>2. QED BY <1>1, <2>1 DEF IInv, ExclusivePerState
<1>2. IInv => ExclusivePerKey
  BY <1>1 DEF ExclusivePerKey
<1>3. QED BY <1>2, AlwaysIInv, PTL

\* held() tells the truth while clear() has not been used.
THEOREM NoLeakNoEarlyRelease == Spec => []HeldIsActive
<1>1. ASSUME IInv, clears = 0, NEW k \in Key, states[k] # None
      PROVE  \E c \in Call : key[c] = k /\ pc[c] \in {"running", "waiting"}
  <2>1. states[k] \in Call /\ states[k] \in running /\ key[states[k]] = k
    BY <1>1 DEF IInv, TypeOK, RegistryInv
  <2>2. PICK c \in Call : pc[c] = "running" /\ home[c] = states[k]
    BY <1>1, <2>1 DEF IInv, FlagInv
  <2>3. key[c] = k
    BY <1>1, <2>1, <2>2 DEF IInv, HomeInv
  <2>4. QED BY <2>2, <2>3
<1>2. ASSUME IInv, clears = 0, NEW k \in Key, NEW c \in Call,
             key[c] = k, pc[c] \in {"running", "waiting"}
      PROVE  states[k] # None
  BY <1>2 DEF IInv, RegisteredInv, HomeInv, Active
<1>3. IInv => HeldIsActive
  BY <1>1, <1>2 DEF HeldIsActive
<1>4. QED BY <1>3, AlwaysIInv, PTL

\* No waiter is left behind a state object that nobody will advance.
THEOREM NoOrphanedWaiter == Spec => []WaiterHasHolder
<1>1. ASSUME IInv, NEW c \in Call, pc[c] = "waiting"
      PROVE  \E d \in Call : pc[d] = "running" /\ home[d] = home[c]
  <2>1. home[c] \in running /\ home[c] \in Call
    BY <1>1 DEF IInv, TypeOK, WaitingInv
  <2>2. QED BY <1>1, <2>1 DEF IInv, FlagInv
<1>2. IInv => WaiterHasHolder
  BY <1>1 DEF WaiterHasHolder
<1>3. QED BY <1>2, AlwaysIInv, PTL

\* The queue is served in arrival order, over any timeouts inside it.
THEOREM FirstComeFirstServed == Spec => FifoHandover
<1> DEFINE Fair(c, d) == (/\ pc[c] = "waiting" /\ pc[d] = "waiting"
                          /\ home[c] = home[d] /\ ticket[c] < ticket[d])
                         => pc'[d] # "running"
<1>1. ASSUME IInv, Next, NEW c \in Call, NEW d \in Call,
             pc[c] = "waiting", pc[d] = "waiting", home[c] = home[d],
             ticket[c] < ticket[d], pc'[d] = "running"
      PROVE  FALSE
  <2>0. TypeOK
    BY <1>1 DEF IInv
  <2>1. PICK e \in Call : pc[e] = "running" /\ Promote(e, home[e])
    <3>1. ASSUME NEW a \in Call, NEW k \in Key, NEW b \in BOOLEAN, WithLock(a, k, b) PROVE FALSE
      <4>1. pc[a] = "idle" /\ a # d /\ \E st \in Status : pc' = [pc EXCEPT ![a] = st]
        BY <1>1, <3>1 DEF WithLock, RefuseKey, Acquire, Shed, Enqueue, Arrive, Status, Settled
      <4>2. QED BY <1>1, <2>0, <4>1 DEF TypeOK
    <3>2. ASSUME NEW a \in Call, Timeout(a) PROVE FALSE
      BY <1>1, <2>0, <3>2 DEF TypeOK, Timeout
    <3>3. CASE Clear
      BY <1>1, <3>3 DEF Clear
    <3>4. ASSUME NEW a \in Call, pc[a] = "running", Release(a, home[a]) PROVE FALSE
      BY <1>1, <2>0, <3>4 DEF TypeOK, Release
    <3>5. QED BY <1>1, <3>1, <3>2, <3>3, <3>4 DEF Next, Settle
  <2> DEFINE s == home[e]
  <2>2. PICK i \in LiveWaiters(s) :
          /\ \A j \in LiveWaiters(s) : i <= j
          /\ pc' = [pc EXCEPT ![e] = "done", ![queue[s][i]] = "running"]
    BY <2>1 DEF Promote
  <2>3. s \in Call /\ i \in DOMAIN queue[s]
    BY <1>1, <2>1, <2>2, LockAssumption DEF IInv, TypeOK, HomeInv, Active, LiveWaiters
  <2>4. d = queue[s][i] /\ home[d] = s
    <3>1. queue[s][i] \in Call /\ home[queue[s][i]] = s
      BY <1>1, <2>0, <2>3, QueueElements DEF IInv, QueueInv
    <3>2. d # queue[s][i] => pc'[d] # "running"
      BY <1>1, <2>0, <2>1, <2>2 DEF TypeOK
    <3>3. QED BY <1>1, <3>1, <3>2
  <2>5. PICK j \in DOMAIN queue[s] : queue[s][j] = c
    BY <1>1, <2>4 DEF IInv, WaitingInv
  <2>6. j \in LiveWaiters(s)
    BY <1>1, <2>5 DEF LiveWaiters, Cancelled
  <2>7. i <= j /\ i # j
    BY <1>1, <2>0, <2>2, <2>4, <2>5, <2>6 DEF TypeOK
  <2>8. i < j
    BY <2>0, <2>3, <2>5, <2>7, QueueElements
  <2>9. ticket[d] < ticket[c]
    BY <1>1, <2>3, <2>4, <2>5, <2>8 DEF IInv, QueueInv
  <2>10. QED BY <1>1, <2>0, <2>9 DEF TypeOK
<1>2. IInv /\ [Next]_vars => [\A c, d \in Call : Fair(c, d)]_vars
  BY <1>1
<1>3. QED BY <1>2, AlwaysIInv, PTL DEF Spec, FifoHandover

-----------------------------------------------------------------------------
(***************************************************************************)
(* The crdt plugin.  What an operation does is put together from a few     *)
(* changes to the document's record and its stores; each of them is shown  *)
(* to keep, of any record, what the next one rests on.                     *)
(***************************************************************************)
\* What the authority of a document works with, and its types.
StoreCall == [blob : SUBSET Edit, issued : BOOLEAN, newest : BOOLEAN,
              waiters : SUBSET Flusher, tell : SUBSET Flusher]
Record == [topic : {"absent", "loading", "loaded"}, doc : SUBSET Edit, refs : Nat,
           dirty : BOOLEAN, since : Nat, timer : BOOLEAN, unloading : BOOLEAN]
Asked == [st : {"idle", "waiting", "ok", "unconfirmed"}, had : SUBSET Edit]
Docs == [rec : Record, calls : Seq(StoreCall), flush : [Flusher -> Asked], gone : SUBSET Edit,
         waivers : SUBSET {"overlap", "stolen"}]

\* n edits were made; stores run only behind a loaded document, and the first of them
\* is issued.
WellKept(w, n) ==
  /\ w \in Docs
  /\ w.rec.doc \cup w.gone \subseteq 1..n
  /\ \A i \in 1..Len(w.calls) :
        w.calls[i].blob \subseteq 1..n /\ (w.calls[i].newest => i = Len(w.calls))
  /\ w.calls # <<>> => w.rec.topic = "loaded" /\ w.calls[1].issued
  /\ w.rec.topic # "loaded" => w.rec.doc = {} /\ w.rec.refs = 0 /\ ~w.rec.dirty

\* Only the first store is under way.
Single(w) == \A i \in 1..Len(w.calls) : w.calls[i].issued => i = 1

\* With s in the backend no edit of n is nowhere; what the stores write only grows,
\* from there to the document; and a flush waits for one store at most, which
\* covers what it was called for.
Intact(w, s, n) ==
  /\ 1..n \subseteq s \cup w.gone \cup w.rec.doc
  /\ w.rec.topic = "loaded" => s \subseteq w.rec.doc
  /\ \A i \in 1..Len(w.calls) :
        s \subseteq w.calls[i].blob /\ w.calls[i].blob \subseteq w.rec.doc
  /\ \A i, j \in 1..Len(w.calls) : i < j => w.calls[i].blob \subseteq w.calls[j].blob
  /\ \A f \in Flusher : w.flush[f].st = "ok" => w.flush[f].had \subseteq s
  /\ \A i \in 1..Len(w.calls) : \A f \in w.calls[i].tell :
        w.flush[f].st = "waiting" /\ w.flush[f].had \subseteq w.calls[i].blob
  /\ \A i, j \in 1..Len(w.calls) : i # j => w.calls[i].tell \cap w.calls[j].tell = {}

\* A document that is not dirty is in the backend, or in the newest store.
Captured(w, s) ==
  \/ w.rec.dirty
  \/ w.rec.doc \subseteq s
  \/ w.calls # <<>> /\ w.calls[Len(w.calls)].newest /\ w.calls[Len(w.calls)].blob = w.rec.doc

Held == {h \in Holder : holder[h] = "held"}
Document == [rec |-> rec, calls |-> calls, flush |-> flush, gone |-> gone, waivers |-> waivers]

CrdtInv ==
  /\ WellKept(Document, edits) /\ edits \in 0..MaxEdits /\ stored \subseteq 1..edits
  /\ holder \in [Holder -> {"none", "joining", "held", "dropped"}]
  /\ rec.since < SnapshotEvery /\ rec.refs <= Cardinality(Held)
  /\ rec.dirty => rec.timer
  /\ "overlap" \notin waivers =>
        Single(Document) /\ Intact(Document, stored, edits) /\ Captured(Document, stored)
  /\ "stolen" \notin waivers =>
        rec.refs = Cardinality(Held) /\ (Held # {} => rec.topic = "loaded")

\* The constants, and the names of the component that mean what they mean here.
LEMMA CrdtConstants ==
  IsFiniteSet(Holder) /\ MaxEdits \in Nat /\ SnapshotEvery \in Nat /\ SnapshotEvery > 0
BY CrdtAssumption DEF CrdtAssumption

\* The component's names for the library's operators, and for the document.
LEMMA CrdtNames ==
  /\ \A S : Crd!Cardinality(S) = Cardinality(S)
  /\ \A s, T : Crd!Without(s, T) = Without(s, T)
  /\ Crd!Now = Document
  /\ Crd!Cold = [topic |-> "absent", doc |-> {}, refs |-> 0, dirty |-> FALSE, since |-> 0,
                 timer |-> FALSE, unloading |-> FALSE]
BY DEF Crd!Cardinality, Cardinality, Crd!Without, Without, Crd!Now, Document, Crd!Cold

\* The parts of a world, each of its type.
LEMMA DocParts ==
  ASSUME NEW w \in Docs
  PROVE  /\ w = [rec |-> w.rec, calls |-> w.calls, flush |-> w.flush, gone |-> w.gone,
                 waivers |-> w.waivers]
         /\ w.rec \in Record /\ w.calls \in Seq(StoreCall) /\ w.flush \in [Flusher -> Asked]
         /\ w.gone \in SUBSET Edit /\ w.waivers \in SUBSET {"overlap", "stolen"}
         /\ Len(w.calls) \in Nat
         /\ \A i \in 1..Len(w.calls) : w.calls[i] \in StoreCall
BY DEF Docs

\* Another record and other stores, in the same world.
LEMMA Replaced ==
  ASSUME NEW w \in Docs, NEW r, NEW q, NEW v, v = [w EXCEPT !.rec = r, !.calls = q]
  PROVE  v = [rec |-> r, calls |-> q, flush |-> w.flush, gone |-> w.gone,
              waivers |-> w.waivers]
<1>1. w = [rec |-> w.rec, calls |-> w.calls, flush |-> w.flush, gone |-> w.gone,
           waivers |-> w.waivers]
  BY DocParts
<1> QED BY <1>1

\* The fields of a record, each of its type.
LEMMA RecordParts ==
  ASSUME NEW r \in Record
  PROVE  /\ r = [topic |-> r.topic, doc |-> r.doc, refs |-> r.refs, dirty |-> r.dirty,
                 since |-> r.since, timer |-> r.timer, unloading |-> r.unloading]
         /\ r.topic \in {"absent", "loading", "loaded"} /\ r.doc \in SUBSET Edit
         /\ r.refs \in Nat /\ r.dirty \in BOOLEAN /\ r.since \in Nat /\ r.timer \in BOOLEAN
         /\ r.unloading \in BOOLEAN
BY DEF Record

\* The fields of a store, each of its type.
LEMMA StoreCallParts ==
  ASSUME NEW c \in StoreCall
  PROVE  /\ c = [blob |-> c.blob, issued |-> c.issued, newest |-> c.newest,
                 waiters |-> c.waiters, tell |-> c.tell]
         /\ c.blob \in SUBSET Edit /\ c.issued \in BOOLEAN /\ c.newest \in BOOLEAN
         /\ c.waiters \in SUBSET Flusher /\ c.tell \in SUBSET Flusher
BY DEF StoreCall

\* What is defined of 1..k is a sequence of that length.
LEMMA AsSequence ==
  ASSUME NEW S, NEW k \in Nat, NEW q, q = [i \in 1..k |-> q[i]], \A i \in 1..k : q[i] \in S
  PROVE  q \in Seq(S) /\ Len(q) = k
<1>1. q \in [1..k -> S]
  OBVIOUS
<1> QED BY <1>1

\* storeNow makes v of w.
StoreMakes(w, who, v) ==
  /\ v \in Docs
  /\ v.rec.topic = w.rec.topic /\ v.rec.doc = w.rec.doc /\ v.rec.refs = w.rec.refs
  /\ ~v.rec.dirty /\ ~v.rec.timer /\ v.rec.since = 0
  /\ v.flush = w.flush /\ v.gone = w.gone /\ v.waivers = w.waivers
  /\ Len(v.calls) = Len(w.calls) + 1
  /\ \A i \in 1..Len(w.calls) :
        /\ v.calls[i].blob = w.calls[i].blob /\ v.calls[i].issued = w.calls[i].issued
        /\ v.calls[i].tell = w.calls[i].tell /\ ~v.calls[i].newest
  /\ v.calls[Len(w.calls) + 1].blob = w.rec.doc /\ v.calls[Len(w.calls) + 1].tell = who
  /\ v.calls[Len(w.calls) + 1].newest
  /\ w.calls = <<>> => v.calls[1].issued

\* It does: one more store, behind those there are.
LEMMA StoreIs ==
  ASSUME NEW w \in Docs, NEW who \in SUBSET Flusher
  PROVE  StoreMakes(w, who, Crd!StoreNow(w, who))
<1> DEFINE old == [i \in DOMAIN w.calls |-> [w.calls[i] EXCEPT !.newest = FALSE]]
           c == [blob |-> w.rec.doc, issued |-> Crd!Newest(w) = {}, newest |-> TRUE,
                 waiters |-> who, tell |-> who]
           r == [w.rec EXCEPT !.dirty = FALSE, !.since = 0, !.timer = FALSE]
           v == Crd!StoreNow(w, who)
<1>1. /\ w.rec \in Record /\ w.calls \in Seq(StoreCall) /\ w.flush \in [Flusher -> Asked]
      /\ w.gone \in SUBSET Edit /\ w.waivers \in SUBSET {"overlap", "stolen"}
      /\ Len(w.calls) \in Nat /\ \A i \in 1..Len(w.calls) : w.calls[i] \in StoreCall
  BY DocParts
<1>2. v = [rec |-> r, calls |-> Append(old, c), flush |-> w.flush, gone |-> w.gone,
           waivers |-> w.waivers]
  <2> DEFINE q == w.rec
  <2>1. w = [rec |-> q, calls |-> w.calls, flush |-> w.flush, gone |-> w.gone,
             waivers |-> w.waivers]
    BY DocParts
  <2>2. q = [topic |-> q.topic, doc |-> q.doc, refs |-> q.refs, dirty |-> q.dirty,
             since |-> q.since, timer |-> q.timer, unloading |-> q.unloading]
    BY <1>1, RecordParts
  <2>3. v = [w EXCEPT !.rec = r, !.calls = Append(old, c)]
    BY <2>1, <2>2 DEF Crd!StoreNow
  <2> HIDE DEF r, old, c, v
  <2> QED BY <2>3, Replaced
<1>3. r \in Record
  BY <1>1, RecordParts DEF Record
<1>4. c \in StoreCall
  BY <1>1, RecordParts DEF StoreCall
<1>5. DOMAIN w.calls = 1..Len(w.calls)
  BY <1>1
<1>6. \A i \in 1..Len(w.calls) :
         /\ old[i] \in StoreCall /\ ~old[i].newest
         /\ old[i].blob = w.calls[i].blob /\ old[i].issued = w.calls[i].issued
         /\ old[i].tell = w.calls[i].tell
  BY ZenonT(60), <1>1, <1>5, StoreCallParts DEF StoreCall
<1>7. old \in Seq(StoreCall) /\ Len(old) = Len(w.calls)
  <2>1. old = [i \in 1..Len(w.calls) |-> old[i]]
    BY <1>5
  <2>2. \A i \in 1..Len(w.calls) : old[i] \in StoreCall
    <3> HIDE DEF old
    <3> QED BY <1>6
  <2> HIDE DEF old
  <2> QED BY SMTT(30), <1>1, <2>1, <2>2, AsSequence
<1>8. w.calls = <<>> => c.issued
  <2>1. w.calls = <<>> => Crd!Newest(w) = {}
    BY DEF Crd!Newest
  <2> QED BY <2>1
<1>9. c.blob = w.rec.doc /\ c.tell = who /\ c.newest
  OBVIOUS
<1>14. /\ r.topic = w.rec.topic /\ r.doc = w.rec.doc /\ r.refs = w.rec.refs
       /\ ~r.dirty /\ ~r.timer /\ r.since = 0
  BY <1>1, RecordParts
<1> HIDE DEF old, c, r, v
<1>10. /\ Append(old, c) \in Seq(StoreCall) /\ Len(Append(old, c)) = Len(w.calls) + 1
       /\ Append(old, c)[Len(w.calls) + 1] = c
       /\ \A i \in 1..Len(w.calls) : Append(old, c)[i] = old[i]
  BY <1>1, <1>4, <1>7
<1>11. v \in Docs
  BY <1>1, <1>2, <1>3, <1>10 DEF Docs
<1>12. /\ v.rec = r /\ v.calls = Append(old, c) /\ v.flush = w.flush /\ v.gone = w.gone
       /\ v.waivers = w.waivers
  BY <1>2
<1>13. w.calls = <<>> => v.calls[1].issued
  BY <1>8, <1>10, <1>12
<1> QED
  <2>1. StoreMakes(w, who, v)
    BY <1>6, <1>9, <1>10, <1>11, <1>12, <1>13, <1>14 DEF StoreMakes
  <2> QED BY <2>1 DEF v

StoreKept(w, who, n, v) ==
  /\ WellKept(v, n)
  /\ v.rec.refs = w.rec.refs /\ v.rec.since = 0 /\ v.rec.topic = "loaded" /\ ~v.rec.dirty
  /\ v.waivers = w.waivers
  /\ \A s : Intact(w, s, n)
       /\ (\A f \in who : w.flush[f].st = "waiting" /\ w.flush[f].had \subseteq w.rec.doc)
       /\ (\A i \in 1..Len(w.calls) : w.calls[i].tell \cap who = {})
       => Intact(v, s, n) /\ Captured(v, s)

\* A store that begins keeps the order of the stores, and leaves nothing uncaptured.
LEMMA StoreKeeps ==
  ASSUME NEW n \in Nat, NEW w, WellKept(w, n), w.rec.topic = "loaded",
         NEW who \in SUBSET Flusher, NEW v, v = Crd!StoreNow(w, who)
  PROVE  StoreKept(w, who, n, v)
<1> DEFINE k == Len(w.calls)
<1>1. w \in Docs /\ k \in Nat /\ w.rec \in Record
  BY DocParts DEF WellKept
<1>0. StoreMakes(w, who, v)
  BY <1>1, StoreIs
<1>2. /\ v \in Docs
      /\ v.flush = w.flush /\ v.gone = w.gone /\ v.waivers = w.waivers
      /\ Len(v.calls) = k + 1
      /\ \A i \in 1..k :
            /\ v.calls[i].blob = w.calls[i].blob /\ v.calls[i].issued = w.calls[i].issued
            /\ v.calls[i].tell = w.calls[i].tell /\ ~v.calls[i].newest
      /\ v.calls[k + 1].blob = w.rec.doc /\ v.calls[k + 1].tell = who
      /\ v.calls[k + 1].newest
      /\ w.calls = <<>> => v.calls[1].issued
  BY <1>0 DEF StoreMakes
<1>3. /\ v.rec.topic = "loaded" /\ v.rec.doc = w.rec.doc /\ v.rec.refs = w.rec.refs
      /\ ~v.rec.dirty /\ v.rec.since = 0
  BY <1>0 DEF StoreMakes
<1>4. w.calls = <<>> \/ k > 0
  <2>1. w.calls \in Seq(StoreCall)
    BY <1>1, DocParts
  <2> QED BY <2>1
<1> HIDE DEF k
<1>5. 1..(k + 1) = 1..k \cup {k + 1} /\ \A i \in 1..k : i < k + 1 /\ i # k + 1
  BY <1>1
<1>6. WellKept(v, n)
  <2>1. v.rec.doc \cup v.gone \subseteq 1..n
    BY <1>2, <1>3 DEF WellKept
  <2>2. ASSUME NEW i \in 1..(k + 1)
        PROVE  v.calls[i].blob \subseteq 1..n /\ (v.calls[i].newest => i = k + 1)
    BY <1>2, <1>5 DEF WellKept, k
  <2>3. v.calls[1].issued
    <3>1. CASE w.calls = <<>>
      BY <3>1, <1>2
    <3>2. CASE w.calls # <<>>
      <4>1. w.calls[1].issued /\ 1 \in 1..k
        BY <3>2, <1>1, <1>4 DEF WellKept
      <4> QED BY <4>1, <1>2
    <3> QED BY <3>1, <3>2
  <2> QED BY <1>2, <1>3, <2>1, <2>2, <2>3 DEF WellKept
<1>7. ASSUME NEW s, Intact(w, s, n),
             \A f \in who : w.flush[f].st = "waiting" /\ w.flush[f].had \subseteq w.rec.doc,
             \A i \in 1..k : w.calls[i].tell \cap who = {}
      PROVE  Intact(v, s, n) /\ Captured(v, s)
  <2>1. /\ 1..n \subseteq s \cup w.gone \cup w.rec.doc
        /\ s \subseteq w.rec.doc
        /\ \A i \in 1..k : s \subseteq w.calls[i].blob /\ w.calls[i].blob \subseteq w.rec.doc
        /\ \A i, j \in 1..k : i < j => w.calls[i].blob \subseteq w.calls[j].blob
        /\ \A f \in Flusher : w.flush[f].st = "ok" => w.flush[f].had \subseteq s
        /\ \A i \in 1..k : \A f \in w.calls[i].tell :
              w.flush[f].st = "waiting" /\ w.flush[f].had \subseteq w.calls[i].blob
        /\ \A i, j \in 1..k : i # j => w.calls[i].tell \cap w.calls[j].tell = {}
    BY <1>7 DEF Intact, k
  <2>2. \A i \in 1..(k + 1) :
           s \subseteq v.calls[i].blob /\ v.calls[i].blob \subseteq w.rec.doc
    BY <1>2, <1>5, <2>1
  <2>3. ASSUME NEW i \in 1..(k + 1), NEW j \in 1..(k + 1), i < j
        PROVE  v.calls[i].blob \subseteq v.calls[j].blob
    <3>1. i \in 1..k
      BY <2>3, <1>1
    <3>2. CASE j = k + 1
      BY <3>1, <3>2, <1>2, <2>1
    <3>3. CASE j \in 1..k
      BY <3>1, <3>3, <2>3, <1>2, <2>1
    <3> QED BY <3>2, <3>3, <1>5
  <2>4. \A i \in 1..(k + 1) : \A f \in v.calls[i].tell :
           v.flush[f].st = "waiting" /\ v.flush[f].had \subseteq v.calls[i].blob
    BY <1>2, <1>5, <1>7, <2>1
  <2>5. \A i, j \in 1..(k + 1) : i # j => v.calls[i].tell \cap v.calls[j].tell = {}
    BY <1>2, <1>5, <1>7, <2>1
  <2>6. Intact(v, s, n)
    BY <1>2, <1>3, <2>1, <2>2, <2>3, <2>4, <2>5 DEF Intact
  <2>7. Captured(v, s)
    <3>1. v.calls # <<>>
      BY <1>1, <1>2
    <3> QED BY <3>1, <1>2, <1>3 DEF Captured
  <2> QED BY <2>6, <2>7
<1> QED BY <1>2, <1>3, <1>6, <1>7 DEF k, StoreKept

\* What a finished flush is told makes v of w.
ReportMakes(w, who, outcome, v) ==
  /\ v \in Docs
  /\ v.rec = w.rec /\ v.gone = w.gone /\ v.waivers = w.waivers /\ Len(v.calls) = Len(w.calls)
  /\ \A i \in 1..Len(w.calls) :
        /\ v.calls[i].blob = w.calls[i].blob /\ v.calls[i].issued = w.calls[i].issued
        /\ v.calls[i].tell = w.calls[i].tell /\ v.calls[i].newest = w.calls[i].newest
  /\ \A f \in Flusher : v.flush[f].had = w.flush[f].had
  /\ \A f \in Flusher \ who : v.flush[f].st = w.flush[f].st
  /\ \A f \in who : v.flush[f].st = "ok" =>
        outcome = "durable" /\ ~(w.rec.topic # "absent" /\ w.rec.dirty)

\* Telling flushes changes those flushes and who waits for the stores, nothing else.
LEMMA ReportIs ==
  ASSUME NEW w \in Docs, NEW who \in SUBSET Flusher, NEW outcome
  PROVE  ReportMakes(w, who, outcome, Crd!Report(w, who, outcome))
<1> DEFINE answer == IF outcome = "durable" /\ ~(w.rec.topic # "absent" /\ w.rec.dirty)
                     THEN "ok" ELSE "unconfirmed"
           told == [f \in Flusher |-> IF f \notin who THEN w.flush[f]
                                      ELSE [w.flush[f] EXCEPT !.st = answer]]
           left == [i \in DOMAIN w.calls |->
                      [w.calls[i] EXCEPT !.waiters = w.calls[i].waiters \ who]]
           v == Crd!Report(w, who, outcome)
<1>1. /\ w.rec \in Record /\ w.calls \in Seq(StoreCall) /\ w.flush \in [Flusher -> Asked]
      /\ w.gone \in SUBSET Edit /\ w.waivers \in SUBSET {"overlap", "stolen"}
      /\ Len(w.calls) \in Nat /\ \A i \in 1..Len(w.calls) : w.calls[i] \in StoreCall
  BY DocParts
<1>2. v = [rec |-> w.rec, calls |-> left, flush |-> told, gone |-> w.gone,
           waivers |-> w.waivers]
  <2>1. w = [rec |-> w.rec, calls |-> w.calls, flush |-> w.flush, gone |-> w.gone,
             waivers |-> w.waivers]
    BY DocParts
  <2>2. v = [w EXCEPT !.flush = told, !.calls = left]
    BY Zenon DEF Crd!Report
  <2> QED BY <2>1, <2>2
<1>3. answer \in {"ok", "unconfirmed"}
      /\ (answer = "ok" => outcome = "durable" /\ ~(w.rec.topic # "absent" /\ w.rec.dirty))
  OBVIOUS
<1> HIDE DEF answer
<1>4. \A f \in Flusher : /\ w.flush[f] \in Asked
                         /\ w.flush[f] = [st |-> w.flush[f].st, had |-> w.flush[f].had]
                         /\ w.flush[f].had \in SUBSET Edit
  BY <1>1 DEF Asked
<1>5. \A f \in Flusher : /\ told[f].had = w.flush[f].had /\ told[f] \in Asked
                         /\ told[f].st = IF f \in who THEN answer ELSE w.flush[f].st
  BY <1>3, <1>4 DEF Asked
<1>6. told \in [Flusher -> Asked]
  <2>1. told = [f \in Flusher |-> told[f]]
    OBVIOUS
  <2> HIDE DEF told
  <2> QED BY <1>5, <2>1
<1>7. DOMAIN w.calls = 1..Len(w.calls)
  BY <1>1
<1>8. \A i \in 1..Len(w.calls) :
         /\ left[i] \in StoreCall /\ left[i].newest = w.calls[i].newest
         /\ left[i].blob = w.calls[i].blob /\ left[i].issued = w.calls[i].issued
         /\ left[i].tell = w.calls[i].tell
  BY <1>1, <1>7, StoreCallParts DEF StoreCall
<1>9. left \in Seq(StoreCall) /\ Len(left) = Len(w.calls)
  <2>1. left = [i \in 1..Len(w.calls) |-> left[i]]
    BY <1>7
  <2>2. \A i \in 1..Len(w.calls) : left[i] \in StoreCall
    BY <1>8
  <2> HIDE DEF left
  <2> QED BY ZenonT(60), <1>1, <2>1, <2>2, AsSequence
<1> HIDE DEF told, left, v
<1>10. v \in Docs
  BY <1>1, <1>2, <1>6, <1>9 DEF Docs
<1>11. /\ v.rec = w.rec /\ v.calls = left /\ v.flush = told /\ v.gone = w.gone
       /\ v.waivers = w.waivers
  BY <1>2
<1>12. ReportMakes(w, who, outcome, v)
  BY <1>3, <1>5, <1>8, <1>9, <1>10, <1>11 DEF ReportMakes
<1> QED BY <1>12 DEF v

\* A report leaves the record and its stores as they are; whom it tells no store may be
\* about to tell.
ReportKept(w, who, outcome, n, v) ==
  /\ WellKept(v, n)
  /\ v.rec = w.rec /\ v.waivers = w.waivers
  /\ \A s : Captured(w, s) => Captured(v, s)
  /\ \A s : Intact(w, s, n)
       /\ (\A i \in 1..Len(w.calls) : w.calls[i].tell \cap who = {})
       /\ (outcome = "durable" /\ ~(w.rec.topic # "absent" /\ w.rec.dirty)
             => \A f \in who : w.flush[f].had \subseteq s)
       => Intact(v, s, n)

\* Telling them keeps everything, if the store behind an ok held what they asked for.
LEMMA ReportKeeps ==
  ASSUME NEW n \in Nat, NEW w, WellKept(w, n), NEW who \in SUBSET Flusher, NEW outcome
  PROVE  ReportKept(w, who, outcome, n, Crd!Report(w, who, outcome))
<1> DEFINE v == Crd!Report(w, who, outcome)
<1>1. w \in Docs /\ Len(w.calls) \in Nat /\ w.calls \in Seq(StoreCall)
  BY DocParts DEF WellKept
<1>2. ReportMakes(w, who, outcome, v)
  BY <1>1, ReportIs
<1> HIDE DEF v
<1>3. v.calls \in Seq(StoreCall) /\ Len(v.calls) = Len(w.calls)
  BY <1>2, DocParts DEF ReportMakes
<1>4. v.calls # <<>> <=> w.calls # <<>>
  BY <1>1, <1>3
<1>5. w.calls # <<>> => 1 \in 1..Len(w.calls) /\ Len(w.calls) \in 1..Len(w.calls)
  BY <1>1
<1>6. WellKept(v, n)
  BY <1>2, <1>4, <1>5 DEF WellKept, ReportMakes
<1>8. \A s : Captured(w, s) => Captured(v, s)
  BY <1>2, <1>4, <1>5 DEF Captured, ReportMakes
<1>9. ASSUME NEW s, Intact(w, s, n), \A i \in 1..Len(w.calls) : w.calls[i].tell \cap who = {},
             outcome = "durable" /\ ~(w.rec.topic # "absent" /\ w.rec.dirty)
               => \A f \in who : w.flush[f].had \subseteq s
      PROVE  Intact(v, s, n)
  <2>1. \A f \in Flusher : v.flush[f].st = "ok" => v.flush[f].had \subseteq s
    <3> SUFFICES ASSUME NEW f \in Flusher, v.flush[f].st = "ok"
                 PROVE  w.flush[f].had \subseteq s
      BY <1>2 DEF ReportMakes
    <3>1. CASE f \in who
      BY <3>1, <1>2, <1>9 DEF ReportMakes
    <3>2. CASE f \notin who
      BY <3>2, <1>2, <1>9 DEF ReportMakes, Intact
    <3> QED BY <3>1, <3>2
  <2>2. \A i \in 1..Len(w.calls) : w.calls[i].tell \subseteq Flusher
    BY <1>1, DocParts, StoreCallParts
  <2>3. \A i \in 1..Len(v.calls) : \A f \in v.calls[i].tell :
           v.flush[f].st = "waiting" /\ v.flush[f].had \subseteq v.calls[i].blob
    <3> SUFFICES ASSUME NEW i \in 1..Len(w.calls), NEW f \in w.calls[i].tell
                 PROVE  v.flush[f].st = "waiting" /\ v.flush[f].had \subseteq w.calls[i].blob
      BY <1>2 DEF ReportMakes
    <3>1. f \in Flusher \ who
      BY <1>9, <2>2
    <3> QED BY <3>1, <1>2, <1>9 DEF ReportMakes, Intact
  <2> QED BY SMTT(30), <2>1, <2>3, <1>2, <1>9 DEF ReportMakes, Intact
<1>10. v.rec = w.rec /\ v.waivers = w.waivers
  BY <1>2 DEF ReportMakes
<1> QED BY <1>6, <1>8, <1>9, <1>10 DEF ReportKept, v

\* A document that is not in memory: what was made of it is in the backend or gone.
LEMMA ColdIsKept ==
  ASSUME NEW n \in Nat, NEW v \in Docs, v.rec = Crd!Cold, v.calls = <<>>, v.gone \subseteq 1..n
  PROVE  /\ WellKept(v, n) /\ Single(v)
         /\ v.rec.refs = 0 /\ v.rec.since = 0 /\ v.rec.topic = "absent" /\ ~v.rec.dirty
         /\ \A s : 1..n \subseteq s \cup v.gone
                /\ (\A f \in Flusher : v.flush[f].st = "ok" => v.flush[f].had \subseteq s)
                => Intact(v, s, n) /\ Captured(v, s)
<1>1. /\ v.rec.topic = "absent" /\ v.rec.doc = {} /\ v.rec.refs = 0 /\ ~v.rec.dirty
      /\ v.rec.since = 0 /\ Len(v.calls) = 0 /\ 1..0 = {}
  BY CrdtNames
<1>2. WellKept(v, n) /\ Single(v)
  BY <1>1 DEF WellKept, Single
<1>3. ASSUME NEW s, 1..n \subseteq s \cup v.gone,
             \A f \in Flusher : v.flush[f].st = "ok" => v.flush[f].had \subseteq s
      PROVE  Intact(v, s, n) /\ Captured(v, s)
  BY <1>1, <1>3 DEF Intact, Captured
<1> QED BY <1>1, <1>2, <1>3

\* unload makes v of w.
UnloadMakes(w, v) ==
  /\ v \in Docs
  /\ v.rec = Crd!Cold /\ v.calls = <<>> /\ v.gone = w.gone /\ v.waivers = w.waivers
  /\ \A f \in Flusher : /\ v.flush[f].had = w.flush[f].had
                        /\ v.flush[f].st = "ok" => w.flush[f].st = "ok"

\* Unloading leaves a cold record and no store.
LEMMA UnloadIs ==
  ASSUME NEW w \in Docs
  PROVE  UnloadMakes(w, Crd!Unload(w))
<1> DEFINE told == UNION {w.calls[i].tell : i \in DOMAIN w.calls}
           u == [w EXCEPT !.rec = Crd!Cold, !.calls = <<>>]
           v == Crd!Report(u, told, "failed")
<1>1. /\ w.rec \in Record /\ w.calls \in Seq(StoreCall) /\ w.flush \in [Flusher -> Asked]
      /\ w.gone \in SUBSET Edit /\ w.waivers \in SUBSET {"overlap", "stolen"}
      /\ DOMAIN w.calls = 1..Len(w.calls) /\ \A i \in 1..Len(w.calls) : w.calls[i] \in StoreCall
  BY DocParts
<1>2. told \subseteq Flusher
  BY <1>1, StoreCallParts
<1>3. Crd!Unload(w) = v
  BY DEF Crd!Unload
<1>4. u = [rec |-> Crd!Cold, calls |-> <<>>, flush |-> w.flush, gone |-> w.gone,
           waivers |-> w.waivers]
  <2>1. u = [w EXCEPT !.rec = Crd!Cold, !.calls = <<>>]
    OBVIOUS
  <2> HIDE DEF u
  <2> QED BY <2>1, Replaced
<1>5. Crd!Cold \in Record
  BY CrdtNames DEF Record
<1> HIDE DEF told, u, v
<1>6. u \in Docs
  BY <1>1, <1>4, <1>5 DEF Docs
<1>7. ReportMakes(u, told, "failed", v)
  BY <1>2, <1>6, ReportIs DEF v
<1>8. /\ u.rec = Crd!Cold /\ u.calls = <<>> /\ u.flush = w.flush /\ u.gone = w.gone
      /\ u.waivers = w.waivers
  BY <1>4
<1>9. v.calls = <<>>
  <2>1. v.calls \in Seq(StoreCall) /\ Len(v.calls) = Len(u.calls)
    BY <1>7, DocParts DEF ReportMakes
  <2> QED BY <2>1, <1>8
<1>10. ASSUME NEW f \in Flusher
       PROVE  v.flush[f].had = w.flush[f].had /\ (v.flush[f].st = "ok" => w.flush[f].st = "ok")
  BY <1>7, <1>8 DEF ReportMakes
<1> QED BY <1>3, <1>7, <1>8, <1>9, <1>10 DEF UnloadMakes, ReportMakes

\* drop, or an end that leaves the rest to the holder of the lease: x is given up.
Erased(w, x) == [Crd!Unload(w) EXCEPT !.gone = @ \cup x]

\* Counting edits as gone changes nothing else.
LEMMA ErasedIs ==
  ASSUME NEW w \in Docs, NEW x \in SUBSET Edit, NEW v, v = Erased(w, x)
  PROVE  /\ v \in Docs
         /\ v.rec = Crd!Cold /\ v.calls = <<>> /\ v.gone = w.gone \cup x
         /\ v.waivers = w.waivers
         /\ \A f \in Flusher : /\ v.flush[f].had = w.flush[f].had
                               /\ v.flush[f].st = "ok" => w.flush[f].st = "ok"
<1> DEFINE u == Crd!Unload(w)
<1>0. v = [u EXCEPT !.gone = u.gone \cup x]
  BY DEF Erased
<1>1. UnloadMakes(w, u)
  BY UnloadIs
<1> HIDE DEF u
<1>2. /\ u \in Docs /\ u.rec = Crd!Cold /\ u.calls = <<>> /\ u.gone = w.gone
      /\ u.waivers = w.waivers
      /\ \A f \in Flusher : /\ u.flush[f].had = w.flush[f].had
                            /\ u.flush[f].st = "ok" => w.flush[f].st = "ok"
  BY <1>1 DEF UnloadMakes
<1>3. v = [rec |-> u.rec, calls |-> u.calls, flush |-> u.flush, gone |-> u.gone \cup x,
           waivers |-> u.waivers]
  <2>1. u = [rec |-> u.rec, calls |-> u.calls, flush |-> u.flush, gone |-> u.gone,
             waivers |-> u.waivers]
    BY <1>2, DocParts
  <2> QED BY <1>0, <2>1
<1>4. v \in Docs
  <2>1. /\ u.rec \in Record /\ u.calls \in Seq(StoreCall) /\ u.flush \in [Flusher -> Asked]
        /\ u.gone \cup x \in SUBSET Edit /\ u.waivers \in SUBSET {"overlap", "stolen"}
    BY <1>2, DocParts
  <2> QED BY <1>3, <2>1 DEF Docs
<1>5. /\ v.rec = Crd!Cold /\ v.calls = <<>> /\ v.gone = w.gone \cup x /\ v.waivers = w.waivers
      /\ v.flush = u.flush
  BY <1>2, <1>3
<1> QED BY <1>2, <1>4, <1>5 DEF u

\* A store that settled leaves the chain, and makes v of w.
ReleasedMakes(w, i, v) ==
  /\ v \in Docs
  /\ v.rec = w.rec /\ v.flush = w.flush /\ v.gone = w.gone /\ v.waivers = w.waivers
  /\ Len(v.calls) = Len(w.calls) - 1
  /\ \A j \in 1..(Len(w.calls) - 1) :
        LET c == w.calls[IF j < i THEN j ELSE j + 1]
        IN /\ v.calls[j].blob = c.blob /\ v.calls[j].tell = c.tell
           /\ v.calls[j].newest = c.newest
           /\ v.calls[j].issued <=> c.issued \/ j = i

\* A store that leaves the chain: the ones behind it move up, and the next is issued.
LEMMA ReleasedIs ==
  ASSUME NEW w \in Docs, NEW i \in 1..Len(w.calls)
  PROVE  ReleasedMakes(w, i, Crd!Released(w, i))
<1> DEFINE k == Len(w.calls)
           from(j) == w.calls[IF j < i THEN j ELSE j + 1]
           next(j) == IF j < i THEN w.calls[j]
                      ELSE [w.calls[j + 1] EXCEPT !.issued = w.calls[j + 1].issued \/ j = i]
           left == [j \in 1..(k - 1) |-> next(j)]
           v == Crd!Released(w, i)
<1>1. /\ w.calls \in Seq(StoreCall) /\ k \in Nat /\ i \in 1..k
      /\ \A j \in 1..k : w.calls[j] \in StoreCall
  BY DocParts
<1>2. k - 1 \in Nat /\ \A j \in 1..(k - 1) : j \in 1..k /\ j + 1 \in 1..k
  BY <1>1
<1>3. ASSUME NEW j \in 1..(k - 1)
      PROVE  /\ next(j) \in StoreCall
             /\ next(j).blob = from(j).blob /\ next(j).tell = from(j).tell
             /\ next(j).newest = from(j).newest
             /\ next(j).issued <=> from(j).issued \/ j = i
  <2>1. w.calls[j] \in StoreCall /\ w.calls[j + 1] \in StoreCall
    BY <1>1, <1>2
  <2>2. CASE j < i
    <3>1. next(j) = w.calls[j] /\ from(j) = w.calls[j] /\ j # i
      BY <2>2, <1>1
    <3> QED BY <2>1, <3>1
  <2>3. CASE ~(j < i)
    <3> DEFINE c == w.calls[j + 1]
               d == [c EXCEPT !.issued = c.issued \/ j = i]
    <3>1. next(j) = d /\ from(j) = c
      BY <2>3
    <3>3. c \in StoreCall
      BY <2>1
    <3> HIDE DEF c
    <3>4. /\ d \in StoreCall /\ d.blob = c.blob /\ d.tell = c.tell /\ d.newest = c.newest
          /\ d.issued <=> c.issued \/ j = i
      BY <3>3, StoreCallParts DEF StoreCall
    <3> QED BY <3>1, <3>4
  <2> QED BY <2>2, <2>3
<1>4. left \in Seq(StoreCall) /\ Len(left) = k - 1 /\ \A j \in 1..(k - 1) : left[j] = next(j)
  <2>1. left = [j \in 1..(k - 1) |-> left[j]] /\ \A j \in 1..(k - 1) : left[j] = next(j)
    OBVIOUS
  <2>2. \A j \in 1..(k - 1) : left[j] \in StoreCall
    BY <1>3, <2>1
  <2> HIDE DEF left, k, next
  <2> QED BY <1>2, <2>1, <2>2, AsSequence
<1>5. v = [w EXCEPT !.calls = left]
  BY Zenon DEF Crd!Released
<1> HIDE DEF left, v, next, from
<1>6. v = [rec |-> w.rec, calls |-> left, flush |-> w.flush, gone |-> w.gone,
           waivers |-> w.waivers]
  <2>1. w = [rec |-> w.rec, calls |-> w.calls, flush |-> w.flush, gone |-> w.gone,
             waivers |-> w.waivers]
    BY DocParts
  <2> QED BY <1>5, <2>1
<1>7. v \in Docs
  BY <1>4, <1>6, DocParts DEF Docs
<1>8. /\ v.rec = w.rec /\ v.calls = left /\ v.flush = w.flush /\ v.gone = w.gone
      /\ v.waivers = w.waivers
  BY <1>6
<1>9. ASSUME NEW j \in 1..(k - 1)
      PROVE  /\ v.calls[j].blob = from(j).blob /\ v.calls[j].tell = from(j).tell
             /\ v.calls[j].newest = from(j).newest
             /\ v.calls[j].issued <=> from(j).issued \/ j = i
  BY <1>3, <1>4, <1>8
<1>10. ReleasedMakes(w, i, v)
  BY <1>4, <1>7, <1>8, <1>9 DEF ReleasedMakes, from
<1> QED BY <1>10 DEF v

ReleasedKept(w, i, n, v) ==
  LET c == w.calls[i]
  IN /\ WellKept(v, n)
     /\ v.rec = w.rec /\ v.waivers = w.waivers /\ v.gone = w.gone /\ v.flush = w.flush
     /\ \A s, t : Intact(w, s, n) /\ Single(w) /\ c.issued /\ t \in {s, c.blob} =>
           /\ Intact(v, t, n)
           /\ \A f \in c.tell : w.flush[f].had \subseteq c.blob
           /\ \A j \in 1..Len(v.calls) : v.calls[j].tell \cap c.tell = {}
           /\ s \subseteq t
           /\ Captured(w, s) =>
                 IF c.newest THEN w.rec.dirty \/ w.rec.doc \subseteq s \/ w.rec.doc = c.blob
                 ELSE Captured(v, t)

\* The chain stays in order when a store leaves it.
LEMMA ReleasedKeeps ==
  ASSUME NEW n \in Nat, NEW w, WellKept(w, n), NEW i \in 1..Len(w.calls)
  PROVE  ReleasedKept(w, i, n, Crd!Released(w, i))
<1> DEFINE v == Crd!Released(w, i)
           c == w.calls[i]
           k == Len(w.calls)
<1>1. w \in Docs /\ k \in Nat /\ w.calls \in Seq(StoreCall) /\ i \in 1..k
  BY DocParts DEF WellKept
<1>2. ReleasedMakes(w, i, v)
  BY <1>1, ReleasedIs
<1> HIDE DEF v
<1>3. /\ v \in Docs /\ v.rec = w.rec /\ v.flush = w.flush /\ v.gone = w.gone
      /\ v.waivers = w.waivers /\ Len(v.calls) = k - 1 /\ v.calls \in Seq(StoreCall)
  BY <1>2, DocParts DEF ReleasedMakes
<1>4. ASSUME NEW j \in 1..(k - 1)
      PROVE  \E m \in {j, j + 1} :
               /\ m \in 1..k /\ (m = j <=> j < i) /\ (j = i => m = j + 1)
               /\ v.calls[j].blob = w.calls[m].blob /\ v.calls[j].tell = w.calls[m].tell
               /\ v.calls[j].newest = w.calls[m].newest
               /\ v.calls[j].issued <=> w.calls[m].issued \/ j = i
  <2> DEFINE m == IF j < i THEN j ELSE j + 1
  <2>1. m \in {j, j + 1} /\ m \in 1..k /\ (m = j <=> j < i) /\ (j = i => m = j + 1)
    BY <1>1
  <2>2. /\ v.calls[j].blob = w.calls[m].blob /\ v.calls[j].tell = w.calls[m].tell
        /\ v.calls[j].newest = w.calls[m].newest
        /\ v.calls[j].issued <=> w.calls[m].issued \/ j = i
    BY <1>2 DEF ReleasedMakes
  <2> HIDE DEF m
  <2> QED BY <2>1, <2>2
<1>5. w.rec.topic = "loaded" /\ w.calls[1].issued
  <2>1. w.calls # <<>>
    BY <1>1
  <2> QED BY <2>1 DEF WellKept
<1> HIDE DEF c, k
<1>6. WellKept(v, n)
  <2>1. ASSUME NEW j \in 1..(k - 1)
        PROVE  v.calls[j].blob \subseteq 1..n /\ (v.calls[j].newest => j = k - 1)
    <3>1. PICK m \in {j, j + 1} :
               /\ m \in 1..k /\ (m = j <=> j < i)
               /\ v.calls[j].blob = w.calls[m].blob /\ v.calls[j].newest = w.calls[m].newest
      BY <1>4
    <3>2. w.calls[m].blob \subseteq 1..n /\ (w.calls[m].newest => m = k)
      BY <3>1 DEF WellKept, k
    <3> QED BY <3>1, <3>2, <1>1
  <2>2. ASSUME v.calls # <<>> PROVE v.calls[1].issued
    <3>1. 1 \in 1..(k - 1)
      BY <2>2, <1>1, <1>3
    <3>2. PICK m \in {1, 1 + 1} :
               /\ m = 1 <=> 1 < i
               /\ v.calls[1].issued <=> w.calls[m].issued \/ 1 = i
      BY <3>1, <1>4
    <3>3. CASE i = 1
      BY <3>2, <3>3
    <3>4. CASE i # 1
      <4>1. m = 1
        BY <3>2, <3>4, <1>1
      <4> QED BY <3>2, <4>1, <1>5
    <3> QED BY <3>3, <3>4
  <2> QED BY <2>1, <2>2, <1>3, <1>5 DEF WellKept
<1>7. ASSUME NEW s, NEW t, Intact(w, s, n), Single(w), c.issued, t \in {s, c.blob}
      PROVE  /\ Intact(v, t, n)
             /\ \A f \in c.tell : w.flush[f].had \subseteq c.blob
             /\ \A j \in 1..Len(v.calls) : v.calls[j].tell \cap c.tell = {}
             /\ s \subseteq t
             /\ Captured(w, s) =>
                   IF c.newest THEN w.rec.dirty \/ w.rec.doc \subseteq s \/ w.rec.doc = c.blob
                   ELSE Captured(v, t)
  <2>1. i = 1
    BY <1>1, <1>7 DEF Single, c
  <2>2. /\ 1..n \subseteq s \cup w.gone \cup w.rec.doc
        /\ s \subseteq w.rec.doc
        /\ \A j \in 1..k : s \subseteq w.calls[j].blob /\ w.calls[j].blob \subseteq w.rec.doc
        /\ \A h, j \in 1..k : h < j => w.calls[h].blob \subseteq w.calls[j].blob
        /\ \A f \in Flusher : w.flush[f].st = "ok" => w.flush[f].had \subseteq s
        /\ \A j \in 1..k : \A f \in w.calls[j].tell :
              w.flush[f].st = "waiting" /\ w.flush[f].had \subseteq w.calls[j].blob
        /\ \A h, j \in 1..k : h # j => w.calls[h].tell \cap w.calls[j].tell = {}
    BY <1>5, <1>7 DEF Intact, k
  <2>3. \A j \in 1..(k - 1) :
           /\ j + 1 \in 1..k /\ 1 < j + 1 /\ 1 # j + 1
           /\ v.calls[j].blob = w.calls[j + 1].blob /\ v.calls[j].tell = w.calls[j + 1].tell
           /\ v.calls[j].newest = w.calls[j + 1].newest
    <3> SUFFICES ASSUME NEW j \in 1..(k - 1)
                 PROVE  /\ j + 1 \in 1..k /\ 1 < j + 1 /\ 1 # j + 1
                        /\ v.calls[j].blob = w.calls[j + 1].blob
                        /\ v.calls[j].tell = w.calls[j + 1].tell
                        /\ v.calls[j].newest = w.calls[j + 1].newest
      OBVIOUS
    <3>1. ~(j < i) /\ j \in Int /\ j >= 1 /\ j <= k - 1
      BY <2>1, <1>1
    <3>2. PICK m \in {j, j + 1} :
               /\ (m = j <=> j < i)
               /\ v.calls[j].blob = w.calls[m].blob /\ v.calls[j].tell = w.calls[m].tell
               /\ v.calls[j].newest = w.calls[m].newest
      BY <1>4
    <3>3. m = j + 1
      BY <3>1, <3>2
    <3> QED BY <3>1, <3>2, <3>3, <1>1
  <2>4. 1 \in 1..k /\ c = w.calls[1]
    BY <1>1, <2>1 DEF c
  <2>5. s \subseteq t /\ t \subseteq w.rec.doc /\ \A j \in 1..(k - 1) : t \subseteq v.calls[j].blob
    BY <1>7, <2>2, <2>3, <2>4
  <2>6. Intact(v, t, n)
    <3>1. 1..n \subseteq t \cup v.gone \cup v.rec.doc /\ t \subseteq v.rec.doc
      BY <1>3, <2>2, <2>5
    <3>2. \A j \in 1..(k - 1) : t \subseteq v.calls[j].blob /\ v.calls[j].blob \subseteq v.rec.doc
      BY SMTT(30), <1>3, <2>2, <2>3, <2>5
    <3>3. ASSUME NEW h \in 1..(k - 1), NEW j \in 1..(k - 1), h < j
          PROVE  v.calls[h].blob \subseteq v.calls[j].blob
      <4>1. h + 1 \in 1..k /\ j + 1 \in 1..k /\ h + 1 < j + 1
        BY <2>3, <3>3, <1>1
      <4> QED BY <4>1, <2>2, <2>3
    <3>4. \A f \in Flusher : v.flush[f].st = "ok" => v.flush[f].had \subseteq t
      BY <1>3, <2>2, <2>5
    <3>5. \A j \in 1..(k - 1) : \A f \in v.calls[j].tell :
             v.flush[f].st = "waiting" /\ v.flush[f].had \subseteq v.calls[j].blob
      BY SMTT(30), <1>3, <2>2, <2>3
    <3>6. ASSUME NEW h \in 1..(k - 1), NEW j \in 1..(k - 1), h # j
          PROVE  v.calls[h].tell \cap v.calls[j].tell = {}
      <4>1. h + 1 \in 1..k /\ j + 1 \in 1..k /\ h + 1 # j + 1
        BY <2>3, <3>6, <1>1
      <4> QED BY <4>1, <2>2, <2>3
    <3> QED BY <3>1, <3>2, <3>3, <3>4, <3>5, <3>6, <1>3 DEF Intact
  <2>7. (\A f \in c.tell : w.flush[f].had \subseteq c.blob)
        /\ \A j \in 1..Len(v.calls) : v.calls[j].tell \cap c.tell = {}
    <3>1. \A f \in c.tell : w.flush[f].had \subseteq c.blob
      BY <2>2, <2>4
    <3>2. ASSUME NEW j \in 1..(k - 1) PROVE v.calls[j].tell \cap c.tell = {}
      <4>1. w.calls[1].tell \cap w.calls[j + 1].tell = {}
        BY <2>2, <2>3, <2>4
      <4> QED BY <4>1, <2>3, <2>4
    <3> QED BY <3>1, <3>2, <1>3
  <2>8. ASSUME Captured(w, s)
        PROVE  IF c.newest THEN w.rec.dirty \/ w.rec.doc \subseteq s \/ w.rec.doc = c.blob
               ELSE Captured(v, t)
    <3>1. CASE w.rec.dirty
      BY <3>1, <1>3 DEF Captured
    <3>2. CASE w.rec.doc \subseteq s
      BY <3>2, <1>3, <2>5 DEF Captured
    <3>3. CASE w.calls[k].newest /\ w.calls[k].blob = w.rec.doc
      <4>1. CASE c.newest
        <5>1. k = 1
          BY <4>1, <2>4 DEF WellKept, k
        <5> QED BY <4>1, <5>1, <3>3, <2>4
      <4>2. CASE ~c.newest
        <5>1. k # 1
          BY <4>2, <3>3, <2>4
        <5>2. k - 1 \in 1..(k - 1) /\ k - 1 + 1 = k
          BY <5>1, <1>1
        <5>3. v.calls[k - 1].newest /\ v.calls[k - 1].blob = w.rec.doc /\ v.calls # <<>>
          BY <5>2, <2>3, <3>3, <1>3
        <5> QED BY <4>2, <5>3, <1>3 DEF Captured
      <4> QED BY <4>1, <4>2
    <3> QED BY <3>1, <3>2, <3>3, <2>8 DEF Captured, k
  <2> QED BY <2>5, <2>6, <2>7, <2>8
<1> QED BY <1>3, <1>6, <1>7 DEF ReleasedKept, v, c

\* The properties of a world are of its record, its stores, its flushes and what is gone.
LEMMA SameDocument ==
  ASSUME NEW w \in Docs, NEW v \in Docs, NEW n, NEW s,
         v.rec = w.rec, v.calls = w.calls, v.flush = w.flush, v.gone = w.gone
  PROVE  /\ WellKept(w, n) <=> WellKept(v, n)
         /\ Single(w) <=> Single(v)
         /\ Intact(w, s, n) <=> Intact(v, s, n)
         /\ Captured(w, s) <=> Captured(v, s)
BY DEF WellKept, Single, Intact, Captured

\* A step that leaves the world w behind.
Leaves(w) ==
  /\ rec' = w.rec /\ calls' = w.calls /\ flush' = w.flush /\ gone' = w.gone
  /\ waivers' \in SUBSET {"overlap", "stolen"}
  /\ "overlap" \notin waivers' => "overlap" \notin w.waivers /\ Single(w)
  /\ "stolen" \notin waivers' => "stolen" \notin w.waivers

\* What an operation makes of the document is the document after it, with an overlap noted.
LEMMA BecomeLeaves ==
  ASSUME NEW n, NEW w, WellKept(w, n), Crd!Become(w)
  PROVE  Leaves(w)
<1> DEFINE I == {i \in DOMAIN w.calls : w.calls[i].issued}
<1>1. /\ w \in Docs /\ w.calls \in Seq(StoreCall) /\ Len(w.calls) \in Nat
      /\ DOMAIN w.calls = 1..Len(w.calls) /\ w.waivers \in SUBSET {"overlap", "stolen"}
  BY DocParts DEF WellKept
<1>2. waivers' = w.waivers \cup IF Cardinality(I) > 1 THEN {"overlap"} ELSE {}
  BY CrdtNames DEF Crd!Become
<1>3. ASSUME ~(Cardinality(I) > 1) PROVE Single(w)
  <2> SUFFICES ASSUME NEW i \in 1..Len(w.calls), w.calls[i].issued, i # 1 PROVE FALSE
    BY DEF Single
  <2>1. 1 \in I /\ i \in I
    <3>1. w.calls # <<>> /\ 1 \in 1..Len(w.calls)
      BY <1>1
    <3> QED BY <3>1, <1>1 DEF WellKept
  <2>2. IsFiniteSet(I)
    <3>1. IsFiniteSet(1..Len(w.calls))
      BY <1>1, FS_Interval
    <3>2. I \subseteq 1..Len(w.calls)
      BY <1>1
    <3> QED BY <3>1, <3>2, FS_Subset
  <2> HIDE DEF I
  <2>3. Cardinality(I) \in Nat /\ Cardinality(I) = Cardinality(I \ {1}) + 1
    <3>1. Cardinality(I) \in Nat
      BY <2>2, FS_CardinalityType
    <3>2. Cardinality(I \ {1}) = Cardinality(I) - 1
      BY <2>1, <2>2, FS_RemoveElement
    <3> QED BY <3>1, <3>2
  <2>4. IsFiniteSet(I \ {1}) /\ Cardinality(I \ {1}) \in Nat /\ Cardinality(I \ {1}) # 0
    <3>1. IsFiniteSet(I \ {1})
      BY <2>2, FS_Subset
    <3>2. I \ {1} # {}
      BY <2>1
    <3> QED BY <3>1, <3>2, FS_CardinalityType, FS_EmptySet
  <2> QED BY <1>3, <2>3, <2>4
<1> HIDE DEF I
<1>4. rec' = w.rec /\ calls' = w.calls /\ flush' = w.flush /\ gone' = w.gone
  BY DEF Crd!Become
<1> QED BY <1>1, <1>2, <1>3, <1>4 DEF Leaves

\* What the invariant asks of the world a step leaves behind.
LEMMA CrdtStep ==
  ASSUME NEW w, Leaves(w), edits' \in 0..MaxEdits, WellKept(w, edits'),
         stored' \subseteq 1..edits',
         holder' \in [Holder -> {"none", "joining", "held", "dropped"}],
         w.rec.since < SnapshotEvery, w.rec.refs <= Cardinality(Held'),
         w.rec.dirty => w.rec.timer,
         "overlap" \notin w.waivers /\ Single(w) =>
            Intact(w, stored', edits') /\ Captured(w, stored'),
         "stolen" \notin w.waivers =>
            w.rec.refs = Cardinality(Held') /\ (Held' # {} => w.rec.topic = "loaded")
  PROVE  CrdtInv'
<1> DEFINE v == Document'
<1>1. w \in Docs
  BY DEF WellKept
<1>2. v = [rec |-> w.rec, calls |-> w.calls, flush |-> w.flush, gone |-> w.gone,
           waivers |-> waivers']
  BY DEF Document, Leaves
<1>3. waivers' \in SUBSET {"overlap", "stolen"}
  BY DEF Leaves
<1> HIDE DEF v
<1>4. v \in Docs
  BY <1>1, <1>2, <1>3, DocParts DEF Docs
<1>5. v.rec = w.rec /\ v.calls = w.calls /\ v.flush = w.flush /\ v.gone = w.gone
  BY <1>2
<1>6. WellKept(v, edits')
  BY <1>1, <1>4, <1>5, SameDocument
<1>7. ASSUME "overlap" \notin waivers'
      PROVE  Single(v) /\ Intact(v, stored', edits') /\ Captured(v, stored')
  <2>1. Single(w) /\ Intact(w, stored', edits') /\ Captured(w, stored')
    BY <1>7 DEF Leaves
  <2> QED BY <2>1, <1>1, <1>4, <1>5, SameDocument
<1>8. /\ rec'.since < SnapshotEvery /\ rec'.refs <= Cardinality(Held')
      /\ rec'.dirty => rec'.timer
      /\ "stolen" \notin waivers' =>
            rec'.refs = Cardinality(Held') /\ (Held' # {} => rec'.topic = "loaded")
  BY DEF Leaves
<1>9. /\ WellKept(Document, edits)'
      /\ ("overlap" \notin waivers =>
            Single(Document) /\ Intact(Document, stored, edits) /\ Captured(Document, stored))'
  BY <1>6, <1>7 DEF v, WellKept, Single, Intact, Captured
<1> QED BY <1>8, <1>9 DEF CrdtInv

\* The state, as a world.
LEMMA CrdtFacts ==
  ASSUME CrdtInv
  PROVE  /\ Document \in Docs
         /\ Document.rec = rec /\ Document.calls = calls /\ Document.flush = flush
         /\ Document.gone = gone /\ Document.waivers = waivers
         /\ rec \in Record /\ calls \in Seq(StoreCall) /\ flush \in [Flusher -> Asked]
         /\ gone \in SUBSET Edit /\ waivers \in SUBSET {"overlap", "stolen"}
         /\ edits \in Nat /\ edits <= MaxEdits
         /\ rec.since < SnapshotEvery /\ rec.refs <= Cardinality(Held)
         /\ rec.dirty => rec.timer
         /\ stored \subseteq 1..edits /\ 1..edits \subseteq Edit
         /\ rec.topic # "loaded" => calls = <<>> /\ rec.doc = {} /\ rec.refs = 0 /\ ~rec.dirty
<1>1. Document \in Docs
  BY DEF CrdtInv, WellKept
<1>2. /\ Document.rec = rec /\ Document.calls = calls /\ Document.flush = flush
      /\ Document.gone = gone /\ Document.waivers = waivers
  BY DEF Document
<1>3. edits \in Nat /\ edits <= MaxEdits /\ stored \subseteq 1..edits /\ 1..edits \subseteq Edit
  BY CrdtConstants DEF CrdtInv, Edit
<1>4. rec.topic # "loaded" => calls = <<>> /\ rec.doc = {} /\ rec.refs = 0 /\ ~rec.dirty
  BY <1>2 DEF CrdtInv, WellKept
<1>5. rec.since < SnapshotEvery /\ rec.refs <= Cardinality(Held) /\ (rec.dirty => rec.timer)
  BY DEF CrdtInv
<1> QED
  <2>1. /\ rec \in Record /\ calls \in Seq(StoreCall) /\ flush \in [Flusher -> Asked]
        /\ gone \in SUBSET Edit /\ waivers \in SUBSET {"overlap", "stolen"}
    BY <1>1, <1>2, DocParts
  <2> QED BY <1>1, <1>2, <1>3, <1>4, <1>5, <2>1

\* What the invariant says of the stores, when no two of them overlapped.
LEMMA CrdtOrder ==
  ASSUME CrdtInv
  PROVE  /\ WellKept(Document, edits)
         /\ holder \in [Holder -> {"none", "joining", "held", "dropped"}]
         /\ "overlap" \notin waivers =>
               Single(Document) /\ Intact(Document, stored, edits) /\ Captured(Document, stored)
         /\ "stolen" \notin waivers =>
               rec.refs = Cardinality(Held) /\ (Held # {} => rec.topic = "loaded")
BY DEF CrdtInv

\* One mount changes.
LEMMA OneHolder ==
  ASSUME NEW h \in Holder, \A g \in Holder \ {h} : holder'[g] = holder[g]
  PROVE  /\ Cardinality(Held) \in Nat /\ Cardinality(Held') \in Nat
         /\ holder[h] # "held" /\ holder'[h] = "held" =>
               Cardinality(Held') = Cardinality(Held) + 1
         /\ holder[h] # "held" /\ holder'[h] # "held" => Held' = Held
         /\ holder[h] = "held" /\ holder'[h] # "held" =>
               Cardinality(Held') = Cardinality(Held) - 1 /\ Held' \subseteq Held
<1> DEFINE S == Held
           T == Held'
<1>1. /\ S \in SUBSET Holder /\ T \in SUBSET Holder
      /\ \A g \in Holder \ {h} : g \in S <=> g \in T
      /\ h \in S <=> holder[h] = "held"
      /\ h \in T <=> holder'[h] = "held"
  BY DEF Held
<1> HIDE DEF S, T
<1>2. /\ Cardinality(S) \in Nat /\ Cardinality(T) \in Nat
      /\ Cardinality(T) = Cardinality(S) + (IF h \in T THEN 1 ELSE 0)
                                         - (IF h \in S THEN 1 ELSE 0)
  BY <1>1, CrdtConstants, DifferInOne
<1>3. h \notin T => T \subseteq S /\ (h \notin S => T = S)
  BY <1>1
<1> QED BY <1>1, <1>2, <1>3 DEF S, T

\* The mounts that hold the document are finitely many.
LEMMA HeldCount ==
  IsFiniteSet(Held) /\ Cardinality(Held) \in Nat /\ (Held = {} <=> Cardinality(Held) = 0)
<1>1. IsFiniteSet(Held)
  BY CrdtConstants, FS_Subset DEF Held
<1> QED BY <1>1, FS_CardinalityType, FS_EmptySet

\* A record that differs in what it counts and when it stores.
LEMMA NewRecord ==
  ASSUME NEW n, NEW w, WellKept(w, n), NEW v \in Docs,
         v.calls = w.calls, v.flush = w.flush, v.gone = w.gone, v.rec.doc = w.rec.doc,
         v.rec.topic = "loaded" <=> w.rec.topic = "loaded",
         v.rec.topic # "loaded" => v.rec.refs = 0 /\ ~v.rec.dirty
  PROVE  /\ WellKept(v, n)
         /\ Single(w) <=> Single(v)
         /\ \A s : Intact(w, s, n) => Intact(v, s, n)
         /\ \A s : v.rec.dirty \/ (Captured(w, s) /\ ~w.rec.dirty) => Captured(v, s)
BY DEF WellKept, Single, Intact, Captured

\* A cold record is a record.
LEMMA ColdRecord ==
  Crd!Cold \in Record
<1> DEFINE r == [topic |-> "absent", doc |-> {}, refs |-> 0, dirty |-> FALSE, since |-> 0,
                 timer |-> FALSE, unloading |-> FALSE]
<1>1. r \in Record
  BY DEF Record
<1>2. Crd!Cold = r
  BY CrdtNames
<1> HIDE DEF r
<1> QED BY <1>1, <1>2

\* acquire.
LEMMA AcquireKeeps ==
  ASSUME CrdtInv, NEW h \in Holder, Crd!Acquire(h)
  PROVE  CrdtInv'
<1> DEFINE loaded == rec.topic = "loaded"
           topic == IF rec.topic = "absent" THEN "loading" ELSE rec.topic
           refs == IF loaded THEN rec.refs + 1 ELSE rec.refs
           r == [topic |-> topic, doc |-> rec.doc, refs |-> refs, dirty |-> rec.dirty,
                 since |-> rec.since, timer |-> rec.timer, unloading |-> FALSE]
           v == [rec |-> r, calls |-> calls, flush |-> flush, gone |-> gone, waivers |-> waivers]
<1>1. /\ rec \in Record /\ rec.refs \in Nat /\ rec.since \in Nat /\ rec.dirty \in BOOLEAN
      /\ rec.timer \in BOOLEAN /\ rec.doc \in SUBSET Edit
      /\ rec.topic \in {"absent", "loading", "loaded"}
      /\ rec = [topic |-> rec.topic, doc |-> rec.doc, refs |-> rec.refs, dirty |-> rec.dirty,
                since |-> rec.since, timer |-> rec.timer, unloading |-> rec.unloading]
  BY CrdtFacts, RecordParts
<1>2. rec' = r
  <2>1. rec' = [rec EXCEPT !.unloading = FALSE, !.topic = topic, !.refs = refs]
    BY DEF Crd!Acquire
  <2> HIDE DEF topic, refs
  <2> QED BY <1>1, <2>1
<1>3. /\ topic \in {"absent", "loading", "loaded"} /\ (topic = "loaded" <=> loaded)
      /\ refs \in Nat /\ (loaded => refs = rec.refs + 1) /\ (~loaded => refs = 0)
  BY <1>1, CrdtFacts
<1>0. r = [topic |-> topic, doc |-> rec.doc, refs |-> refs, dirty |-> rec.dirty,
           since |-> rec.since, timer |-> rec.timer, unloading |-> FALSE] /\ FALSE \in BOOLEAN
  OBVIOUS
<1>a. v = [rec |-> r, calls |-> calls, flush |-> flush, gone |-> gone, waivers |-> waivers]
  OBVIOUS
<1>4. /\ UNCHANGED <<calls, flush, stored, edits, gone, waivers>>
      /\ holder[h] # "held"
      /\ holder' = [holder EXCEPT ![h] = IF loaded THEN "held" ELSE "joining"]
  BY DEF Crd!Acquire
<1> HIDE DEF topic, refs, r, v
<1>5. /\ r \in Record /\ r.topic = topic /\ r.doc = rec.doc /\ r.refs = refs
      /\ r.dirty = rec.dirty /\ r.since = rec.since /\ r.timer = rec.timer
  BY <1>0, <1>1, <1>3 DEF Record
<1>6. /\ v \in Docs /\ v.rec = r /\ v.calls = calls /\ v.flush = flush /\ v.gone = gone
      /\ v.waivers = waivers
  <2>1. /\ calls \in Seq(StoreCall) /\ flush \in [Flusher -> Asked] /\ gone \in SUBSET Edit
        /\ waivers \in SUBSET {"overlap", "stolen"}
    BY CrdtFacts
  <2> QED BY <1>a, <1>5, <2>1 DEF Docs
<1>7. /\ WellKept(v, edits) /\ (Single(Document) => Single(v))
      /\ \A s : Intact(Document, s, edits) => Intact(v, s, edits)
      /\ \A s : Captured(Document, s) => Captured(v, s)
  <2>1. /\ WellKept(Document, edits) /\ v.calls = Document.calls /\ v.flush = Document.flush
        /\ v.gone = Document.gone /\ v.rec.doc = Document.rec.doc
        /\ v.rec.topic = "loaded" <=> Document.rec.topic = "loaded"
        /\ v.rec.topic # "loaded" => v.rec.refs = 0 /\ ~v.rec.dirty
    BY <1>3, <1>5, <1>6, CrdtFacts, CrdtOrder
  <2>2. \A s : Captured(Document, s) => v.rec.dirty \/ (Captured(Document, s) /\ ~Document.rec.dirty)
    BY <1>5, <1>6, CrdtFacts
  <2> QED BY <1>6, <2>1, <2>2, NewRecord
<1>8. Leaves(v)
  BY <1>2, <1>4, <1>6, <1>7, CrdtFacts, CrdtOrder DEF Leaves
<1>9. /\ holder' \in [Holder -> {"none", "joining", "held", "dropped"}]
      /\ Cardinality(Held) \in Nat /\ Cardinality(Held') \in Nat
      /\ loaded => Cardinality(Held') = Cardinality(Held) + 1
      /\ ~loaded => Cardinality(Held') = Cardinality(Held) /\ Held' \subseteq Held
  <2>1. holder \in [Holder -> {"none", "joining", "held", "dropped"}]
    BY CrdtOrder
  <2>2. /\ holder' \in [Holder -> {"none", "joining", "held", "dropped"}]
        /\ \A g \in Holder \ {h} : holder'[g] = holder[g]
        /\ holder'[h] = IF loaded THEN "held" ELSE "joining"
    BY <1>4, <2>1
  <2> QED BY <2>2, <1>4, OneHolder
<1>10. /\ refs <= Cardinality(Held')
       /\ "stolen" \notin waivers => refs = Cardinality(Held') /\ (Held' # {} => loaded)
  BY <1>1, <1>3, <1>9, CrdtFacts, CrdtOrder
<1> QED BY <1>1, <1>3, <1>4, <1>5, <1>6, <1>7, <1>8, <1>9, <1>10, CrdtFacts, CrdtOrder, CrdtStep DEF CrdtInv

\* The load of a document that was waited for.
LEMMA LoadKeeps ==
  ASSUME CrdtInv, Crd!Load
  PROVE  CrdtInv'
<1> DEFINE J == Crd!Joining
           refs == Cardinality(J)
           r == [topic |-> "loaded", doc |-> stored, refs |-> refs, dirty |-> rec.dirty,
                 since |-> rec.since, timer |-> rec.timer, unloading |-> rec.unloading]
           v == [rec |-> r, calls |-> calls, flush |-> flush, gone |-> gone, waivers |-> waivers]
<1>1. /\ rec \in Record /\ rec.since \in Nat /\ rec.dirty \in BOOLEAN /\ rec.unloading \in BOOLEAN
      /\ rec.timer \in BOOLEAN /\ rec.topic = "loading" /\ rec.doc = {} /\ calls = <<>> /\ ~rec.dirty
      /\ rec = [topic |-> rec.topic, doc |-> rec.doc, refs |-> rec.refs, dirty |-> rec.dirty,
                since |-> rec.since, timer |-> rec.timer, unloading |-> rec.unloading]
  BY CrdtFacts, RecordParts DEF Crd!Load
<1>2. /\ UNCHANGED <<calls, flush, stored, edits, gone, waivers>>
      /\ holder' = [g \in Holder |-> IF g \in J THEN "held" ELSE holder[g]]
  BY DEF Crd!Load
<1>3. rec' = r
  <2>1. rec' = [rec EXCEPT !.topic = "loaded", !.doc = stored, !.refs = refs]
    BY CrdtNames DEF Crd!Load
  <2> HIDE DEF refs
  <2> QED BY <1>1, <2>1
<1>4. /\ J \subseteq Holder /\ Held' = J \cup Held /\ J \cup Held \subseteq Holder
      /\ holder' \in [Holder -> {"none", "joining", "held", "dropped"}]
  BY <1>2, CrdtOrder DEF Held, Crd!Joining
<1> HIDE DEF J
<1>5. refs \in Nat /\ refs <= Cardinality(Held')
  <2>1. IsFiniteSet(J) /\ IsFiniteSet(Held')
    BY <1>4, CrdtConstants, FS_Subset
  <2>2. J \in SUBSET (Held')
    BY <1>4
  <2> QED BY <2>1, <2>2, FS_CardinalityType, FS_Subset
<1>6. "stolen" \notin waivers => refs = Cardinality(Held')
  <2>1. "stolen" \notin waivers => Held = {}
    BY <1>1, CrdtOrder
  <2> QED BY <1>4, <2>1
<1>a. v = [rec |-> r, calls |-> calls, flush |-> flush, gone |-> gone, waivers |-> waivers]
  OBVIOUS
<1> HIDE DEF refs, r, v
<1>7. /\ r \in Record /\ r.topic = "loaded" /\ r.doc = stored /\ r.refs = refs /\ ~r.dirty
      /\ r.since = rec.since
  <2>1. stored \in SUBSET Edit
    BY CrdtFacts
  <2> QED BY <1>1, <1>5, <2>1 DEF r, Record
<1>8. /\ v \in Docs /\ v.rec = r /\ v.calls = <<>> /\ v.flush = flush /\ v.gone = gone
      /\ v.waivers = waivers /\ Len(v.calls) = 0 /\ 1..0 = {}
  <2>1. 1..0 = {} /\ Len(calls) = 0
    BY <1>1
  <2>2. /\ calls \in Seq(StoreCall) /\ flush \in [Flusher -> Asked] /\ gone \in SUBSET Edit
        /\ waivers \in SUBSET {"overlap", "stolen"}
    BY CrdtFacts
  <2> QED BY <1>1, <1>7, <1>a, <2>1, <2>2 DEF Docs
<1>9. WellKept(v, edits) /\ Single(v)
  <2>1. stored \cup gone \subseteq 1..edits
    BY CrdtFacts, CrdtOrder DEF WellKept
  <2> QED BY <1>7, <1>8, <2>1 DEF WellKept, Single
<1>10. ASSUME "overlap" \notin waivers PROVE Intact(v, stored, edits) /\ Captured(v, stored)
  <2>1. Intact(Document, stored, edits)
    BY <1>10, CrdtOrder
  <2>2. 1..edits \subseteq stored \cup gone
        /\ \A f \in Flusher : flush[f].st = "ok" => flush[f].had \subseteq stored
    BY <1>1, <2>1, CrdtFacts DEF Intact
  <2> QED BY <1>7, <1>8, <2>2 DEF Intact, Captured
<1>11. Leaves(v)
  BY <1>1, <1>2, <1>3, <1>8, <1>9, CrdtFacts, CrdtOrder DEF Leaves
<1> QED BY <1>1, <1>2, <1>4, <1>5, <1>6, <1>7, <1>8, <1>9, <1>10, <1>11, CrdtFacts, CrdtStep DEF CrdtInv

\* A load that fails.
LEMMA LoadFailsKeeps ==
  ASSUME CrdtInv, Crd!LoadFails
  PROVE  CrdtInv'
<1> DEFINE v == [rec |-> Crd!Cold, calls |-> <<>>, flush |-> flush, gone |-> gone,
                 waivers |-> waivers]
<1>1. rec.topic = "loading" /\ rec.doc = {} /\ calls = <<>> /\ rec.refs = 0
  BY CrdtFacts DEF Crd!LoadFails
<1>2. /\ UNCHANGED <<calls, flush, stored, edits, gone, waivers>> /\ rec' = Crd!Cold
      /\ holder' = [g \in Holder |-> IF g \in Crd!Joining THEN "none" ELSE holder[g]]
  BY DEF Crd!LoadFails
<1>3. Held' = Held /\ holder' \in [Holder -> {"none", "joining", "held", "dropped"}]
  BY <1>2, CrdtOrder DEF Held, Crd!Joining
<1>4. /\ v \in Docs /\ v.rec = Crd!Cold /\ v.calls = <<>> /\ v.flush = flush /\ v.gone = gone
      /\ v.waivers = waivers
  <2>1. v = [rec |-> Crd!Cold, calls |-> <<>>, flush |-> flush, gone |-> gone,
             waivers |-> waivers]
    OBVIOUS
  <2>2. calls \in Seq(StoreCall) /\ calls = <<>>
    BY <1>1, CrdtFacts
  <2>3. flush \in [Flusher -> Asked] /\ gone \in SUBSET Edit /\ waivers \in SUBSET {"overlap", "stolen"}
    BY CrdtFacts
  <2> HIDE DEF v
  <2> QED BY <2>1, <2>2, <2>3, ColdRecord DEF Docs
<1> HIDE DEF v
<1>5. gone \subseteq 1..edits
  BY CrdtFacts, CrdtOrder DEF WellKept
<1>6. /\ WellKept(v, edits) /\ Single(v) /\ v.rec.refs = 0 /\ v.rec.since = 0
      /\ v.rec.topic = "absent" /\ ~v.rec.dirty
  BY <1>4, <1>5, CrdtFacts, ColdIsKept
<1>7. ASSUME "overlap" \notin waivers PROVE Intact(v, stored, edits) /\ Captured(v, stored)
  <2>1. Intact(Document, stored, edits)
    BY <1>7, CrdtOrder
  <2>2. 1..edits \subseteq stored \cup gone
        /\ \A f \in Flusher : flush[f].st = "ok" => flush[f].had \subseteq stored
    BY <1>1, <2>1, CrdtFacts DEF Intact
  <2> QED BY <1>4, <1>5, <2>2, CrdtFacts, ColdIsKept
<1>8. Leaves(v)
  BY <1>1, <1>2, <1>4, <1>6, CrdtFacts DEF Leaves
<1>9. /\ v.rec.refs <= Cardinality(Held')
      /\ "stolen" \notin waivers => v.rec.refs = Cardinality(Held') /\ Held' = {}
  BY <1>1, <1>3, <1>6, HeldCount, CrdtOrder
<1> QED BY <1>2, <1>3, <1>4, <1>6, <1>7, <1>8, <1>9, CrdtFacts, CrdtConstants, CrdtStep DEF CrdtInv

\* A store in flight writes no more than was edited, and no less than was stored.
LEMMA Written ==
  ASSUME CrdtInv, NEW i \in 1..Len(calls)
  PROVE  /\ calls[i].blob \subseteq 1..edits
         /\ "overlap" \notin waivers => stored \subseteq calls[i].blob
BY CrdtFacts, CrdtOrder DEF WellKept, Intact

\* drop.
LEMMA DropKeeps ==
  ASSUME CrdtInv, Crd!Drop
  PROVE  CrdtInv'
<1> DEFINE x == rec.doc \ stored
           v == Erased(Document, x)
<1>1. Crd!Become(v)
  BY CrdtNames DEF Crd!Drop, Erased
<1>2. /\ stored' \in {stored} \cup {calls[i].blob : i \in {j \in DOMAIN calls : calls[j].issued}}
      /\ edits' = edits
      /\ holder' = [h \in Holder |-> CASE holder[h] = "held" -> "dropped"
                                       [] holder[h] = "joining" -> "none"
                                       [] OTHER -> holder[h]]
  BY DEF Crd!Drop
<1>3. rec \in Record /\ rec.doc \in SUBSET Edit /\ x \in SUBSET Edit /\ DOMAIN calls = 1..Len(calls)
  BY CrdtFacts, RecordParts
<1>4. /\ v \in Docs /\ v.rec = Crd!Cold /\ v.calls = <<>> /\ v.gone = gone \cup x
      /\ v.waivers = waivers
      /\ \A f \in Flusher : /\ v.flush[f].had = flush[f].had
                            /\ v.flush[f].st = "ok" => flush[f].st = "ok"
  <2>1. v = Erased(Document, x)
    OBVIOUS
  <2> HIDE DEF x, v
  <2> QED BY <1>3, <2>1, CrdtFacts, ErasedIs
<1>5. /\ Held' = {} /\ Cardinality({}) = 0
      /\ holder' \in [Holder -> {"none", "joining", "held", "dropped"}]
  <2>1. \A h \in Holder : holder'[h] \in {"none", "joining", "dropped"}
    BY <1>2, CrdtOrder
  <2>2. holder' = [h \in Holder |-> holder'[h]]
    BY <1>2
  <2> QED BY <2>1, <2>2, FS_EmptySet DEF Held
<1>6. stored' \subseteq 1..edits /\ ("overlap" \notin waivers => stored \subseteq stored')
  BY <1>2, <1>3, Written, CrdtFacts
<1>7. v.gone \subseteq 1..edits
  BY <1>4, CrdtFacts, CrdtOrder DEF WellKept
<1> HIDE DEF v
<1>8. /\ WellKept(v, edits) /\ Single(v) /\ v.rec.refs = 0 /\ v.rec.since = 0
      /\ v.rec.topic = "absent" /\ ~v.rec.dirty
  BY <1>4, <1>7, CrdtFacts, ColdIsKept
<1>9. ASSUME "overlap" \notin waivers PROVE Intact(v, stored', edits) /\ Captured(v, stored')
  <2>1. Intact(Document, stored, edits)
    BY <1>9, CrdtOrder
  <2>2. 1..edits \subseteq stored' \cup v.gone
    BY <1>4, <1>6, <1>9, <2>1, CrdtFacts DEF Intact
  <2>3. \A f \in Flusher : v.flush[f].st = "ok" => v.flush[f].had \subseteq stored'
    BY <1>4, <1>6, <1>9, <2>1, CrdtFacts DEF Intact
  <2> QED BY <1>4, <1>7, <2>2, <2>3, CrdtFacts, ColdIsKept
<1>10. Leaves(v)
  BY <1>1, <1>8, BecomeLeaves
<1> QED
  <2>1. edits' \in 0..MaxEdits /\ WellKept(v, edits') /\ stored' \subseteq 1..edits'
    BY <1>2, <1>6, <1>8, CrdtFacts DEF CrdtInv
  <2>2. v.rec.since < SnapshotEvery /\ v.rec.refs <= Cardinality(Held')
    BY <1>5, <1>8, CrdtConstants
  <2>3. "overlap" \notin v.waivers => Intact(v, stored', edits') /\ Captured(v, stored')
    BY <1>2, <1>4, <1>9
  <2> QED BY <1>5, <1>8, <1>10, <2>1, <2>2, <2>3, CrdtStep

\* The debounce timer, or the retry timer.
LEMMA TimerKeeps ==
  ASSUME CrdtInv, Crd!TimerFires
  PROVE  CrdtInv'
<1>1. rec.timer /\ UNCHANGED <<holder, stored, edits>>
  BY DEF Crd!TimerFires
<1>2. Held' = Held
  BY <1>1 DEF Held
<1>3. /\ edits' = edits /\ stored' = stored /\ edits \in 0..MaxEdits /\ edits \in Nat
      /\ stored \subseteq 1..edits
      /\ holder' \in [Holder -> {"none", "joining", "held", "dropped"}]
  BY <1>1, CrdtFacts, CrdtOrder DEF CrdtInv
<1>4. CASE rec.dirty
  <2> DEFINE who == {}
             v == Crd!StoreNow(Document, who)
  <2>1. Crd!Become(v)
    BY <1>4, CrdtNames DEF Crd!TimerFires
  <2>2. Document.rec.topic = "loaded" /\ who \in SUBSET Flusher
    BY <1>4, CrdtFacts
  <2>0. v = Crd!StoreNow(Document, who) /\ who = {}
    OBVIOUS
  <2> HIDE DEF v, who
  <2>3. /\ WellKept(v, edits)
        /\ v.rec.refs = rec.refs /\ v.rec.since = 0 /\ v.rec.topic = "loaded" /\ ~v.rec.dirty
        /\ v.waivers = waivers
        /\ \A s : Intact(Document, s, edits) => Intact(v, s, edits) /\ Captured(v, s)
    BY <1>3, <2>0, <2>2, CrdtFacts, CrdtOrder, StoreKeeps DEF StoreKept
  <2>4. Leaves(v)
    BY <2>1, <2>3, BecomeLeaves
  <2>5. /\ v.rec.since < SnapshotEvery /\ v.rec.refs <= Cardinality(Held')
        /\ "stolen" \notin v.waivers => v.rec.refs = Cardinality(Held')
    BY <1>2, <2>3, CrdtConstants, CrdtFacts, CrdtOrder
  <2>6. "overlap" \notin v.waivers => Intact(v, stored', edits') /\ Captured(v, stored')
    BY <1>3, <2>3, CrdtOrder
  <2> QED BY <1>3, <2>3, <2>4, <2>5, <2>6, CrdtStep
<1>5. CASE ~rec.dirty
  <2> DEFINE r == [rec EXCEPT !.timer = FALSE]
             v == [rec |-> r, calls |-> calls, flush |-> flush, gone |-> gone, waivers |-> waivers]
  <2>1. Crd!Become(v)
    <3>1. Crd!Become([Document EXCEPT !.rec.timer = FALSE])
      BY <1>5, CrdtNames DEF Crd!TimerFires
    <3> DEFINE u == [Document EXCEPT !.rec.timer = FALSE]
    <3>2. u = [Document EXCEPT !.rec = [Document.rec EXCEPT !.timer = FALSE]]
      OBVIOUS
    <3>3. Document.rec = rec
      BY CrdtFacts
    <3> HIDE DEF u
    <3>4. u = v
      BY <3>2, <3>3, CrdtFacts DEF Document
    <3> QED BY <3>1, <3>4 DEF u
  <2>2. rec \in Record /\ r \in Record /\ r.topic = rec.topic /\ r.doc = rec.doc
        /\ r.refs = rec.refs /\ r.dirty = rec.dirty /\ r.since = rec.since
    <3>1. rec \in Record
      BY CrdtFacts
    <3>2. rec = [topic |-> rec.topic, doc |-> rec.doc, refs |-> rec.refs, dirty |-> rec.dirty,
                 since |-> rec.since, timer |-> rec.timer, unloading |-> rec.unloading]
      BY <3>1, RecordParts
    <3> QED BY <3>1, <3>2, RecordParts DEF Record
  <2>0. v = [rec |-> r, calls |-> calls, flush |-> flush, gone |-> gone, waivers |-> waivers]
    OBVIOUS
  <2> HIDE DEF v, r
  <2>3. /\ v \in Docs /\ v.rec = r /\ v.calls = calls /\ v.flush = flush /\ v.gone = gone
        /\ v.waivers = waivers
    <3>1. /\ calls \in Seq(StoreCall) /\ flush \in [Flusher -> Asked] /\ gone \in SUBSET Edit
          /\ waivers \in SUBSET {"overlap", "stolen"}
      BY CrdtFacts
    <3> QED BY <2>0, <2>2, <3>1 DEF Docs
  <2>4. /\ WellKept(v, edits)
        /\ \A s : Intact(Document, s, edits) => Intact(v, s, edits)
        /\ \A s : Captured(Document, s) => Captured(v, s)
    <3>1. /\ WellKept(Document, edits) /\ v.calls = Document.calls /\ v.flush = Document.flush
          /\ v.gone = Document.gone /\ v.rec.doc = Document.rec.doc
          /\ v.rec.topic = "loaded" <=> Document.rec.topic = "loaded"
          /\ v.rec.topic # "loaded" => v.rec.refs = 0 /\ ~v.rec.dirty
          /\ ~Document.rec.dirty
      BY <1>5, <2>2, <2>3, CrdtFacts, CrdtOrder
    <3> QED BY <2>3, <3>1, NewRecord
  <2>5. Leaves(v)
    BY <2>1, <2>4, BecomeLeaves
  <2>6. "overlap" \notin v.waivers => Intact(v, stored', edits') /\ Captured(v, stored')
    BY <1>3, <2>3, <2>4, CrdtOrder
  <2>7. /\ v.rec.since < SnapshotEvery /\ v.rec.refs <= Cardinality(Held') /\ ~v.rec.dirty
        /\ "stolen" \notin v.waivers =>
              v.rec.refs = Cardinality(Held') /\ (Held' # {} => v.rec.topic = "loaded")
    BY <1>2, <1>5, <2>2, <2>3, CrdtFacts, CrdtOrder
  <2> QED BY <1>3, <2>4, <2>5, <2>6, <2>7, CrdtStep
<1> QED BY <1>4, <1>5

\* The same world, with another record.
LEMMA WithRecord ==
  ASSUME NEW w \in Docs, NEW r \in Record, NEW v, v = [w EXCEPT !.rec = r]
  PROVE  /\ v \in Docs
         /\ v.rec = r /\ v.calls = w.calls /\ v.flush = w.flush /\ v.gone = w.gone
         /\ v.waivers = w.waivers
<1>1. /\ w = [rec |-> w.rec, calls |-> w.calls, flush |-> w.flush, gone |-> w.gone,
              waivers |-> w.waivers]
      /\ w.calls \in Seq(StoreCall) /\ w.flush \in [Flusher -> Asked]
      /\ w.gone \in SUBSET Edit /\ w.waivers \in SUBSET {"overlap", "stolen"}
  BY DocParts
<1>2. v = [rec |-> r, calls |-> w.calls, flush |-> w.flush, gone |-> w.gone,
           waivers |-> w.waivers]
  BY <1>1
<1> QED BY <1>1, <1>2 DEF Docs

\* A document with one edit more.
LEMMA Edited ==
  ASSUME NEW n \in Nat, NEW w, WellKept(w, n), w.rec.topic = "loaded", NEW v \in Docs,
         v.calls = w.calls, v.flush = w.flush, v.gone = w.gone,
         v.rec.doc = w.rec.doc \cup {n + 1}, v.rec.topic = "loaded"
  PROVE  /\ WellKept(v, n + 1)
         /\ \A s : Intact(w, s, n) => Intact(v, s, n + 1)
<1>1. 1..(n + 1) = 1..n \cup {n + 1}
  OBVIOUS
<1>2. WellKept(v, n + 1)
  BY <1>1 DEF WellKept
<1>3. ASSUME NEW s, Intact(w, s, n) PROVE Intact(v, s, n + 1)
  BY <1>1, <1>3 DEF Intact
<1> QED BY <1>2, <1>3

\* applyUpdate.
LEMMA UpdateKeeps ==
  ASSUME CrdtInv, Crd!ApplyUpdate
  PROVE  CrdtInv'
<1> DEFINE n == edits + 1
           doc == rec.doc \cup {n}
           since == rec.since + 1
           r == [rec EXCEPT !.doc = doc, !.dirty = TRUE, !.since = since]
           w == [Document EXCEPT !.rec.doc = @ \cup {edits + 1}, !.rec.dirty = TRUE,
                                 !.rec.since = @ + 1]
<1>1. rec.topic = "loaded" /\ edits < MaxEdits /\ edits' = n /\ UNCHANGED <<holder, stored>>
  BY DEF Crd!ApplyUpdate
<1>2. Crd!Become(IF w.rec.since >= SnapshotEvery THEN Crd!StoreNow(w, {})
                 ELSE [w EXCEPT !.rec.timer = TRUE])
  BY CrdtNames DEF Crd!ApplyUpdate
<1>3. /\ n \in 0..MaxEdits /\ n \in Nat /\ edits \in Nat /\ stored \subseteq 1..edits
      /\ stored \subseteq 1..n /\ n \in Edit /\ stored' = stored /\ Held' = Held
      /\ holder' \in [Holder -> {"none", "joining", "held", "dropped"}]
  BY <1>1, CrdtFacts, CrdtOrder, CrdtConstants DEF Held, Edit
<1>4. /\ rec \in Record /\ rec.doc \in SUBSET Edit /\ rec.since \in Nat
      /\ rec = [topic |-> rec.topic, doc |-> rec.doc, refs |-> rec.refs, dirty |-> rec.dirty,
                since |-> rec.since, timer |-> rec.timer, unloading |-> rec.unloading]
      /\ rec.topic \in {"absent", "loading", "loaded"}
      /\ rec.refs \in Nat /\ rec.timer \in BOOLEAN /\ rec.unloading \in BOOLEAN
  BY CrdtFacts, RecordParts
<1>5. w = [Document EXCEPT !.rec = r]
  <2>1. Document.rec = rec
    BY CrdtFacts
  <2> QED BY <1>4, <2>1 DEF Document
<1>6. /\ r \in Record /\ r.topic = "loaded" /\ r.doc = doc /\ r.refs = rec.refs /\ r.dirty
      /\ r.since = since
  <2>1. doc \in SUBSET Edit /\ since \in Nat
    BY <1>3, <1>4
  <2> HIDE DEF doc, since, w
  <2>2. r = [topic |-> rec.topic, doc |-> doc, refs |-> rec.refs, dirty |-> TRUE,
             since |-> since, timer |-> rec.timer, unloading |-> rec.unloading]
    <3>1. r = [rec EXCEPT !.doc = doc, !.dirty = TRUE, !.since = since]
      OBVIOUS
    <3> HIDE DEF r
    <3> QED BY <1>4, <3>1
  <2> HIDE DEF r
  <2> QED BY <1>1, <1>4, <2>1, <2>2 DEF Record
<1> HIDE DEF w, r
<1>7. /\ w \in Docs /\ w.rec = r /\ w.calls = calls /\ w.flush = flush /\ w.gone = gone
      /\ w.waivers = waivers
  BY <1>5, <1>6, CrdtFacts, WithRecord
<1>8. CASE w.rec.since >= SnapshotEvery
  <2> DEFINE who == {}
             v == Crd!StoreNow(w, who)
  <2>1. Crd!Become(v)
    BY <1>2, <1>8
  <2>2. v = Crd!StoreNow(w, who) /\ who = {} /\ who \in SUBSET Flusher
    OBVIOUS
  <2> HIDE DEF v, who
  <2>3. /\ WellKept(w, n)
        /\ \A s : Intact(Document, s, edits) => Intact(w, s, n)
    BY <1>1, <1>3, <1>6, <1>7, CrdtFacts, CrdtOrder, Edited
  <2>4. /\ WellKept(v, n)
        /\ v.rec.refs = rec.refs /\ v.rec.since = 0 /\ v.rec.topic = "loaded" /\ ~v.rec.dirty
        /\ v.waivers = waivers
        /\ \A s : Intact(w, s, n) => Intact(v, s, n) /\ Captured(v, s)
    BY <1>3, <1>6, <1>7, <2>2, <2>3, StoreKeeps DEF StoreKept
  <2>5. Leaves(v)
    BY <2>1, <2>4, BecomeLeaves
  <2>6. "overlap" \notin v.waivers => Intact(v, stored', n) /\ Captured(v, stored')
    BY <1>3, <2>3, <2>4, CrdtOrder
  <2>7. /\ v.rec.since < SnapshotEvery /\ v.rec.refs <= Cardinality(Held')
        /\ "stolen" \notin v.waivers => v.rec.refs = Cardinality(Held')
    BY <1>3, <2>4, CrdtConstants, CrdtFacts, CrdtOrder
  <2> QED BY <1>1, <1>3, <2>4, <2>5, <2>6, <2>7, CrdtStep
<1>9. CASE ~(w.rec.since >= SnapshotEvery)
  <2> DEFINE q == [r EXCEPT !.timer = TRUE]
             v == [w EXCEPT !.rec.timer = TRUE]
  <2>1. Crd!Become(v)
    BY <1>2, <1>9
  <2>2. v = [w EXCEPT !.rec = q]
    BY <1>7
  <2>3. /\ q \in Record /\ q.topic = "loaded" /\ q.doc = doc /\ q.refs = rec.refs /\ q.dirty
        /\ q.since = since /\ q.timer
    <3>1. r = [topic |-> r.topic, doc |-> r.doc, refs |-> r.refs, dirty |-> r.dirty,
               since |-> r.since, timer |-> r.timer, unloading |-> r.unloading]
          /\ r.unloading \in BOOLEAN
      BY <1>6, RecordParts
    <3> QED BY <1>3, <1>4, <1>6, <3>1 DEF Record
  <2> HIDE DEF v, q
  <2>4. /\ v \in Docs /\ v.rec = q /\ v.calls = calls /\ v.flush = flush /\ v.gone = gone
        /\ v.waivers = waivers
    BY <1>7, <2>2, <2>3, WithRecord
  <2>5. /\ WellKept(v, n)
        /\ \A s : Intact(Document, s, edits) => Intact(v, s, n)
    BY <1>1, <1>3, <2>3, <2>4, CrdtFacts, CrdtOrder, Edited
  <2>6. Leaves(v)
    BY <2>1, <2>5, BecomeLeaves
  <2>7. "overlap" \notin v.waivers => Intact(v, stored', n) /\ Captured(v, stored')
    BY <1>3, <2>3, <2>4, <2>5, CrdtOrder DEF Captured
  <2>8. /\ v.rec.since < SnapshotEvery /\ v.rec.refs <= Cardinality(Held')
        /\ v.rec.dirty /\ v.rec.timer /\ v.rec.topic = "loaded"
        /\ "stolen" \notin v.waivers => v.rec.refs = Cardinality(Held')
    BY <1>3, <1>4, <1>6, <1>7, <1>9, <2>3, <2>4, CrdtConstants, CrdtFacts, CrdtOrder
  <2> QED BY <1>1, <1>3, <2>5, <2>6, <2>7, <2>8, CrdtStep
<1> QED BY <1>8, <1>9

\* The world a release starts from: one mount less is counted.
ReleaseMakes(h, w) ==
  w = [Document EXCEPT !.rec.refs = IF @ > 0 THEN @ - 1 ELSE @,
                       !.rec.unloading = rec.refs <= 1,
                       !.waivers = IF holder[h] = "dropped" THEN @ \cup {"stolen"} ELSE @]

\* The document as release finds it, with one mount less.
LEMMA ReleaseStarts ==
  ASSUME CrdtInv, NEW h \in Holder, Crd!Release(h), rec.topic = "loaded",
         NEW w, ReleaseMakes(h, w)
  PROVE  /\ w \in Docs /\ WellKept(w, edits)
         /\ w.rec.topic = "loaded" /\ w.rec.doc = rec.doc /\ w.rec.dirty = rec.dirty
         /\ w.rec.timer = rec.timer /\ w.rec.since = rec.since
         /\ w.calls = calls /\ w.flush = flush /\ w.gone = gone
         /\ "overlap" \notin w.waivers => "overlap" \notin waivers
         /\ Single(Document) <=> Single(w)
         /\ \A s : Intact(Document, s, edits) => Intact(w, s, edits)
         /\ \A s : Captured(Document, s) => Captured(w, s)
         /\ holder' \in [Holder -> {"none", "joining", "held", "dropped"}]
         /\ w.rec.refs \in Nat /\ w.rec.refs <= Cardinality(Held')
         /\ "stolen" \notin w.waivers => w.rec.refs = Cardinality(Held')
<1> DEFINE refs == IF rec.refs > 0 THEN rec.refs - 1 ELSE rec.refs
           unloading == rec.refs <= 1
           x == IF holder[h] = "dropped" THEN waivers \cup {"stolen"} ELSE waivers
           r == [rec EXCEPT !.refs = refs, !.unloading = unloading]
<1>1. /\ rec \in Record /\ rec.doc \in SUBSET Edit /\ rec.since \in Nat
      /\ rec = [topic |-> rec.topic, doc |-> rec.doc, refs |-> rec.refs, dirty |-> rec.dirty,
                since |-> rec.since, timer |-> rec.timer, unloading |-> rec.unloading]
      /\ rec.refs \in Nat /\ rec.dirty \in BOOLEAN /\ rec.timer \in BOOLEAN
  BY CrdtFacts, RecordParts
<1>2. w = [Document EXCEPT !.rec = r, !.waivers = x]
  <2>1. Document.rec = rec /\ Document.waivers = waivers
    BY CrdtFacts
  <2> QED BY <1>1, <2>1 DEF Document, ReleaseMakes
<1>3. refs \in Nat /\ unloading \in BOOLEAN /\ x \in SUBSET {"overlap", "stolen"}
  BY <1>1, CrdtFacts
<1>4. r = [topic |-> rec.topic, doc |-> rec.doc, refs |-> refs, dirty |-> rec.dirty,
           since |-> rec.since, timer |-> rec.timer, unloading |-> unloading]
  <2>1. r = [rec EXCEPT !.refs = refs, !.unloading = unloading]
    OBVIOUS
  <2> HIDE DEF r, refs, unloading
  <2> QED BY <1>1, <2>1
<1>5. /\ holder \in [Holder -> {"none", "joining", "held", "dropped"}]
      /\ holder[h] \in {"held", "dropped"} /\ holder' = [holder EXCEPT ![h] = "none"]
  BY CrdtOrder DEF Crd!Release
<1>6. /\ holder' \in [Holder -> {"none", "joining", "held", "dropped"}]
      /\ holder'[h] = "none" /\ \A g \in Holder \ {h} : holder'[g] = holder[g]
  BY <1>5
<1>7. /\ refs <= Cardinality(Held')
      /\ "stolen" \notin x => refs = Cardinality(Held')
  <2>1. CASE holder[h] = "held"
    <3>1. Cardinality(Held') = Cardinality(Held) - 1 /\ Cardinality(Held) \in Nat
          /\ Cardinality(Held') \in Nat
      BY <2>1, <1>6, OneHolder
    <3>2. rec.refs <= Cardinality(Held)
          /\ ("stolen" \notin waivers => rec.refs = Cardinality(Held))
      BY CrdtFacts, CrdtOrder
    <3>3. x = waivers
      BY <2>1
    <3> QED BY <1>1, <3>1, <3>2, <3>3
  <2>2. CASE holder[h] = "dropped"
    <3>1. Held' = Held /\ Cardinality(Held) \in Nat
      BY <2>2, <1>6, OneHolder
    <3>2. rec.refs <= Cardinality(Held)
      BY CrdtFacts
    <3>3. "stolen" \in x
      BY <2>2
    <3> QED BY <1>1, <3>1, <3>2, <3>3
  <2> QED BY <1>5, <2>1, <2>2
<1>8. "overlap" \notin x => "overlap" \notin waivers
  OBVIOUS
<1> HIDE DEF refs, unloading, x, r
<1>9. /\ r \in Record /\ r.topic = "loaded" /\ r.doc = rec.doc /\ r.refs = refs
      /\ r.dirty = rec.dirty /\ r.since = rec.since /\ r.timer = rec.timer
  BY <1>1, <1>3, <1>4 DEF Record
<1>10. w = [rec |-> r, calls |-> calls, flush |-> flush, gone |-> gone, waivers |-> x]
  BY <1>2 DEF Document
<1>11. /\ w \in Docs /\ w.rec = r /\ w.calls = calls /\ w.flush = flush /\ w.gone = gone
       /\ w.waivers = x
  <2>1. calls \in Seq(StoreCall) /\ flush \in [Flusher -> Asked] /\ gone \in SUBSET Edit
    BY CrdtFacts
  <2> QED BY <1>3, <1>9, <1>10, <2>1 DEF Docs
<1>12. /\ WellKept(w, edits)
       /\ Single(Document) <=> Single(w)
       /\ \A s : Intact(Document, s, edits) => Intact(w, s, edits)
       /\ \A s : w.rec.dirty \/ (Captured(Document, s) /\ ~Document.rec.dirty) => Captured(w, s)
  <2>1. /\ WellKept(Document, edits) /\ w.calls = Document.calls /\ w.flush = Document.flush
        /\ w.gone = Document.gone /\ w.rec.doc = Document.rec.doc
        /\ w.rec.topic = "loaded" <=> Document.rec.topic = "loaded"
        /\ w.rec.topic # "loaded" => w.rec.refs = 0 /\ ~w.rec.dirty
    BY <1>9, <1>11, CrdtFacts, CrdtOrder
  <2> QED BY <1>11, <2>1, NewRecord
<1>13. \A s : Captured(Document, s) => Captured(w, s)
  BY <1>9, <1>11, <1>12, CrdtFacts
<1> QED BY <1>3, <1>6, <1>7, <1>8, <1>9, <1>11, <1>12, <1>13

\* release.
LEMMA ReleaseKeeps ==
  ASSUME CrdtInv, NEW h \in Holder, Crd!Release(h)
  PROVE  CrdtInv'
<1>1. stored' = stored /\ edits' = edits /\ edits \in Nat /\ edits \in 0..MaxEdits
      /\ stored \subseteq 1..edits
  BY CrdtFacts DEF Crd!Release, CrdtInv
<1>2. CASE rec.topic # "loaded"
  <2>1. UNCHANGED <<rec, calls, flush, gone, waivers>>
    BY <1>2 DEF Crd!Release
  <2>2. /\ holder' \in [Holder -> {"none", "joining", "held", "dropped"}]
        /\ holder'[h] = "none" /\ \A g \in Holder \ {h} : holder'[g] = holder[g]
    BY CrdtOrder DEF Crd!Release
  <2>3. Held' \subseteq Held /\ Cardinality(Held') \in Nat /\ (Held' = {} <=> Cardinality(Held') = 0)
    <3>1. Held' \subseteq Held
      BY <2>2 DEF Held
    <3>2. IsFiniteSet(Held')
      BY <3>1, HeldCount, FS_Subset
    <3> QED BY <3>1, <3>2, FS_CardinalityType, FS_EmptySet
  <2>4. Leaves(Document)
    BY <2>1, CrdtFacts, CrdtOrder DEF Leaves
  <2>5. rec.refs = 0 /\ rec.refs <= Cardinality(Held')
        /\ ("stolen" \notin waivers => rec.refs = Cardinality(Held') /\ Held' = {})
    <3>1. rec.refs = 0 /\ ("stolen" \notin waivers => Held = {})
      BY <1>2, CrdtFacts, CrdtOrder
    <3> QED BY <2>3, <3>1
  <2>6. "overlap" \notin Document.waivers =>
          Intact(Document, stored', edits') /\ Captured(Document, stored')
    BY <1>1, CrdtFacts, CrdtOrder
  <2>7. WellKept(Document, edits') /\ stored' \subseteq 1..edits' /\ edits' \in 0..MaxEdits
    BY <1>1, CrdtOrder
  <2> QED BY <2>2, <2>4, <2>5, <2>6, <2>7, CrdtFacts, CrdtStep
<1>3. CASE rec.topic = "loaded"
  <2> DEFINE w == [Document EXCEPT !.rec.refs = IF @ > 0 THEN @ - 1 ELSE @,
                                   !.rec.unloading = rec.refs <= 1,
                                   !.waivers = IF holder[h] = "dropped" THEN @ \cup {"stolen"}
                                               ELSE @]
  <2>1. Crd!Become(IF w.rec.refs > 0 THEN w
                   ELSE IF rec.dirty THEN Crd!StoreNow(w, {})
                   ELSE IF Crd!Newest(w) = {} THEN Crd!Unload(w) ELSE w)
    BY <1>3, CrdtNames DEF Crd!Release
  <2>2. ReleaseMakes(h, w)
    BY DEF ReleaseMakes
  <2> HIDE DEF w
  <2>3. /\ w \in Docs /\ WellKept(w, edits)
        /\ w.rec.topic = "loaded" /\ w.rec.doc = rec.doc /\ w.rec.dirty = rec.dirty
        /\ w.rec.timer = rec.timer /\ w.rec.since = rec.since
        /\ w.calls = calls /\ w.flush = flush /\ w.gone = gone
        /\ "overlap" \notin w.waivers => "overlap" \notin waivers
        /\ Single(Document) <=> Single(w)
        /\ \A s : Intact(Document, s, edits) => Intact(w, s, edits)
        /\ \A s : Captured(Document, s) => Captured(w, s)
        /\ holder' \in [Holder -> {"none", "joining", "held", "dropped"}]
        /\ w.rec.refs \in Nat /\ w.rec.refs <= Cardinality(Held')
        /\ "stolen" \notin w.waivers => w.rec.refs = Cardinality(Held')
    BY <1>3, <2>2, ReleaseStarts
  <2>4. "overlap" \notin w.waivers => Intact(w, stored, edits) /\ Captured(w, stored)
    BY <2>3, CrdtOrder
  <2>5. CASE Crd!Become(w)
    <3>1. Leaves(w)
      BY <2>3, <2>5, BecomeLeaves
    <3>2. w.rec.since < SnapshotEvery /\ (w.rec.dirty => w.rec.timer)
      BY <2>3, CrdtFacts
    <3> QED BY <1>1, <2>3, <2>4, <3>1, <3>2, CrdtStep
  <2>6. CASE Crd!Become(Crd!StoreNow(w, {}))
    <3> DEFINE who == {}
               v == Crd!StoreNow(w, who)
    <3>1. v = Crd!StoreNow(w, who) /\ who = {} /\ who \in SUBSET Flusher /\ Crd!Become(v)
      BY <2>6
    <3> HIDE DEF v, who
    <3>2. /\ WellKept(v, edits)
          /\ v.rec.refs = w.rec.refs /\ v.rec.since = 0 /\ v.rec.topic = "loaded"
          /\ ~v.rec.dirty /\ v.waivers = w.waivers
          /\ \A s : Intact(w, s, edits) => Intact(v, s, edits) /\ Captured(v, s)
      BY <1>1, <2>3, <3>1, StoreKeeps DEF StoreKept
    <3>3. Leaves(v)
      BY <3>1, <3>2, BecomeLeaves
    <3>4. "overlap" \notin v.waivers => Intact(v, stored', edits') /\ Captured(v, stored')
      BY <1>1, <2>4, <3>2
    <3>5. v.rec.since < SnapshotEvery
      BY <3>2, CrdtConstants
    <3> QED BY <1>1, <2>3, <3>2, <3>3, <3>4, <3>5, CrdtStep
  <2>7. CASE /\ Crd!Become(Crd!Unload(w)) /\ ~(w.rec.refs > 0) /\ ~rec.dirty
             /\ Crd!Newest(w) = {}
    <3> DEFINE v == Crd!Unload(w)
    <3>1. UnloadMakes(w, v) /\ Crd!Become(v)
      BY <2>3, <2>7, UnloadIs
    <3> HIDE DEF v
    <3>2. /\ v \in Docs /\ v.rec = Crd!Cold /\ v.calls = <<>> /\ v.gone = gone
          /\ v.waivers = w.waivers /\ gone \subseteq 1..edits
          /\ \A f \in Flusher : /\ v.flush[f].had = flush[f].had
                                /\ v.flush[f].st = "ok" => flush[f].st = "ok"
      BY <2>3, <3>1 DEF UnloadMakes, WellKept
    <3>3. /\ WellKept(v, edits) /\ Single(v) /\ v.rec.refs = 0 /\ v.rec.since = 0
          /\ v.rec.topic = "absent" /\ ~v.rec.dirty
      BY <1>1, <3>2, ColdIsKept
    <3>4. ASSUME "overlap" \notin v.waivers PROVE Intact(v, stored, edits) /\ Captured(v, stored)
      <4>1. Intact(w, stored, edits) /\ Captured(w, stored)
        BY <2>4, <3>2, <3>4
      <4>2. w.rec.doc \subseteq stored
        <5>1. ASSUME w.calls # <<>> PROVE ~w.calls[Len(w.calls)].newest
          <6>1. w.calls \in Seq(StoreCall)
            BY <2>3, DocParts
          <6>2. Len(w.calls) \in DOMAIN w.calls
            BY <5>1, <6>1
          <6> QED BY <2>7, <6>2 DEF Crd!Newest
        <5> QED BY <2>3, <2>7, <4>1, <5>1 DEF Captured
      <4>3. 1..edits \subseteq stored \cup v.gone
        BY <2>3, <3>2, <4>1, <4>2 DEF Intact
      <4>4. \A f \in Flusher : v.flush[f].st = "ok" => v.flush[f].had \subseteq stored
        BY <2>3, <3>2, <4>1 DEF Intact
      <4> QED BY <1>1, <3>2, <4>3, <4>4, ColdIsKept
    <3>5. Leaves(v)
      BY <3>1, <3>3, BecomeLeaves
    <3>6. /\ v.rec.since < SnapshotEvery /\ v.rec.refs <= Cardinality(Held')
          /\ "stolen" \notin v.waivers => v.rec.refs = Cardinality(Held') /\ Held' = {}
      <4>1. w.rec.refs = 0
        BY <2>3, <2>7
      <4>2. Cardinality(Held') = 0 => Held' = {}
        <5>1. IsFiniteSet(Held')
          BY CrdtConstants, FS_Subset DEF Held
        <5> QED BY <5>1, FS_EmptySet
      <4> QED BY <2>3, <3>2, <3>3, <4>1, <4>2, CrdtConstants
    <3> QED BY <1>1, <2>3, <3>3, <3>4, <3>5, <3>6, CrdtStep
  <2> QED BY <2>1, <2>5, <2>6, <2>7
<1> QED BY <1>2, <1>3

\* How every settlement ends: the flushes that waited for store i are told.
LEMMA SettleEnds ==
  ASSUME CrdtInv, NEW i \in 1..Len(calls), NEW outcome, NEW a, WellKept(a, edits),
         Crd!Become(Crd!Report(a, calls[i].tell, outcome)), UNCHANGED <<holder, edits>>,
         stored' \in {stored, calls[i].blob}, outcome = "durable" => stored' = calls[i].blob,
         a.waivers = waivers, a.rec.since < SnapshotEvery, a.rec.refs = rec.refs,
         a.rec.dirty => a.rec.timer, a.rec.topic # "loaded" => rec.refs = 0,
         "overlap" \notin waivers =>
            /\ Intact(a, stored', edits) /\ Captured(a, stored')
            /\ \A j \in 1..Len(a.calls) : a.calls[j].tell \cap calls[i].tell = {}
            /\ \A f \in calls[i].tell : a.flush[f].had \subseteq calls[i].blob
  PROVE  CrdtInv'
<1> DEFINE who == calls[i].tell
           v == Crd!Report(a, who, outcome)
<1>1. /\ edits \in Nat /\ edits' = edits /\ edits' \in 0..MaxEdits /\ Held' = Held
      /\ holder' \in [Holder -> {"none", "joining", "held", "dropped"}]
      /\ stored' \subseteq 1..edits
  BY Written, CrdtFacts, CrdtOrder DEF Held, CrdtInv
<1>2. who \in SUBSET Flusher
  <2>1. calls[i] \in StoreCall
    BY CrdtFacts
  <2> QED BY <2>1, StoreCallParts
<1>3. /\ WellKept(v, edits) /\ v.rec = a.rec /\ v.waivers = a.waivers
      /\ \A s : Captured(a, s) => Captured(v, s)
      /\ \A s : Intact(a, s, edits)
           /\ (\A j \in 1..Len(a.calls) : a.calls[j].tell \cap who = {})
           /\ (outcome = "durable" /\ ~(a.rec.topic # "absent" /\ a.rec.dirty)
                 => \A f \in who : a.flush[f].had \subseteq s)
           => Intact(v, s, edits)
  <2> HIDE DEF who
  <2>1. ReportKept(a, who, outcome, edits, v)
    BY <1>1, <1>2, ReportKeeps
  <2> HIDE DEF v
  <2> QED BY <2>1 DEF ReportKept
<1>4. Crd!Become(v)
  OBVIOUS
<1> HIDE DEF v
<1>5. Leaves(v)
  BY <1>3, <1>4, BecomeLeaves
<1>6. "overlap" \notin v.waivers => Intact(v, stored', edits') /\ Captured(v, stored')
  BY <1>1, <1>3
<1>7. "stolen" \notin v.waivers =>
         v.rec.refs = Cardinality(Held') /\ (Held' # {} => v.rec.topic = "loaded")
  BY <1>1, <1>3, HeldCount, CrdtOrder
<1>8. v.rec.refs <= Cardinality(Held')
  BY <1>1, <1>3, CrdtFacts
<1> QED BY <1>1, <1>3, <1>5, <1>6, <1>7, <1>8, CrdtStep

\* An attempt that did not confirm leaves the document dirty, with a timer.
LEMMA UnstoredKeeps ==
  ASSUME NEW n, NEW w, WellKept(w, n), w.rec.topic = "loaded", NEW v, v = Crd!Unstored(w)
  PROVE  /\ WellKept(v, n) /\ v.rec.dirty /\ v.rec.timer /\ v.rec.topic = "loaded"
         /\ v.rec.refs = w.rec.refs /\ v.rec.since = w.rec.since
         /\ v.calls = w.calls /\ v.flush = w.flush /\ v.gone = w.gone /\ v.waivers = w.waivers
         /\ \A s : Intact(w, s, n) => Intact(v, s, n) /\ Captured(v, s)
<1> DEFINE q == w.rec
           r == [q EXCEPT !.dirty = TRUE, !.timer = TRUE]
<1>1. w \in Docs /\ q \in Record
  BY DocParts DEF WellKept
<1>2. /\ q = [topic |-> q.topic, doc |-> q.doc, refs |-> q.refs, dirty |-> q.dirty,
              since |-> q.since, timer |-> q.timer, unloading |-> q.unloading]
      /\ q.refs \in Nat /\ q.since \in Nat /\ q.doc \in SUBSET Edit /\ q.unloading \in BOOLEAN
      /\ q.topic \in {"absent", "loading", "loaded"}
  BY <1>1, RecordParts
<1>3. w = [rec |-> q, calls |-> w.calls, flush |-> w.flush, gone |-> w.gone,
           waivers |-> w.waivers]
  BY <1>1, DocParts
<1>4. v = [w EXCEPT !.rec = r]
  BY <1>2, <1>3 DEF Crd!Unstored
<1>5. r = [topic |-> q.topic, doc |-> q.doc, refs |-> q.refs, dirty |-> TRUE,
           since |-> q.since, timer |-> TRUE, unloading |-> q.unloading]
  <2>1. r = [q EXCEPT !.dirty = TRUE, !.timer = TRUE]
    OBVIOUS
  <2> HIDE DEF r, q
  <2> QED BY <1>2, <2>1
<1> HIDE DEF r
<1>6. /\ r \in Record /\ r.topic = q.topic /\ r.doc = q.doc /\ r.refs = q.refs
      /\ r.dirty /\ r.timer /\ r.since = q.since
  BY <1>2, <1>5 DEF Record
<1>7. /\ v \in Docs /\ v.rec = r /\ v.calls = w.calls /\ v.flush = w.flush /\ v.gone = w.gone
      /\ v.waivers = w.waivers
  BY <1>1, <1>4, <1>6, WithRecord
<1>8. WellKept(v, n) /\ \A s : Intact(w, s, n) => Intact(v, s, n)
  BY <1>6, <1>7, NewRecord
<1>9. \A s : Captured(v, s)
  BY <1>6, <1>7 DEF Captured
<1> QED BY <1>6, <1>7, <1>8, <1>9

\* The host's answer to a store, whatever it is.
LEMMA SettleKeeps ==
  ASSUME CrdtInv, NEW i \in DOMAIN calls, NEW outcome \in {"durable", "declined", "failed"},
         Crd!Settle(i, outcome)
  PROVE  CrdtInv'
<1> DEFINE c == calls[i]
           w == Crd!Released(Document, i)
           empty == rec.unloading /\ rec.refs = 0
           x == rec.doc \ stored
           store == Crd!StoreNow(w, {})
           erased == Erased(w, x)
           Told(a) == Crd!Become(Crd!Report(a, c.tell, outcome))
<1>1. /\ i \in 1..Len(Document.calls) /\ i \in 1..Len(calls) /\ rec \in Record
      /\ rec.doc \in SUBSET Edit /\ edits \in Nat /\ x \in SUBSET Edit
  BY CrdtFacts, RecordParts
<1>2. /\ c.issued /\ UNCHANGED <<holder, edits>>
      /\ stored' \in {stored, c.blob}
      /\ outcome = "durable" => stored' = c.blob
      /\ outcome = "declined" => stored' = stored
  BY DEF Crd!Settle
<1>3. \/ Told(w) /\ ~c.newest
      \/ Told(w) /\ c.newest /\ outcome = "durable" /\ ~empty
      \/ Told(store) /\ c.newest /\ outcome = "durable" /\ empty /\ rec.dirty
      \/ Told(Crd!Unload(w)) /\ c.newest /\ outcome = "durable" /\ empty /\ ~rec.dirty
      \/ Told(erased) /\ c.newest /\ outcome = "declined" /\ empty
      \/ Told(Crd!Unstored(w)) /\ c.newest /\ outcome # "durable"
  <2> HIDE DEF store, erased, w, empty, c, x
  <2>1. Crd!Become(Crd!Report(
          IF ~c.newest THEN w
          ELSE CASE outcome = "durable" ->
                      IF ~empty THEN w ELSE IF rec.dirty THEN store ELSE Crd!Unload(w)
                 [] outcome = "declined" -> IF empty THEN erased ELSE Crd!Unstored(w)
                 [] outcome = "failed" -> Crd!Unstored(w),
          c.tell, outcome))
    BY CrdtNames DEF Crd!Settle, Crd!Owns, store, erased, w, empty, c, x, Erased
  <2> QED BY <2>1
<1>4. /\ WellKept(w, edits)
      /\ w.rec = rec /\ w.waivers = waivers /\ w.gone = gone /\ w.flush = flush
      /\ "overlap" \notin waivers =>
            /\ Intact(w, stored', edits)
            /\ \A f \in c.tell : flush[f].had \subseteq c.blob
            /\ \A j \in 1..Len(w.calls) : w.calls[j].tell \cap c.tell = {}
            /\ stored \subseteq stored'
            /\ IF c.newest THEN rec.dirty \/ rec.doc \subseteq stored \/ rec.doc = c.blob
               ELSE Captured(w, stored')
  <2>1. /\ WellKept(w, edits)
        /\ w.rec = rec /\ w.waivers = waivers /\ w.gone = gone /\ w.flush = flush
        /\ \A s, t : Intact(Document, s, edits) /\ Single(Document) /\ c.issued /\ t \in {s, c.blob} =>
              /\ Intact(w, t, edits)
              /\ \A f \in c.tell : flush[f].had \subseteq c.blob
              /\ \A j \in 1..Len(w.calls) : w.calls[j].tell \cap c.tell = {}
              /\ s \subseteq t
              /\ Captured(Document, s) =>
                    IF c.newest THEN rec.dirty \/ rec.doc \subseteq s \/ rec.doc = c.blob
                    ELSE Captured(w, t)
    <3>1. Document.calls[i] = c /\ Document.rec = rec /\ Document.flush = flush
          /\ Document.gone = gone /\ Document.waivers = waivers /\ WellKept(Document, edits)
      BY CrdtFacts, CrdtOrder
    <3> HIDE DEF c
    <3>2. ReleasedKept(Document, i, edits, w)
      BY <1>1, <3>1, ReleasedKeeps
    <3> HIDE DEF w
    <3> QED BY <3>1, <3>2 DEF ReleasedKept
  <2> HIDE DEF w, c
  <2> QED BY <1>2, <2>1, CrdtOrder
<1>5. /\ rec.topic = "loaded" /\ w.rec.topic = "loaded" /\ w.rec.since < SnapshotEvery
      /\ w.rec.refs = rec.refs /\ (w.rec.dirty => w.rec.timer)
      /\ outcome = "durable" /\ c.newest /\ "overlap" \notin waivers =>
            rec.dirty \/ rec.doc \subseteq stored'
  <2>1. calls # <<>>
    BY <1>1, CrdtFacts
  <2> HIDE DEF w, c
  <2> QED BY <1>2, <1>4, <2>1, CrdtFacts
<1> HIDE DEF w, c, empty, x
<1>6. CASE Told(w) /\ (c.newest => outcome = "durable")
  <2>1. "overlap" \notin waivers => Captured(w, stored')
    BY <1>4, <1>5, <1>6 DEF Captured
  <2> QED BY <1>1, <1>2, <1>4, <1>5, <1>6, <2>1, SettleEnds DEF c
<1>7. CASE Told(store) /\ c.newest /\ outcome = "durable"
  <2> DEFINE who == {}
             v == Crd!StoreNow(w, who)
  <2>1. v = Crd!StoreNow(w, who) /\ who = {} /\ who \in SUBSET Flusher /\ Told(v)
        /\ StoreMakes(w, who, v)
    BY <1>4, <1>7, StoreIs DEF WellKept
  <2> HIDE DEF v, who
  <2>2. /\ WellKept(v, edits)
        /\ v.rec.refs = w.rec.refs /\ v.rec.since = 0 /\ v.rec.topic = "loaded" /\ ~v.rec.dirty
        /\ v.waivers = w.waivers
        /\ \A s : Intact(w, s, edits) => Intact(v, s, edits) /\ Captured(v, s)
    BY <1>1, <1>4, <1>5, <2>1, StoreKeeps DEF StoreKept
  <2>3. "overlap" \notin waivers =>
           /\ \A j \in 1..Len(v.calls) : v.calls[j].tell \cap c.tell = {}
           /\ \A f \in c.tell : v.flush[f].had \subseteq c.blob
    <3>1. Len(w.calls) \in Nat
      BY <1>4, DocParts DEF WellKept
    <3>2. 1..Len(v.calls) = 1..Len(w.calls) \cup {Len(w.calls) + 1}
      BY <2>1, <3>1 DEF StoreMakes
    <3> QED BY SMTT(30), <1>4, <2>1, <3>2 DEF StoreMakes
  <2> QED BY <1>1, <1>2, <1>4, <1>5, <2>1, <2>2, <2>3, CrdtConstants, SettleEnds DEF c
<1>8. CASE Told(Crd!Unload(w)) /\ c.newest /\ outcome = "durable" /\ empty /\ ~rec.dirty
  <2> DEFINE v == Crd!Unload(w)
  <2>1. UnloadMakes(w, v) /\ Told(v)
    BY <1>4, <1>8, UnloadIs DEF WellKept
  <2> HIDE DEF v
  <2>2. /\ v \in Docs /\ v.rec = Crd!Cold /\ v.calls = <<>> /\ v.gone = gone
        /\ v.waivers = waivers /\ gone \subseteq 1..edits
        /\ \A f \in Flusher : /\ v.flush[f].had = flush[f].had
                              /\ v.flush[f].st = "ok" => flush[f].st = "ok"
    BY <1>4, <2>1 DEF UnloadMakes, WellKept
  <2>3. /\ WellKept(v, edits) /\ Single(v) /\ v.rec.refs = 0 /\ v.rec.since = 0
        /\ v.rec.topic = "absent" /\ ~v.rec.dirty
    BY <1>1, <2>2, ColdIsKept
  <2>4. ASSUME "overlap" \notin waivers
        PROVE  /\ Intact(v, stored', edits) /\ Captured(v, stored')
               /\ \A f \in c.tell : v.flush[f].had \subseteq c.blob
    <3>1. Intact(w, stored', edits) /\ rec.doc \subseteq stored'
      BY <1>4, <1>5, <1>8, <2>4
    <3>2. 1..edits \subseteq stored' \cup v.gone
      BY <1>4, <2>2, <3>1 DEF Intact
    <3>3. \A f \in Flusher : v.flush[f].st = "ok" => v.flush[f].had \subseteq stored'
      BY <1>4, <2>2, <3>1 DEF Intact
    <3>4. c.tell \subseteq Flusher
      BY <1>1, CrdtFacts, StoreCallParts DEF c
    <3> QED BY <1>1, <1>4, <2>2, <2>4, <3>2, <3>3, <3>4, ColdIsKept
  <2>5. Len(v.calls) = 0 /\ 1..0 = {} /\ rec.refs = 0
    BY <1>8, <2>2 DEF empty
  <2> QED BY <1>1, <1>2, <2>1, <2>2, <2>3, <2>4, <2>5, CrdtConstants, SettleEnds DEF c
<1>9. CASE Told(erased) /\ c.newest /\ outcome = "declined" /\ empty
  <2> DEFINE v == Erased(w, x)
  <2>0. Told(v) /\ v = Erased(w, x)
    BY <1>9
  <2> HIDE DEF v
  <2>2. /\ v \in Docs /\ v.rec = Crd!Cold /\ v.calls = <<>> /\ v.gone = gone \cup x
        /\ v.waivers = waivers
        /\ \A f \in Flusher : /\ v.flush[f].had = flush[f].had
                              /\ v.flush[f].st = "ok" => flush[f].st = "ok"
    <3>1. w \in Docs
      BY <1>4 DEF WellKept
    <3>2. x \in SUBSET Edit
      BY <1>1
    <3> QED BY <1>4, <2>0, <3>1, <3>2, ErasedIs
  <2>1. v.gone \subseteq 1..edits
    BY <2>2, CrdtFacts, CrdtOrder DEF WellKept, x
  <2>3. /\ WellKept(v, edits) /\ Single(v) /\ v.rec.refs = 0 /\ v.rec.since = 0
        /\ v.rec.topic = "absent" /\ ~v.rec.dirty
    BY <1>1, <2>1, <2>2, ColdIsKept
  <2>4. ASSUME "overlap" \notin waivers
        PROVE  /\ Intact(v, stored', edits) /\ Captured(v, stored')
               /\ \A f \in c.tell : v.flush[f].had \subseteq c.blob
    <3>1. Intact(w, stored', edits) /\ stored' = stored
      BY <1>2, <1>4, <1>9, <2>4
    <3>2. 1..edits \subseteq stored' \cup v.gone
      BY <1>4, <2>2, <3>1 DEF Intact, x
    <3>3. \A f \in Flusher : v.flush[f].st = "ok" => v.flush[f].had \subseteq stored'
      BY <1>4, <2>2, <3>1 DEF Intact
    <3>4. c.tell \subseteq Flusher
      BY <1>1, CrdtFacts, StoreCallParts DEF c
    <3> QED BY <1>1, <1>4, <2>1, <2>2, <2>4, <3>2, <3>3, <3>4, ColdIsKept
  <2>5. Len(v.calls) = 0 /\ 1..0 = {} /\ rec.refs = 0
    BY <1>9, <2>2 DEF empty
  <2> QED BY <1>1, <1>2, <2>0, <2>2, <2>3, <2>4, <2>5, CrdtConstants, SettleEnds DEF c
<1>10. CASE Told(Crd!Unstored(w)) /\ c.newest /\ outcome # "durable"
  <2> DEFINE v == Crd!Unstored(w)
  <2>1. v = Crd!Unstored(w) /\ Told(v)
    BY <1>10
  <2> HIDE DEF v
  <2>2. /\ WellKept(v, edits) /\ v.rec.dirty /\ v.rec.timer /\ v.rec.topic = "loaded"
        /\ v.rec.refs = w.rec.refs /\ v.rec.since = w.rec.since
        /\ v.calls = w.calls /\ v.flush = w.flush /\ v.gone = w.gone /\ v.waivers = w.waivers
        /\ \A s : Intact(w, s, edits) => Intact(v, s, edits) /\ Captured(v, s)
    BY <1>4, <1>5, <2>1, UnstoredKeeps
  <2> QED BY <1>1, <1>2, <1>4, <1>5, <2>1, <2>2, SettleEnds DEF c
<1> QED BY <1>3, <1>6, <1>7, <1>8, <1>9, <1>10

\* A sequence of numbers, each larger than the one before.
InOrder(q) == \A i, j \in 1..Len(q) : i < j => q[i] < q[j]

\* What is left of such a sequence is one too.
LEMMA WithoutInOrder ==
  ASSUME NEW s \in Seq(Nat), InOrder(s), NEW T
  PROVE  InOrder(Without(s, T))
<1> DEFINE Good(q, n) == /\ q \in Seq(Nat) /\ InOrder(q)
                         /\ \A i \in 1..Len(q) : \E m \in 1..n : q[i] = s[m]
<1>0. Len(s) \in Nat
  OBVIOUS
<1>1. PICK f : KeptUpTo(s, T, Len(s), f) /\ Without(s, T) = f[Len(s)]
  BY <1>0, WithoutUnfolds
<1> DEFINE B == {n \in 0..Len(s) : ~Good(f[n], n)}
<1>2. ASSUME B # {} PROVE FALSE
  <2>1. PICK n \in B : \A j \in B : n <= j
    <3>1. B \in SUBSET Nat
      BY <1>0
    <3> HIDE DEF B
    <3> QED BY <1>2, <3>1, LeastNumber
  <2>2. n \in 0..Len(s) /\ f[n] = IF n = 0 THEN <<>>
               ELSE IF s[n] \in T THEN f[n - 1] ELSE Append(f[n - 1], s[n])
    BY <1>1 DEF KeptUpTo
  <2>3. CASE n = 0
    <3>1. Good(<<>>, 0)
      BY DEF InOrder
    <3>2. f[n] = <<>>
      BY <2>2, <2>3
    <3> HIDE DEF Good
    <3> QED BY <2>3, <3>1, <3>2
  <2>4. CASE n # 0
    <3>1. n \in 1..Len(s) /\ n - 1 \in 0..Len(s) /\ ~(n <= n - 1) /\ s[n] \in Nat /\ n \in Nat
      BY <1>0, <2>2, <2>4
    <3>2. Good(f[n - 1], n - 1)
      BY <3>1, <2>1
    <3> DEFINE q == f[n - 1]
    <3>3. /\ q \in Seq(Nat) /\ \A i, j \in 1..Len(q) : i < j => q[i] < q[j]
          /\ \A i \in 1..Len(q) : \E m \in 1..(n - 1) : q[i] = s[m]
      BY <3>2 DEF InOrder
    <3> HIDE DEF q
    <3>4. \A i \in 1..Len(q) : q[i] < s[n] /\ \E m \in 1..n : q[i] = s[m]
      <4> SUFFICES ASSUME NEW i \in 1..Len(q)
                   PROVE  q[i] < s[n] /\ \E m \in 1..n : q[i] = s[m]
        OBVIOUS
      <4>1. PICK m \in 1..(n - 1) : q[i] = s[m]
        BY <3>3
      <4>2. m \in 1..n /\ m < n /\ m \in 1..Len(s)
        BY <3>1
      <4>3. s[m] < s[n]
        BY <3>1, <4>2 DEF InOrder
      <4> QED BY <4>1, <4>2, <4>3
    <3>5. CASE s[n] \in T
      <4>1. f[n] = q
        BY <2>2, <2>4, <3>5 DEF q
      <4>2. Good(q, n)
        BY <3>3, <3>4 DEF InOrder
      <4> QED BY <4>1, <4>2
    <3>6. CASE s[n] \notin T
      <4> DEFINE r == Append(q, s[n])
      <4>1. f[n] = r
        BY <2>2, <2>4, <3>6 DEF q
      <4>2. /\ r \in Seq(Nat) /\ Len(r) = Len(q) + 1 /\ Len(q) \in Nat
            /\ (\A i \in 1..Len(q) : r[i] = q[i]) /\ r[Len(q) + 1] = s[n]
        BY <3>1, <3>3
      <4> HIDE DEF r
      <4>3. InOrder(r)
        <5> SUFFICES ASSUME NEW i \in 1..Len(r), NEW j \in 1..Len(r), i < j
                     PROVE  r[i] < r[j]
          BY DEF InOrder
        <5>1. i \in 1..Len(q) /\ r[i] = q[i]
          BY SMTT(30), <4>2
        <5>2. CASE j = Len(q) + 1
          BY <5>1, <5>2, <4>2, <3>4
        <5>3. CASE j # Len(q) + 1
          <6> HIDE DEF B, Good
          <6>0. j \in 1..(Len(q) + 1)
            BY <4>2
          <6>1. j \in 1..Len(q) /\ r[j] = q[j]
            BY <5>3, <6>0, <4>2
          <6> QED BY <5>1, <6>1, <3>3
        <5> QED BY <5>2, <5>3
      <4>4. ASSUME NEW i \in 1..Len(r) PROVE \E m \in 1..n : r[i] = s[m]
        <5>1. CASE i = Len(q) + 1
          <6>1. n \in 1..n /\ r[i] = s[n]
            BY <5>1, <4>2, <3>1
          <6> QED BY <6>1
        <5>2. CASE i # Len(q) + 1
          <6>1. i \in 1..Len(q) /\ r[i] = q[i]
            BY <5>2, <4>2
          <6> QED BY <6>1, <3>4
        <5> QED BY <5>1, <5>2
      <4> QED BY <4>1, <4>2, <4>3, <4>4
    <3> QED BY <3>5, <3>6
  <2> QED BY <2>3, <2>4
<1>3. Good(f[Len(s)], Len(s))
  BY <1>0, <1>2
<1> QED BY <1>1, <1>3

\* The stores that are not given up, in their order.
KeptStores(k, given, q) ==
  /\ q \in Seq(1..k)
  /\ \A i, j \in 1..Len(q) : i < j => q[i] < q[j]
  /\ \A m \in (1..k) \ given : \E j \in 1..Len(q) : q[j] = m
  /\ \A j \in 1..Len(q) : q[j] \in (1..k) \ given

\* The stores that stay when a set of them is taken out: in order, and only those.
LEMMA StoresKept ==
  ASSUME NEW k \in Nat, NEW given
  PROVE  KeptStores(k, given, Without([i \in 1..k |-> i], given))
<1> DEFINE s == [i \in 1..k |-> i]
           q == Without(s, given)
<1>1. /\ s \in Seq(Nat) /\ s \in Seq(1..k) /\ Len(s) = k /\ \A i \in 1..k : s[i] = i
  <2>1. s = [i \in 1..k |-> s[i]] /\ \A i \in 1..k : s[i] = i
    OBVIOUS
  <2>2. \A i \in 1..k : s[i] \in Nat /\ s[i] \in 1..k
    BY <2>1
  <2> HIDE DEF s
  <2> QED BY <2>1, <2>2, AsSequence
<1> HIDE DEF s
<1>2. InOrder(s) /\ ToSet(s) = 1..k
  <2>1. InOrder(s)
    BY <1>1 DEF InOrder
  <2>2. ToSet(s) = {s[i] : i \in 1..k}
    BY <1>1, ToSetIs
  <2> QED BY <1>1, <2>1, <2>2
<1>3. q \in Seq(1..k) /\ ToSet(q) = (1..k) \ given /\ InOrder(q)
  BY <1>1, <1>2, WithoutKeeps, WithoutInOrder
<1> HIDE DEF q
<1>4. ToSet(q) = {q[j] : j \in 1..Len(q)}
  BY <1>3, ToSetIs
<1>5. /\ \A m \in (1..k) \ given : \E j \in 1..Len(q) : q[j] = m
      /\ \A j \in 1..Len(q) : q[j] \in (1..k) \ given
  BY <1>3, <1>4
<1> QED BY <1>3, <1>5 DEF KeptStores, InOrder, q, s

\* persistNow: flush f waits, and is counted as a waiter of every store in flight.
Joined(f) ==
  [Document EXCEPT
     !.calls = [i \in DOMAIN @ |-> [@[i] EXCEPT !.waiters = calls[i].waiters \cup {f}]],
     !.flush[f] = [st |-> "waiting", had |-> rec.doc]]

\* The same stores, as far as they are about what is written and who is told.
SameStores(q, p) ==
  /\ q \in Seq(StoreCall) /\ Len(q) = Len(p)
  /\ \A i \in 1..Len(p) :
        /\ q[i].blob = p[i].blob /\ q[i].issued = p[i].issued
        /\ q[i].tell = p[i].tell /\ q[i].newest = p[i].newest

\* A caller that joins the stores in flight is one more waiter, and nothing else.
LEMMA JoinedIs ==
  ASSUME CrdtInv, NEW f \in Flusher, NEW v, v = Joined(f)
  PROVE  /\ v \in Docs /\ SameStores(v.calls, calls)
         /\ v.rec = rec /\ v.gone = gone /\ v.waivers = waivers
         /\ v.flush[f].st = "waiting" /\ v.flush[f].had = rec.doc
         /\ \A g \in Flusher \ {f} : v.flush[g] = flush[g]
<1> DEFINE left == [i \in DOMAIN calls |->
                      [calls[i] EXCEPT !.waiters = calls[i].waiters \cup {f}]]
           asked == [flush EXCEPT ![f] = [st |-> "waiting", had |-> rec.doc]]
<1>1. /\ rec \in Record /\ calls \in Seq(StoreCall) /\ flush \in [Flusher -> Asked]
      /\ gone \in SUBSET Edit /\ waivers \in SUBSET {"overlap", "stolen"}
      /\ rec.doc \in SUBSET Edit /\ Len(calls) \in Nat /\ DOMAIN calls = 1..Len(calls)
      /\ \A i \in 1..Len(calls) : calls[i] \in StoreCall
  BY CrdtFacts, RecordParts
<1>2. v = [rec |-> rec, calls |-> left, flush |-> asked, gone |-> gone, waivers |-> waivers]
  <2>1. v = [Document EXCEPT
               !.calls = [i \in DOMAIN Document.calls |->
                            [Document.calls[i] EXCEPT !.waiters = calls[i].waiters \cup {f}]],
               !.flush = [Document.flush EXCEPT ![f] = [st |-> "waiting", had |-> rec.doc]]]
    BY Zenon DEF Joined
  <2>2. Document.calls = calls /\ Document.flush = flush
    BY CrdtFacts
  <2>3. v = [Document EXCEPT !.calls = left, !.flush = asked]
    BY <2>1, <2>2
  <2> HIDE DEF left, asked
  <2> QED BY <2>3 DEF Document
<1>3. \A i \in 1..Len(calls) :
         /\ left[i] \in StoreCall /\ left[i].newest = calls[i].newest
         /\ left[i].blob = calls[i].blob /\ left[i].issued = calls[i].issued
         /\ left[i].tell = calls[i].tell
  BY <1>1, StoreCallParts DEF StoreCall
<1>4. left \in Seq(StoreCall) /\ Len(left) = Len(calls)
  <2>1. left = [i \in 1..Len(calls) |-> left[i]]
    BY <1>1
  <2>2. \A i \in 1..Len(calls) : left[i] \in StoreCall
    BY <1>3
  <2> HIDE DEF left
  <2> QED BY <1>1, <2>1, <2>2, AsSequence
<1>5. /\ asked \in [Flusher -> Asked] /\ asked[f] = [st |-> "waiting", had |-> rec.doc]
      /\ \A g \in Flusher \ {f} : asked[g] = flush[g]
  <2>1. [st |-> "waiting", had |-> rec.doc] \in Asked
    BY <1>1 DEF Asked
  <2> QED BY <1>1, <2>1
<1> HIDE DEF left, asked
<1>6. SameStores(left, calls)
  BY <1>3, <1>4 DEF SameStores
<1>7. v \in Docs
  BY <1>1, <1>2, <1>4, <1>5 DEF Docs
<1>8. /\ v.rec = rec /\ v.calls = left /\ v.flush = asked /\ v.gone = gone /\ v.waivers = waivers
  BY <1>2
<1> QED BY <1>5, <1>6, <1>7, <1>8

\* It asks for nothing that was not asked of the document it found.
LEMMA JoinedKeeps ==
  ASSUME CrdtInv, NEW f \in Flusher, flush[f].st # "waiting", NEW v, v = Joined(f)
  PROVE  /\ WellKept(v, edits) /\ v.rec = rec /\ v.waivers = waivers
         /\ v.flush[f].st = "waiting" /\ v.flush[f].had = rec.doc
         /\ "overlap" \notin waivers =>
               /\ Intact(v, stored, edits) /\ Captured(v, stored)
               /\ \A i \in 1..Len(v.calls) : v.calls[i].tell \cap {f} = {}
<1>1. /\ v \in Docs /\ SameStores(v.calls, calls)
      /\ v.rec = rec /\ v.gone = gone /\ v.waivers = waivers
      /\ v.flush[f].st = "waiting" /\ v.flush[f].had = rec.doc
      /\ \A g \in Flusher \ {f} : v.flush[g] = flush[g]
  BY JoinedIs
<1>2. calls \in Seq(StoreCall) /\ Len(calls) \in Nat /\ v.calls \in Seq(StoreCall)
      /\ (v.calls # <<>> <=> calls # <<>>)
      /\ (calls # <<>> => 1 \in 1..Len(calls) /\ Len(calls) \in 1..Len(calls))
  BY <1>1, CrdtFacts DEF SameStores
<1>3. WellKept(v, edits)
  <2>1. /\ rec.doc \cup gone \subseteq 1..edits
        /\ \A i \in 1..Len(calls) :
              calls[i].blob \subseteq 1..edits /\ (calls[i].newest => i = Len(calls))
        /\ calls # <<>> => rec.topic = "loaded" /\ calls[1].issued
        /\ rec.topic # "loaded" => rec.doc = {} /\ rec.refs = 0 /\ ~rec.dirty
    BY CrdtFacts, CrdtOrder DEF WellKept
  <2> QED BY <1>1, <1>2, <2>1 DEF WellKept, SameStores
<1>4. ASSUME "overlap" \notin waivers
      PROVE  /\ Intact(v, stored, edits) /\ Captured(v, stored)
             /\ \A i \in 1..Len(v.calls) : v.calls[i].tell \cap {f} = {}
  <2>1. /\ 1..edits \subseteq stored \cup gone \cup rec.doc
        /\ rec.topic = "loaded" => stored \subseteq rec.doc
        /\ \A i \in 1..Len(calls) : stored \subseteq calls[i].blob /\ calls[i].blob \subseteq rec.doc
        /\ \A i, j \in 1..Len(calls) : i < j => calls[i].blob \subseteq calls[j].blob
        /\ \A g \in Flusher : flush[g].st = "ok" => flush[g].had \subseteq stored
        /\ \A i \in 1..Len(calls) : \A g \in calls[i].tell :
              flush[g].st = "waiting" /\ flush[g].had \subseteq calls[i].blob
        /\ \A i, j \in 1..Len(calls) : i # j => calls[i].tell \cap calls[j].tell = {}
    <3>1. Intact(Document, stored, edits)
      BY <1>4, CrdtOrder
    <3> QED BY SMTT(30), <3>1, CrdtFacts DEF Intact
  <2>2. Captured(v, stored)
    <3>1. Captured(Document, stored)
      BY <1>4, CrdtOrder
    <3>2. \/ rec.dirty \/ rec.doc \subseteq stored
          \/ calls # <<>> /\ calls[Len(calls)].newest /\ calls[Len(calls)].blob = rec.doc
      BY <3>1, CrdtFacts DEF Captured
    <3> QED BY <1>1, <1>2, <3>2 DEF Captured, SameStores
  <2>3. \A i \in 1..Len(calls) : f \notin calls[i].tell /\ calls[i].tell \subseteq Flusher
    <3>1. \A i \in 1..Len(calls) : calls[i].tell \subseteq Flusher
      BY CrdtFacts, StoreCallParts
    <3> QED BY <2>1, <3>1
  <2>4. \A i \in 1..Len(v.calls) : v.calls[i].tell \cap {f} = {}
    BY <1>1, <2>3 DEF SameStores
  <2>5. \A i \in 1..Len(v.calls) : \A g \in v.calls[i].tell :
           v.flush[g].st = "waiting" /\ v.flush[g].had \subseteq v.calls[i].blob
    <3> SUFFICES ASSUME NEW i \in 1..Len(calls), NEW g \in calls[i].tell
                 PROVE  v.flush[g].st = "waiting" /\ v.flush[g].had \subseteq calls[i].blob
      BY <1>1 DEF SameStores
    <3>1. g \in Flusher \ {f}
      BY <2>3
    <3> QED BY <1>1, <2>1, <3>1
  <2>6. \A g \in Flusher : v.flush[g].st = "ok" => v.flush[g].had \subseteq stored
    <3> SUFFICES ASSUME NEW g \in Flusher, v.flush[g].st = "ok"
                 PROVE  v.flush[g].had \subseteq stored
      OBVIOUS
    <3>1. g # f
      BY <1>1
    <3> QED BY <1>1, <2>1, <3>1
  <2>7. Intact(v, stored, edits)
    BY <1>1, <2>1, <2>5, <2>6 DEF Intact, SameStores
  <2> QED BY <2>2, <2>4, <2>7
<1> QED BY <1>1, <1>3, <1>4

\* A step that leaves the record, the backend and the mounts as they are.
LEMMA SameRecord ==
  ASSUME CrdtInv, NEW v, Crd!Become(v), WellKept(v, edits), v.waivers = waivers,
         v.rec.topic = rec.topic, v.rec.refs = rec.refs, v.rec.since < SnapshotEvery,
         v.rec.dirty => v.rec.timer, UNCHANGED <<holder, edits>>, stored' \subseteq 1..edits,
         "overlap" \notin waivers => Intact(v, stored', edits) /\ Captured(v, stored')
  PROVE  CrdtInv'
<1>1. /\ edits' = edits /\ edits' \in 0..MaxEdits /\ Held' = Held
      /\ holder' \in [Holder -> {"none", "joining", "held", "dropped"}]
  BY CrdtFacts, CrdtOrder DEF Held, CrdtInv
<1>2. Leaves(v)
  BY BecomeLeaves
<1>3. /\ v.rec.refs <= Cardinality(Held')
      /\ "stolen" \notin v.waivers =>
            v.rec.refs = Cardinality(Held') /\ (Held' # {} => v.rec.topic = "loaded")
  BY <1>1, CrdtFacts, CrdtOrder
<1> QED BY <1>1, <1>2, <1>3, CrdtStep

\* Flush f is told when the newest store settles.
Awaited(w, f) ==
  [w EXCEPT !.calls = [i \in DOMAIN @ |->
     IF @[i].newest THEN [@[i] EXCEPT !.tell = calls[i].tell \cup {f}] ELSE @[i]]]

AwaitedMakes(w, f, v) ==
  /\ v \in Docs /\ Len(v.calls) = Len(calls)
  /\ v.rec = w.rec /\ v.gone = w.gone /\ v.waivers = w.waivers /\ v.flush = w.flush
  /\ \A i \in 1..Len(calls) :
        /\ v.calls[i].blob = calls[i].blob /\ v.calls[i].issued = calls[i].issued
        /\ v.calls[i].newest = calls[i].newest
        /\ v.calls[i].tell = IF calls[i].newest THEN calls[i].tell \cup {f} ELSE calls[i].tell

\* The newest store is told to report to one more caller.
LEMMA AwaitedIs ==
  ASSUME CrdtInv, NEW f \in Flusher, NEW w \in Docs, SameStores(w.calls, calls)
  PROVE  AwaitedMakes(w, f, Awaited(w, f))
<1> DEFINE p == w.calls
           v == Awaited(w, f)
           left == [i \in DOMAIN p |->
                      IF p[i].newest THEN [p[i] EXCEPT !.tell = calls[i].tell \cup {f}] ELSE p[i]]
<1>1. /\ p \in Seq(StoreCall) /\ Len(p) = Len(calls) /\ Len(calls) \in Nat
      /\ DOMAIN p = 1..Len(calls)
      /\ \A i \in 1..Len(calls) : p[i] \in StoreCall /\ calls[i] \in StoreCall
  BY CrdtFacts DEF SameStores
<1>2. /\ w = [rec |-> w.rec, calls |-> p, flush |-> w.flush, gone |-> w.gone,
              waivers |-> w.waivers]
      /\ w.rec \in Record /\ w.flush \in [Flusher -> Asked]
      /\ w.gone \in SUBSET Edit /\ w.waivers \in SUBSET {"overlap", "stolen"}
  BY DocParts
<1>3. v = [rec |-> w.rec, calls |-> left, flush |-> w.flush, gone |-> w.gone,
           waivers |-> w.waivers]
  <2>1. v = [w EXCEPT !.calls = left]
    BY Zenon DEF Awaited
  <2> HIDE DEF left, p, v
  <2> QED BY <1>2, <2>1
<1>4. ASSUME NEW i \in 1..Len(calls)
      PROVE  /\ left[i] \in StoreCall /\ left[i].newest = p[i].newest
             /\ left[i].blob = p[i].blob /\ left[i].issued = p[i].issued
             /\ left[i].tell = IF p[i].newest THEN calls[i].tell \cup {f} ELSE p[i].tell
  <2> DEFINE c == p[i]
             t == calls[i].tell \cup {f}
             d == [c EXCEPT !.tell = t]
  <2>1. left[i] = IF c.newest THEN d ELSE c
    BY <1>1
  <2>2. c \in StoreCall /\ t \in SUBSET Flusher
    BY <1>1, StoreCallParts
  <2> HIDE DEF c, t
  <2>3. /\ d \in StoreCall /\ d.newest = c.newest /\ d.blob = c.blob /\ d.issued = c.issued
        /\ d.tell = t
    BY <2>2, StoreCallParts DEF StoreCall
  <2> HIDE DEF d, left
  <2>4. left[i].tell = IF c.newest THEN t ELSE c.tell
    BY <2>1, <2>3
  <2>5. /\ left[i] \in StoreCall /\ left[i].newest = c.newest
        /\ left[i].blob = c.blob /\ left[i].issued = c.issued
    BY <2>1, <2>2, <2>3
  <2> QED BY <2>4, <2>5 DEF c, t
<1>5. left \in Seq(StoreCall) /\ Len(left) = Len(calls)
  <2>1. left = [i \in 1..Len(calls) |-> left[i]]
    BY <1>1
  <2>2. \A i \in 1..Len(calls) : left[i] \in StoreCall
    BY <1>4
  <2> HIDE DEF left
  <2> QED BY <1>1, <2>1, <2>2, AsSequence
<1> HIDE DEF left, v
<1>6. v \in Docs
  BY <1>2, <1>3, <1>5 DEF Docs
<1>7. /\ v.rec = w.rec /\ v.calls = left /\ v.flush = w.flush /\ v.gone = w.gone
      /\ v.waivers = w.waivers
  BY <1>3
<1>8. \A i \in 1..Len(calls) : /\ p[i].newest = calls[i].newest /\ p[i].blob = calls[i].blob
                               /\ p[i].issued = calls[i].issued /\ p[i].tell = calls[i].tell
  BY DEF SameStores
<1>9. \A i \in 1..Len(calls) :
         /\ v.calls[i].blob = calls[i].blob /\ v.calls[i].issued = calls[i].issued
         /\ v.calls[i].newest = calls[i].newest
         /\ v.calls[i].tell = IF calls[i].newest THEN calls[i].tell \cup {f} ELSE calls[i].tell
  <2> HIDE DEF p
  <2> QED BY <1>4, <1>7, <1>8
<1>10. AwaitedMakes(w, f, v)
  BY <1>5, <1>6, <1>7, <1>9 DEF AwaitedMakes
<1> QED BY <1>10 DEF v

\* persistNow.
LEMMA PersistKeeps ==
  ASSUME CrdtInv, NEW f \in Flusher, Crd!PersistNow(f)
  PROVE  CrdtInv'
<1> DEFINE w == Joined(f)
           who == {f}
           store == Crd!StoreNow(w, who)
           told == Crd!Report(w, who, "durable")
           waits == Awaited(w, f)
<1>1. flush[f].st # "waiting" /\ UNCHANGED <<holder, edits>> /\ stored' = stored
  BY DEF Crd!PersistNow
<1>2. \/ Crd!Become(store) /\ rec.topic = "loaded"
      \/ Crd!Become(told) /\ ~(rec.topic = "loaded" /\ rec.dirty) /\ Crd!Newest(Document) = {}
      \/ Crd!Become(waits) /\ ~(rec.topic = "loaded" /\ rec.dirty) /\ Crd!Newest(Document) # {}
  <2> HIDE DEF store, told, waits, w
  <2>1. Crd!Become(IF rec.topic = "loaded" /\ rec.dirty THEN store
                   ELSE IF Crd!Newest(Document) = {} THEN told ELSE waits)
    BY CrdtNames DEF Crd!PersistNow, Joined, Awaited, store, told, waits, w
  <2> QED BY <2>1
<1>3. w = Joined(f) /\ who \in SUBSET Flusher /\ edits \in Nat /\ stored \subseteq 1..edits
  BY CrdtFacts
<1> HIDE DEF w
<1>4. /\ WellKept(w, edits) /\ w.rec = rec /\ w.waivers = waivers
      /\ w.flush[f].st = "waiting" /\ w.flush[f].had = rec.doc
      /\ "overlap" \notin waivers =>
            /\ Intact(w, stored, edits) /\ Captured(w, stored)
            /\ \A i \in 1..Len(w.calls) : w.calls[i].tell \cap who = {}
  BY <1>1, <1>3, JoinedKeeps
<1>5. /\ w \in Docs /\ SameStores(w.calls, calls) /\ w.gone = gone
      /\ \A g \in Flusher \ {f} : w.flush[g] = flush[g]
  BY <1>3, JoinedIs
<1>6. CASE Crd!Become(store) /\ rec.topic = "loaded"
  <2> HIDE DEF who
  <2>1. store = Crd!StoreNow(w, who)
    OBVIOUS
  <2> HIDE DEF store
  <2>2. /\ WellKept(store, edits)
        /\ store.rec.refs = w.rec.refs /\ store.rec.since = 0 /\ store.rec.topic = "loaded"
        /\ ~store.rec.dirty /\ store.waivers = w.waivers
        /\ \A s : Intact(w, s, edits)
              /\ (\A g \in who : w.flush[g].st = "waiting" /\ w.flush[g].had \subseteq w.rec.doc)
              /\ (\A i \in 1..Len(w.calls) : w.calls[i].tell \cap who = {})
              => Intact(store, s, edits) /\ Captured(store, s)
    <3>1. StoreKept(w, who, edits, store)
      BY <1>3, <1>4, <1>6, <2>1, StoreKeeps
    <3> QED BY <3>1 DEF StoreKept
  <2>3. \A g \in who : w.flush[g].st = "waiting" /\ w.flush[g].had \subseteq w.rec.doc
    BY <1>4 DEF who
  <2>4. "overlap" \notin waivers => Intact(store, stored', edits) /\ Captured(store, stored')
    BY <1>1, <1>4, <2>2, <2>3
  <2> QED BY <1>1, <1>3, <1>4, <1>6, <2>2, <2>4, CrdtConstants, SameRecord
<1>7. CASE Crd!Become(told) /\ ~(rec.topic = "loaded" /\ rec.dirty) /\ Crd!Newest(Document) = {}
  <2> HIDE DEF who
  <2>1. ReportKept(w, who, "durable", edits, told)
    BY <1>3, <1>4, ReportKeeps
  <2> HIDE DEF told
  <2>2. /\ WellKept(told, edits) /\ told.rec = rec /\ told.waivers = waivers
        /\ \A s : Captured(w, s) => Captured(told, s)
        /\ \A s : Intact(w, s, edits)
             /\ (\A i \in 1..Len(w.calls) : w.calls[i].tell \cap who = {})
             /\ (\A g \in who : w.flush[g].had \subseteq s)
             => Intact(told, s, edits)
    BY <1>4, <2>1 DEF ReportKept
  <2>3. ASSUME "overlap" \notin waivers PROVE rec.doc \subseteq stored
    <3>1. Captured(Document, stored) /\ ~rec.dirty
      BY <1>7, <2>3, CrdtFacts, CrdtOrder
    <3>2. \/ rec.doc \subseteq stored
          \/ calls # <<>> /\ calls[Len(calls)].newest
      BY <3>1, CrdtFacts DEF Captured
    <3>3. ASSUME calls # <<>> PROVE ~calls[Len(calls)].newest
      <4>1. Len(calls) \in DOMAIN calls /\ Document.calls = calls
        BY <3>3, CrdtFacts
      <4> QED BY <1>7, <4>1 DEF Crd!Newest
    <3> QED BY <3>2, <3>3
  <2>4. "overlap" \notin waivers => \A g \in who : w.flush[g].had \subseteq stored
    BY <1>4, <2>3 DEF who
  <2>5. "overlap" \notin waivers => Intact(told, stored', edits) /\ Captured(told, stored')
    BY <1>1, <1>4, <2>2, <2>4
  <2> QED BY <1>1, <1>3, <1>7, <2>2, <2>5, CrdtFacts, SameRecord
<1>8. CASE Crd!Become(waits) /\ ~(rec.topic = "loaded" /\ rec.dirty) /\ Crd!Newest(Document) # {}
  <2>1. AwaitedMakes(w, f, waits)
    BY <1>5, AwaitedIs
  <2> HIDE DEF waits
  <2>2. /\ waits \in Docs /\ Len(waits.calls) = Len(calls)
        /\ waits.rec = w.rec /\ waits.gone = w.gone /\ waits.waivers = w.waivers
        /\ waits.flush = w.flush
        /\ \A i \in 1..Len(calls) :
              /\ waits.calls[i].blob = calls[i].blob /\ waits.calls[i].issued = calls[i].issued
              /\ waits.calls[i].newest = calls[i].newest
              /\ waits.calls[i].tell = IF calls[i].newest THEN calls[i].tell \cup {f}
                                       ELSE calls[i].tell
    BY <2>1 DEF AwaitedMakes
  <2>3. /\ calls \in Seq(StoreCall) /\ Len(calls) \in Nat /\ waits.calls \in Seq(StoreCall)
        /\ w.calls \in Seq(StoreCall) /\ Len(w.calls) = Len(calls)
        /\ calls # <<>> /\ waits.calls # <<>> /\ w.calls # <<>> /\ rec.topic = "loaded"
        /\ 1 \in 1..Len(calls) /\ Len(calls) \in 1..Len(calls)
    <3>1. calls # <<>>
      BY <1>8, CrdtFacts DEF Crd!Newest
    <3> QED BY <1>5, <2>2, <3>1, CrdtFacts, DocParts DEF SameStores
  <2>4. /\ rec.doc \cup gone \subseteq 1..edits
        /\ \A i \in 1..Len(calls) :
              calls[i].blob \subseteq 1..edits /\ (calls[i].newest => i = Len(calls))
        /\ calls[1].issued
    BY <2>3, CrdtFacts, CrdtOrder DEF WellKept
  <2>5. WellKept(waits, edits)
    BY <1>4, <1>5, <2>2, <2>3, <2>4 DEF WellKept
  <2>6. ASSUME "overlap" \notin waivers
        PROVE  Intact(waits, stored, edits) /\ Captured(waits, stored)
    <3>1. /\ 1..edits \subseteq stored \cup gone \cup rec.doc
          /\ stored \subseteq rec.doc
          /\ \A i \in 1..Len(calls) : stored \subseteq calls[i].blob /\ calls[i].blob \subseteq rec.doc
          /\ \A i, j \in 1..Len(calls) : i < j => calls[i].blob \subseteq calls[j].blob
          /\ \A g \in Flusher : w.flush[g].st = "ok" => w.flush[g].had \subseteq stored
          /\ \A i \in 1..Len(calls) : \A g \in calls[i].tell :
                w.flush[g].st = "waiting" /\ w.flush[g].had \subseteq calls[i].blob
          /\ \A i, j \in 1..Len(calls) : i # j => calls[i].tell \cap calls[j].tell = {}
          /\ \A i \in 1..Len(calls) : calls[i].tell \cap {f} = {}
      BY SMTT(30), <1>4, <1>5, <2>3, <2>6 DEF Intact, SameStores
    <3>2. \/ rec.doc \subseteq stored
          \/ calls[Len(calls)].newest /\ calls[Len(calls)].blob = rec.doc
      <4>1. Captured(Document, stored) /\ ~rec.dirty
        BY <1>8, <2>3, <2>6, CrdtOrder
      <4> QED BY <4>1, CrdtFacts DEF Captured
    <3>3. \A i \in 1..Len(calls) : calls[i].newest => rec.doc \subseteq calls[i].blob
      BY <2>4, <3>1, <3>2
    <3>4. Captured(waits, stored)
      BY ZenonT(60), <1>4, <2>2, <2>3, <3>2 DEF Captured
    <3>5. ASSUME NEW i \in 1..Len(calls), NEW g \in waits.calls[i].tell
          PROVE  w.flush[g].st = "waiting" /\ w.flush[g].had \subseteq calls[i].blob
      <4>1. CASE g \in calls[i].tell
        BY <3>1, <4>1
      <4>2. CASE g \notin calls[i].tell
        <5>1. g = f /\ calls[i].newest
          BY <2>2, <3>5, <4>2
        <5> QED BY <1>4, <3>3, <5>1
      <4> QED BY <4>1, <4>2
    <3>6. ASSUME NEW i \in 1..Len(calls), NEW j \in 1..Len(calls), i # j
          PROVE  waits.calls[i].tell \cap waits.calls[j].tell = {}
      <4>1. ~(calls[i].newest /\ calls[j].newest)
        BY <2>4, <3>6
      <4>2. calls[i].tell \cap calls[j].tell = {} /\ f \notin calls[i].tell /\ f \notin calls[j].tell
        BY <3>1, <3>6
      <4> QED BY <2>2, <4>1, <4>2
    <3>7. Intact(waits, stored, edits)
      <4>1. \A g \in Flusher : waits.flush[g].st = "ok" => waits.flush[g].had \subseteq stored
        BY <2>2, <3>1
      <4>2. /\ 1..edits \subseteq stored \cup waits.gone \cup waits.rec.doc
            /\ stored \subseteq waits.rec.doc
        BY <1>4, <1>5, <2>2, <3>1
      <4>3. \A i \in 1..Len(waits.calls) :
               stored \subseteq waits.calls[i].blob /\ waits.calls[i].blob \subseteq waits.rec.doc
        BY <1>4, <2>2, <3>1
      <4>4. \A i, j \in 1..Len(waits.calls) :
               i < j => waits.calls[i].blob \subseteq waits.calls[j].blob
        BY ZenonT(60), <2>2, <3>1
      <4>5. \A i \in 1..Len(waits.calls) : \A g \in waits.calls[i].tell :
               waits.flush[g].st = "waiting" /\ waits.flush[g].had \subseteq waits.calls[i].blob
        BY ZenonT(60), <2>2, <3>5
      <4>6. \A i, j \in 1..Len(waits.calls) :
               i # j => waits.calls[i].tell \cap waits.calls[j].tell = {}
        BY <2>2, <3>6
      <4> QED BY <4>1, <4>2, <4>3, <4>4, <4>5, <4>6 DEF Intact
    <3> QED BY <3>4, <3>7
  <2> QED BY <1>1, <1>3, <1>4, <1>8, <2>2, <2>5, <2>6, CrdtFacts, SameRecord
<1> QED BY <1>2, <1>6, <1>7, <1>8

\* A deadline: of the stores, those at kept remain, the others are given up.
Left(f, kept, given) ==
  [Document EXCEPT
     !.calls = [j \in DOMAIN kept |->
         LET c == calls[kept[j]]
         IN [c EXCEPT !.waiters = c.waiters \ {f}, !.tell = c.tell \ {f},
                      !.issued = c.issued \/ kept[j] - 1 \in given]],
     !.flush[f].st = "unconfirmed"]

LeftMakes(f, kept, given, v) ==
  /\ v \in Docs /\ Len(v.calls) = Len(kept)
  /\ v.rec = rec /\ v.gone = gone /\ v.waivers = waivers
  /\ \A j \in 1..Len(kept) :
        /\ v.calls[j].blob = calls[kept[j]].blob /\ v.calls[j].newest = calls[kept[j]].newest
        /\ v.calls[j].tell = calls[kept[j]].tell \ {f}
        /\ v.calls[j].issued <=> calls[kept[j]].issued \/ kept[j] - 1 \in given
  /\ v.flush[f].st = "unconfirmed"
  /\ \A g \in Flusher \ {f} : v.flush[g] = flush[g]

\* The document after a flush gave up: what stays of its stores, each as it was.
LEMMA LeftIs ==
  ASSUME CrdtInv, NEW f \in Flusher, NEW kept \in Seq(1..Len(calls)), NEW given
  PROVE  LeftMakes(f, kept, given, Left(f, kept, given))
<1> DEFINE v == Left(f, kept, given)
           next(j) == LET c == calls[kept[j]]
                      IN [c EXCEPT !.waiters = c.waiters \ {f}, !.tell = c.tell \ {f},
                                   !.issued = c.issued \/ kept[j] - 1 \in given]
           left == [j \in DOMAIN kept |-> next(j)]
           asked == [flush EXCEPT ![f].st = "unconfirmed"]
<1>1. /\ rec \in Record /\ calls \in Seq(StoreCall) /\ flush \in [Flusher -> Asked]
      /\ gone \in SUBSET Edit /\ waivers \in SUBSET {"overlap", "stolen"}
      /\ Len(kept) \in Nat /\ DOMAIN kept = 1..Len(kept)
      /\ \A j \in 1..Len(kept) : calls[kept[j]] \in StoreCall
  BY CrdtFacts
<1>2. v = [rec |-> rec, calls |-> left, flush |-> asked, gone |-> gone, waivers |-> waivers]
  <2>1. v = [Document EXCEPT !.calls = left,
                             !.flush = [Document.flush EXCEPT ![f].st = "unconfirmed"]]
    BY Zenon DEF Left
  <2>2. Document.flush = flush
    BY CrdtFacts
  <2> HIDE DEF left, v
  <2>3. v = [Document EXCEPT !.calls = left, !.flush = asked]
    BY <2>1, <2>2
  <2> HIDE DEF asked
  <2> QED BY <2>3 DEF Document
<1>3. ASSUME NEW j \in 1..Len(kept)
      PROVE  /\ left[j] \in StoreCall
             /\ left[j].blob = calls[kept[j]].blob /\ left[j].newest = calls[kept[j]].newest
             /\ left[j].tell = calls[kept[j]].tell \ {f}
             /\ left[j].issued <=> calls[kept[j]].issued \/ kept[j] - 1 \in given
  <2> DEFINE c == calls[kept[j]]
             x == kept[j] - 1 \in given
             d == [c EXCEPT !.waiters = c.waiters \ {f}, !.tell = c.tell \ {f},
                            !.issued = c.issued \/ x]
  <2>1. left[j] = d /\ c \in StoreCall /\ x \in BOOLEAN
    BY <1>1
  <2> HIDE DEF c, x
  <2>2. /\ d \in StoreCall /\ d.blob = c.blob /\ d.newest = c.newest /\ d.tell = c.tell \ {f}
        /\ d.issued <=> c.issued \/ x
    BY <2>1, StoreCallParts DEF StoreCall
  <2> HIDE DEF left, d
  <2> QED BY <2>1, <2>2 DEF c, x
<1>4. left \in Seq(StoreCall) /\ Len(left) = Len(kept)
  <2>1. left = [j \in 1..Len(kept) |-> left[j]]
    BY <1>1
  <2>2. \A j \in 1..Len(kept) : left[j] \in StoreCall
    BY <1>3
  <2> HIDE DEF left
  <2> QED BY <1>1, <2>1, <2>2, AsSequence
<1>5. /\ asked \in [Flusher -> Asked] /\ asked[f].st = "unconfirmed"
      /\ \A g \in Flusher \ {f} : asked[g] = flush[g]
  <2> DEFINE a == flush[f]
             b == [a EXCEPT !.st = "unconfirmed"]
  <2>1. a \in Asked
    BY <1>1
  <2> HIDE DEF a
  <2>2. b \in Asked /\ b.st = "unconfirmed"
    BY <2>1 DEF Asked
  <2>3. asked = [flush EXCEPT ![f] = b]
    BY DEF a
  <2> HIDE DEF asked, b
  <2> QED BY <1>1, <2>2, <2>3
<1> HIDE DEF left, asked, v
<1>6. v \in Docs
  BY <1>1, <1>2, <1>4, <1>5 DEF Docs
<1>7. /\ v.rec = rec /\ v.calls = left /\ v.flush = asked /\ v.gone = gone /\ v.waivers = waivers
  BY <1>2
<1>8. LeftMakes(f, kept, given, v)
  BY <1>3, <1>4, <1>5, <1>6, <1>7 DEF LeftMakes
<1> QED BY <1>8 DEF v

\* It keeps all that was kept, but for what the given-up stores had captured.
LEMMA LeftKeeps ==
  ASSUME CrdtInv, NEW f \in Flusher, flush[f].st = "waiting", NEW given \in SUBSET (1..Len(calls)),
         NEW kept, KeptStores(Len(calls), given, kept), NEW v, LeftMakes(f, kept, given, v),
         NEW t, t = stored \/ \E i \in given : calls[i].issued /\ t = calls[i].blob
  PROVE  /\ WellKept(v, edits) /\ t \subseteq 1..edits
         /\ "overlap" \notin waivers =>
               Intact(v, t, edits) /\ (given = {} => Captured(v, t))
<1> DEFINE k == Len(calls)
           n == Len(kept)
<1>1. /\ calls \in Seq(StoreCall) /\ k \in Nat /\ kept \in Seq(1..k) /\ n \in Nat
      /\ \A i \in 1..k : calls[i] \in StoreCall
      /\ \A j \in 1..n : kept[j] \in (1..k) \ given /\ kept[j] \in 1..k
      /\ \A i, j \in 1..n : i < j => kept[i] < kept[j]
      /\ \A m \in (1..k) \ given : \E j \in 1..n : kept[j] = m
  BY CrdtFacts DEF KeptStores
<1>2. /\ v \in Docs /\ Len(v.calls) = n
      /\ v.rec = rec /\ v.gone = gone /\ v.waivers = waivers
      /\ \A j \in 1..n :
            /\ v.calls[j].blob = calls[kept[j]].blob /\ v.calls[j].newest = calls[kept[j]].newest
            /\ v.calls[j].tell = calls[kept[j]].tell \ {f}
            /\ v.calls[j].issued <=> calls[kept[j]].issued \/ kept[j] - 1 \in given
      /\ v.flush[f].st = "unconfirmed"
      /\ \A g \in Flusher \ {f} : v.flush[g] = flush[g]
      /\ v.calls \in Seq(StoreCall)
  BY DocParts DEF LeftMakes
<1>3. /\ rec.doc \cup gone \subseteq 1..edits
      /\ \A i \in 1..k : calls[i].blob \subseteq 1..edits /\ (calls[i].newest => i = k)
      /\ k > 0 => rec.topic = "loaded" /\ calls[1].issued
      /\ rec.topic # "loaded" => rec.doc = {} /\ rec.refs = 0 /\ ~rec.dirty
  BY CrdtFacts, CrdtOrder DEF WellKept
<1> HIDE DEF k, n
<1>4. ASSUME NEW j \in 1..n, kept[j] = k PROVE j = n
  <2> SUFFICES ASSUME j # n PROVE FALSE
    OBVIOUS
  <2>1. n \in 1..n /\ j < n
    BY <1>1
  <2>2. kept[j] < kept[n] /\ kept[n] \in 1..k
    BY <1>1, <2>1
  <2> QED BY <1>1, <1>4, <2>2
<1>5. ASSUME n > 0 PROVE k > 0 /\ v.calls[1].issued
  <2>1. 1 \in 1..n /\ kept[1] \in 1..k
    BY <1>1, <1>5
  <2>2. k > 0
    BY <1>1, <2>1
  <2>3. CASE kept[1] = 1
    BY <1>2, <1>3, <2>1, <2>2, <2>3
  <2>4. CASE kept[1] # 1
    <3>1. kept[1] - 1 \in 1..k /\ kept[1] - 1 < kept[1]
      BY <1>1, <2>1, <2>4
    <3>2. ASSUME kept[1] - 1 \notin given PROVE FALSE
      <4>1. PICK j \in 1..n : kept[j] = kept[1] - 1
        BY <1>1, <3>1, <3>2
      <4>2. j = 1 \/ 1 < j
        BY <1>1
      <4>3. ~(1 < j)
        BY <1>1, <2>1, <3>1, <4>1
      <4> QED BY <3>1, <4>1, <4>2, <4>3
    <3> QED BY <1>2, <2>1, <2>2, <3>2
  <2> QED BY <2>2, <2>3, <2>4
<1>6. WellKept(v, edits)
  <2>1. \A j \in 1..n : v.calls[j].blob \subseteq 1..edits /\ (v.calls[j].newest => j = n)
    <3> SUFFICES ASSUME NEW j \in 1..n
                 PROVE  v.calls[j].blob \subseteq 1..edits /\ (v.calls[j].newest => j = n)
      OBVIOUS
    <3>1. kept[j] \in 1..k
      BY <1>1
    <3>2. calls[kept[j]].blob \subseteq 1..edits /\ (calls[kept[j]].newest => kept[j] = k)
      BY <1>3, <3>1
    <3> QED BY <1>2, <1>4, <3>2
  <2>2. v.calls # <<>> => n > 0
    BY <1>1, <1>2
  <2> QED BY <1>2, <1>3, <1>5, <2>1, <2>2 DEF WellKept
<1>7. t \subseteq 1..edits
  BY <1>3, CrdtFacts DEF k
<1>8. ASSUME "overlap" \notin waivers
      PROVE  Intact(v, t, edits) /\ (given = {} => Captured(v, t))
  <2>1. /\ 1..edits \subseteq stored \cup gone \cup rec.doc
        /\ rec.topic = "loaded" => stored \subseteq rec.doc
        /\ \A i \in 1..k : stored \subseteq calls[i].blob /\ calls[i].blob \subseteq rec.doc
        /\ \A i, j \in 1..k : i < j => calls[i].blob \subseteq calls[j].blob
        /\ \A g \in Flusher : flush[g].st = "ok" => flush[g].had \subseteq stored
        /\ \A i \in 1..k : \A g \in calls[i].tell :
              flush[g].st = "waiting" /\ flush[g].had \subseteq calls[i].blob
        /\ \A i, j \in 1..k : i # j => calls[i].tell \cap calls[j].tell = {}
        /\ \A i \in 1..k : calls[i].issued => i = 1
    <3>1. Intact(Document, stored, edits) /\ Single(Document)
      BY <1>8, CrdtOrder
    <3> QED BY <3>1, CrdtFacts DEF Intact, Single, k
  <2>2. /\ stored \subseteq t /\ (rec.topic = "loaded" => t \subseteq rec.doc)
        /\ \A j \in 1..n : t \subseteq calls[kept[j]].blob
    <3>1. CASE t = stored
      BY <1>1, <2>1, <3>1
    <3>2. CASE \E i \in given : calls[i].issued /\ t = calls[i].blob
      <4>1. PICK i \in given : calls[i].issued /\ t = calls[i].blob
        BY <3>2
      <4>2. i = 1 /\ i \in 1..k /\ 1 \in given
        BY <2>1, <4>1 DEF k
      <4>3. ASSUME NEW j \in 1..n PROVE t \subseteq calls[kept[j]].blob
        <5>1. kept[j] \in 1..k /\ kept[j] # 1
          BY <1>1, <4>2
        <5>2. 1 < kept[j] /\ 1 \in 1..k
          BY <1>1, <4>2, <5>1
        <5> QED BY <2>1, <4>1, <4>2, <5>1, <5>2
      <4> QED BY <2>1, <4>1, <4>2, <4>3
    <3> QED BY <3>1, <3>2
  <2>3. Intact(v, t, edits)
    <3>1. /\ 1..edits \subseteq t \cup v.gone \cup v.rec.doc
          /\ v.rec.topic = "loaded" => t \subseteq v.rec.doc
      BY <1>2, <2>1, <2>2
    <3>2. \A j \in 1..n : t \subseteq v.calls[j].blob /\ v.calls[j].blob \subseteq v.rec.doc
      BY <1>1, <1>2, <2>1, <2>2
    <3>3. ASSUME NEW i \in 1..n, NEW j \in 1..n, i < j
          PROVE  v.calls[i].blob \subseteq v.calls[j].blob
      <4>1. kept[i] \in 1..k /\ kept[j] \in 1..k /\ kept[i] < kept[j]
        BY <1>1, <3>3
      <4>2. calls[kept[i]].blob \subseteq calls[kept[j]].blob
        BY <2>1, <4>1
      <4> QED BY <1>2, <4>2
    <3>4. \A g \in Flusher : v.flush[g].st = "ok" => v.flush[g].had \subseteq t
      <4> SUFFICES ASSUME NEW g \in Flusher, v.flush[g].st = "ok"
                   PROVE  v.flush[g].had \subseteq t
        OBVIOUS
      <4>1. g # f
        BY <1>2
      <4>2. v.flush[g] = flush[g]
        BY <1>2, <4>1
      <4> QED BY <2>1, <2>2, <4>2
    <3>5. ASSUME NEW j \in 1..n, NEW g \in v.calls[j].tell
          PROVE  v.flush[g].st = "waiting" /\ v.flush[g].had \subseteq v.calls[j].blob
      <4>1. kept[j] \in 1..k /\ g \in calls[kept[j]].tell /\ g # f
        BY <1>1, <1>2, <3>5
      <4>2. g \in Flusher
        BY <1>1, <4>1, StoreCallParts
      <4>3. v.flush[g] = flush[g]
        BY <1>2, <4>1, <4>2
      <4> QED BY <1>2, <2>1, <4>1, <4>3
    <3>6. ASSUME NEW i \in 1..n, NEW j \in 1..n, i # j
          PROVE  v.calls[i].tell \cap v.calls[j].tell = {}
      <4>1. kept[i] \in 1..k /\ kept[j] \in 1..k /\ kept[i] # kept[j]
        <5>1. i < j \/ j < i
          BY <1>1, <3>6
        <5>2. kept[i] < kept[j] \/ kept[j] < kept[i]
          BY <1>1, <5>1
        <5> QED BY <1>1, <5>2
      <4>2. calls[kept[i]].tell \cap calls[kept[j]].tell = {}
        BY <2>1, <4>1
      <4> QED BY <1>2, <4>2
    <3> QED BY <1>2, <3>1, <3>2, <3>3, <3>4, <3>5, <3>6 DEF Intact
  <2>4. ASSUME given = {} PROVE Captured(v, t)
    <3>1. \/ rec.dirty \/ rec.doc \subseteq stored
          \/ calls # <<>> /\ calls[k].newest /\ calls[k].blob = rec.doc
      <4>1. Captured(Document, stored)
        BY <1>8, CrdtOrder
      <4> QED BY <4>1, CrdtFacts DEF Captured, k
    <3>2. CASE rec.dirty \/ rec.doc \subseteq stored
      BY <1>2, <2>2, <3>2 DEF Captured
    <3>3. CASE calls # <<>> /\ calls[k].newest /\ calls[k].blob = rec.doc
      <4>1. k \in (1..k) \ given
        BY <1>1, <2>4, <3>3 DEF k
      <4>2. PICK j \in 1..n : kept[j] = k
        BY <1>1, <4>1
      <4>3. n \in 1..n /\ kept[n] = k
        BY <1>1, <1>4, <4>2
      <4>4. v.calls # <<>> /\ v.calls[n].newest /\ v.calls[n].blob = rec.doc
        BY <1>1, <1>2, <3>3, <4>3
      <4> QED BY <1>2, <4>4 DEF Captured
    <3> QED BY <3>1, <3>2, <3>3
  <2> QED BY <2>3, <2>4
<1> QED BY <1>6, <1>7, <1>8

\* The deadline of a flush.
LEMMA DeadlineKeeps ==
  ASSUME CrdtInv, NEW f \in Flusher, Crd!Deadline(f)
  PROVE  CrdtInv'
<1> DEFINE given == {i \in DOMAIN calls : calls[i].waiters = {f}}
           all == [i \in 1..Len(calls) |-> i]
           kept == Without(all, given)
           w == Left(f, kept, given)
<1>1. DOMAIN calls = 1..Len(calls) /\ Len(calls) \in Nat /\ given \in SUBSET (1..Len(calls))
  BY CrdtFacts
<1>2. flush[f].st = "waiting" /\ UNCHANGED <<holder, edits>>
  BY DEF Crd!Deadline
<1>3. Crd!Become(IF given = {} THEN w ELSE Crd!Unstored(w))
  BY <1>1, CrdtNames DEF Crd!Deadline, Crd!LastWaiter, Crd!Abandoned, Left
<1>4. stored' = stored \/ \E i \in given : calls[i].issued /\ stored' = calls[i].blob
  BY DEF Crd!Deadline, Crd!LastWaiter
<1> HIDE DEF given
<1>5. KeptStores(Len(calls), given, kept)
  BY <1>1, StoresKept
<1> HIDE DEF kept
<1>6. LeftMakes(f, kept, given, w)
  <2>1. kept \in Seq(1..Len(calls))
    BY <1>5 DEF KeptStores
  <2> QED BY <2>1, LeftIs
<1> HIDE DEF w
<1>7. /\ WellKept(w, edits) /\ stored' \subseteq 1..edits
      /\ "overlap" \notin waivers =>
            Intact(w, stored', edits) /\ (given = {} => Captured(w, stored'))
  BY <1>1, <1>2, <1>4, <1>5, <1>6, LeftKeeps
<1>8. w.rec = rec /\ w.waivers = waivers
  BY <1>6 DEF LeftMakes
<1>9. CASE given = {}
  BY <1>2, <1>3, <1>7, <1>8, <1>9, CrdtFacts, SameRecord
<1>10. CASE given # {}
  <2> DEFINE v == Crd!Unstored(w)
  <2>1. v = Crd!Unstored(w) /\ Crd!Become(v)
    BY <1>3, <1>10
  <2> HIDE DEF v
  <2>2. rec.topic = "loaded"
    <3>1. calls # <<>>
      <4>1. PICK i \in given : TRUE
        BY <1>10
      <4>2. i \in DOMAIN calls
        BY <1>1, <4>1
      <4> QED BY <4>2
    <3> QED BY <3>1, CrdtFacts
  <2>3. /\ WellKept(v, edits) /\ v.rec.dirty /\ v.rec.timer /\ v.rec.topic = "loaded"
        /\ v.rec.refs = w.rec.refs /\ v.rec.since = w.rec.since /\ v.waivers = w.waivers
        /\ \A s : Intact(w, s, edits) => Intact(v, s, edits) /\ Captured(v, s)
    BY <1>7, <1>8, <2>1, <2>2, UnstoredKeeps
  <2> QED BY <1>2, <1>7, <1>8, <2>1, <2>2, <2>3, CrdtFacts, SameRecord
<1> QED BY <1>9, <1>10

\* The first state is one of them.
LEMMA CrdtStarts ==
  ASSUME Crd!Init
  PROVE  CrdtInv
<1>1. /\ rec = Crd!Cold /\ calls = <<>> /\ holder = [h \in Holder |-> "none"]
      /\ flush = [f \in Flusher |-> Crd!Unasked]
      /\ stored = {} /\ edits = 0 /\ gone = {} /\ waivers = {}
  BY DEF Crd!Init
<1>2. \A f \in Flusher : flush[f].st = "idle" /\ flush \in [Flusher -> Asked]
  BY <1>1 DEF Crd!Unasked, Asked
<1>3. flush \in [Flusher -> Asked]
  BY <1>1 DEF Crd!Unasked, Asked
<1>4. /\ Document \in Docs /\ Document.rec = Crd!Cold /\ Document.calls = <<>>
      /\ Document.flush = flush /\ Document.gone = {}
  <2>1. Document = [rec |-> Crd!Cold, calls |-> <<>>, flush |-> flush, gone |-> {},
                    waivers |-> {}]
    BY <1>1 DEF Document
  <2> QED BY <1>3, <2>1, ColdRecord DEF Docs
<1>5. /\ Held = {} /\ Cardinality(Held) = 0
      /\ holder \in [Holder -> {"none", "joining", "held", "dropped"}]
  <2>1. Held = {}
    BY <1>1 DEF Held
  <2> QED BY <1>1, <2>1, FS_EmptySet
<1>6. /\ edits \in Nat /\ edits \in 0..MaxEdits /\ stored \subseteq 1..edits /\ 1..edits = {}
      /\ Document.gone \subseteq 1..edits
  BY <1>1, <1>4, CrdtConstants
<1>7. /\ WellKept(Document, edits) /\ Single(Document) /\ rec.refs = 0 /\ rec.since = 0
      /\ ~rec.dirty
  BY <1>1, <1>4, <1>6, ColdIsKept
<1>8. Intact(Document, stored, edits) /\ Captured(Document, stored)
  BY <1>2, <1>4, <1>6, ColdIsKept
<1> QED BY <1>5, <1>6, <1>7, <1>8, CrdtConstants DEF CrdtInv

\* Every step keeps the invariant.
LEMMA CrdtNextKeeps ==
  ASSUME CrdtInv, [Crd!Next]_Crd!vars
  PROVE  CrdtInv'
<1>1. CASE UNCHANGED Crd!vars
  BY <1>1 DEF Crd!vars, Crd!crdtVars, CrdtInv, Document, Held, WellKept, Single, Intact, Captured
<1>2. CASE Crd!Next
  <2>1. ASSUME NEW h \in Holder, Crd!Acquire(h) \/ Crd!Release(h) PROVE CrdtInv'
    BY <2>1, AcquireKeeps, ReleaseKeeps
  <2>2. ASSUME Crd!Load \/ Crd!LoadFails \/ Crd!Drop PROVE CrdtInv'
    BY <2>2, LoadKeeps, LoadFailsKeeps, DropKeeps
  <2>3. ASSUME Crd!ApplyUpdate \/ Crd!TimerFires PROVE CrdtInv'
    BY <2>3, UpdateKeeps, TimerKeeps
  <2>4. ASSUME Crd!Answers PROVE CrdtInv'
    BY <2>4, SettleKeeps DEF Crd!Answers
  <2>5. ASSUME NEW f \in Flusher, Crd!PersistNow(f) \/ Crd!Deadline(f) PROVE CrdtInv'
    BY <2>5, PersistKeeps, DeadlineKeeps
  <2> QED BY <1>2, <2>1, <2>2, <2>3, <2>4, <2>5 DEF Crd!Next
<1> QED BY <1>1, <1>2

\* It implies the property.
LEMMA CrdtImplies ==
  ASSUME CrdtInv
  PROVE  NoEditIsLost
<1>1. /\ rec \in Record /\ calls \in Seq(StoreCall) /\ flush \in [Flusher -> Asked]
      /\ waivers \in SUBSET {"overlap", "stolen"} /\ DOMAIN calls = 1..Len(calls)
      /\ rec.since \in Nat /\ rec.refs \in Nat /\ rec.doc \in SUBSET Edit
      /\ rec.topic \in {"absent", "loading", "loaded"}
      /\ stored \subseteq 1..edits /\ gone \subseteq 1..edits
      /\ holder \in [Holder -> {"none", "joining", "held", "dropped"}]
  BY CrdtFacts, CrdtOrder, RecordParts DEF WellKept
<1>2. rec.refs \in 0..Cardinality(Holder)
  <2>1. Held \in SUBSET Holder
    BY DEF Held
  <2>2. Cardinality(Held) <= Cardinality(Holder) /\ Cardinality(Holder) \in Nat
    BY <2>1, CrdtConstants, FS_Subset, FS_CardinalityType
  <2> QED BY <1>1, <2>2, CrdtFacts, HeldCount
<1>3. rec.since \in 0..SnapshotEvery
  BY <1>1, CrdtFacts, CrdtConstants
<1>4. \A i \in DOMAIN calls : calls[i].newest => i = Len(calls)
  BY <1>1, CrdtFacts, CrdtOrder DEF WellKept
<1>5. CrdtTypeOK
  BY <1>1, <1>2, <1>3, <1>4, CrdtFacts DEF CrdtTypeOK, Asked
<1>6. ASSUME "overlap" \notin waivers
      PROVE  /\ 1..edits \subseteq stored \cup gone \cup rec.doc
             /\ \/ rec.doc \subseteq stored
                \/ rec.dirty /\ rec.timer
                \/ \E i \in DOMAIN calls : calls[i].newest /\ calls[i].blob = rec.doc
             /\ \A f \in Flusher : flush[f].st = "ok" => flush[f].had \subseteq stored
  <2>1. Intact(Document, stored, edits) /\ Captured(Document, stored)
    BY <1>6, CrdtOrder
  <2>2. /\ 1..edits \subseteq stored \cup gone \cup rec.doc
        /\ \A f \in Flusher : flush[f].st = "ok" => flush[f].had \subseteq stored
    BY <2>1, CrdtFacts DEF Intact
  <2>3. \/ rec.dirty \/ rec.doc \subseteq stored
        \/ calls # <<>> /\ calls[Len(calls)].newest /\ calls[Len(calls)].blob = rec.doc
    BY <2>1, CrdtFacts DEF Captured
  <2>4. calls # <<>> => Len(calls) \in DOMAIN calls
    BY <1>1
  <2> QED BY <2>2, <2>3, <2>4, CrdtFacts
<1>7. ASSUME "stolen" \notin waivers
      PROVE  /\ rec.refs = Cardinality({h \in Holder : holder[h] = "held"})
             /\ \A h \in Holder : holder[h] = "held" => rec.topic = "loaded"
  BY <1>7, CrdtOrder DEF Held
<1> QED BY <1>5, <1>6, <1>7 DEF NoEditIsLost

\* No edit is lost to the order in which stores settle, fail, are declined or are given up,
\* nor to a replica unloaded too early: at every moment each edit the replica accepted is in
\* the backend, erased on purpose, or in the replica, and what the backend lacks is in the
\* newest store or waits for a timer; a flush that reported ok covers what it was called for.
THEOREM EditsAreNeverLost == Crd!Spec => []NoEditIsLost
<1>1. Crd!Init => CrdtInv
  BY CrdtStarts
<1>2. CrdtInv /\ [Crd!Next]_Crd!vars => CrdtInv'
  BY CrdtNextKeeps
<1>3. CrdtInv => NoEditIsLost
  BY CrdtImplies
<1> QED BY <1>1, <1>2, <1>3, PTL DEF Crd!Spec

-----------------------------------------------------------------------------
(* The presence plugin.  The invariant speaks of one user at a time: of the *)
(* entry of the user, of the change that waits and of what a client shows.  *)

Datas    == {0} \cup {Profile[s] : s \in Socket}
Entries  == [count : Nat, data : Datas, fields : Fields]
Changes  == [op : {"none", "join", "leave", "update"}, changed : SUBSET Field, fields : Fields]
Views    == [here : BOOLEAN, data : Datas, fields : Fields, age : Nat]
Trackers == [joined : SUBSET Socket, users : [User -> Entries], observed : SUBSET Socket,
             channel : SUBSET Socket, pending : [User -> Changes]]

\* The change that waits agrees with the entry it will be published for.
Sane(e, d) ==
    /\ d.op = "leave" => e.count = 0
    /\ d.op = "none" => d.changed = {}
    /\ d.op = "update" /\ e.count > 0 => \A f \in d.changed : d.fields[f] = e.fields[f]

\* What a client shows, but for what the change that waits will put right.
TrueView(e, d, v) ==
    /\ d.op \in {"none", "update"} => (v.here <=> e.count > 0)
    /\ d.op = "join" /\ e.count = 0 => ~v.here
    /\ d.op \in {"none", "update"} /\ v.here =>
         /\ v.data = e.data /\ v.age = 0
         /\ "status" \in d.changed \/ v.fields["status"] = e.fields["status"]
         /\ "typing" \in d.changed \/ v.fields["typing"] <= e.fields["typing"]

\* A step of the entry and of its change, after which no view is wrong that was true.
Follows(e, d, e2, d2) ==
    Sane(e, d) => /\ Sane(e2, d2)
                  /\ \A v \in Views : TrueView(e, d, v) => TrueView(e2, d2, v)

AllFollow(p, q) == \A u \in User : Follows(p.users[u], p.pending[u], q.users[u], q.pending[u])
AllSane(p) == \A u \in User : Sane(p.users[u], p.pending[u])

By(p, u) == {s \in p.joined : owner[s] = u}
Counted(p) ==
    \A u \in User : IF evicted THEN p.users[u].count <= Cardinality(By(p, u))
                    ELSE p.users[u].count = Cardinality(By(p, u))
Heard(p, c) ==
    /\ p.joined \cup (p.observed \ c) \subseteq p.channel
    /\ ~evicted => p.channel \subseteq p.joined \cup p.observed

PresenceInv ==
    /\ owner \in [Socket -> User]
    /\ tracker \in Trackers
    /\ shown \in [Socket -> [User -> Views]]
    /\ lostFrames \in [Socket -> SUBSET User]
    /\ cut \subseteq Socket /\ evicted \in BOOLEAN
    /\ Counted(tracker) /\ Heard(tracker, cut) /\ AllSane(tracker)
    /\ \A s \in tracker.channel : \A u \in User \ lostFrames[s] :
         TrueView(tracker.users[u], tracker.pending[u], shown[s][u])

-----------------------------------------------------------------------------
(* The steps of one user.                                                   *)

\* The records of a user have their types.
LEMMA PresenceRecords ==
    /\ Blank \in Fields /\ NoEntry \in Entries /\ NoChange \in Changes /\ Unseen \in Views
    /\ NoTracker \in Trackers
<1>1. Blank \in Fields
  BY DEF Blank, Fields, Field
<1>2. NoEntry \in Entries /\ NoChange \in Changes /\ Unseen \in Views
  BY <1>1 DEF NoEntry, Entries, NoChange, Changes, Unseen, Views, Datas
<1>3. NoTracker \in Trackers
  BY <1>2 DEF NoTracker, Trackers
<1>4. QED BY <1>1, <1>2, <1>3

\* The parts of an entry, each of its type.
LEMMA EntryParts ==
  ASSUME NEW e \in Entries
  PROVE  /\ e = [count |-> e.count, data |-> e.data, fields |-> e.fields]
         /\ e.count \in Nat /\ e.data \in Datas /\ e.fields \in Fields
BY DEF Entries

\* Another count and other data, with the same fields.
LEMMA EntryReplaced ==
  ASSUME NEW e \in Entries, NEW n, NEW x, NEW f, f = [e EXCEPT !.count = n, !.data = x]
  PROVE  f = [count |-> n, data |-> x, fields |-> e.fields]
<1>1. e = [count |-> e.count, data |-> e.data, fields |-> e.fields]
  BY EntryParts
<1> QED BY <1>1

\* The parts of a tracker, each of its type.
LEMMA TrackerParts ==
  ASSUME NEW p \in Trackers
  PROVE  /\ p = [joined |-> p.joined, users |-> p.users, observed |-> p.observed,
                 channel |-> p.channel, pending |-> p.pending]
         /\ p.joined \subseteq Socket /\ p.observed \subseteq Socket /\ p.channel \subseteq Socket
         /\ p.users \in [User -> Entries] /\ p.pending \in [User -> Changes]
BY DEF Trackers

\* A user who keeps a socket keeps the change that waits.
LEMMA OneSocketLess ==
  ASSUME NEW e \in Entries, NEW d \in Changes, e.count > 1
  PROVE  /\ [e EXCEPT !.count = @ - 1] \in Entries
         /\ Follows(e, d, [e EXCEPT !.count = @ - 1], d)
<1>1. [e EXCEPT !.count = @ - 1] \in Entries
  BY DEF Entries
<1>2. QED BY <1>1 DEF Follows, Sane, TrueView, Entries, Changes, Views

\* A user who leaves is news, whatever the clients show.
LEMMA LastSocketLess ==
  ASSUME NEW e, NEW d
  PROVE  Follows(e, d, NoEntry, [NoChange EXCEPT !.op = "leave"])
BY DEF Follows, Sane, TrueView, NoEntry, NoChange

\* A user who gains a socket and keeps the data keeps the change that waits.
LEMMA OneSocketMore ==
  ASSUME NEW e \in Entries, NEW d \in Changes, NEW x \in Datas, e.count > 0, e.data = x
  PROVE  LET f == [e EXCEPT !.count = @ + 1, !.data = x] IN f \in Entries /\ Follows(e, d, f, d)
<1> DEFINE f == [e EXCEPT !.count = @ + 1, !.data = x]
<1>1. f \in Entries /\ f.count = e.count + 1 /\ f.data = e.data /\ f.fields = e.fields
  <2>1. f = [count |-> e.count + 1, data |-> x, fields |-> e.fields]
    BY EntryReplaced
  <2>2. e.count + 1 \in Nat /\ e.fields \in Fields
    BY EntryParts
  <2> HIDE DEF f
  <2>3. QED BY <2>1, <2>2 DEF Entries
<1> HIDE DEF f
<1>2. Follows(e, d, f, d)
  BY <1>1 DEF Follows, Sane, TrueView, Entries, Changes, Views
<1>3. QED BY <1>1, <1>2 DEF f

\* A user who arrives, or whose data change, is news.
LEMMA FirstSocketMore ==
  ASSUME NEW e \in Entries, NEW d \in Changes, NEW x \in Datas
  PROVE  LET f == [e EXCEPT !.count = @ + 1, !.data = x]
         IN f \in Entries /\ Follows(e, d, f, [NoChange EXCEPT !.op = "join"])
<1> DEFINE f == [e EXCEPT !.count = @ + 1, !.data = x]
<1>1. f \in Entries /\ f.count = e.count + 1
  <2>1. f = [count |-> e.count + 1, data |-> x, fields |-> e.fields]
    BY EntryReplaced
  <2>2. e.count + 1 \in Nat /\ e.fields \in Fields
    BY EntryParts
  <2> HIDE DEF f
  <2>3. QED BY <2>1, <2>2 DEF Entries
<1> HIDE DEF f
<1>2. Follows(e, d, f, [NoChange EXCEPT !.op = "join"])
  BY <1>1 DEF Follows, Sane, TrueView, Entries, NoChange
<1>3. QED BY <1>1, <1>2 DEF f

\* The change that waits after an update of a field.
Waits(d, f, v) ==
    IF d.op \in {"join", "leave"} THEN d
    ELSE [op |-> "update", changed |-> d.changed \cup {f}, fields |-> [d.fields EXCEPT ![f] = v]]

\* An update of a field waits with the value it has now.
LEMMA FieldUpdate ==
  ASSUME NEW e \in Entries, NEW d \in Changes, NEW f \in Field, NEW v \in {0, 1}, e.count > 0
  PROVE  LET e2 == [e EXCEPT !.fields = [@ EXCEPT ![f] = v]]
         IN /\ e2 \in Entries /\ Waits(d, f, v) \in Changes
            /\ Follows(e, d, e2, Waits(d, f, v))
<1> DEFINE e2 == [e EXCEPT !.fields = [@ EXCEPT ![f] = v]]
           d2 == Waits(d, f, v)
<1>1. /\ e2 \in Entries /\ e2.count = e.count /\ e2.data = e.data
      /\ e2.fields = [e.fields EXCEPT ![f] = v]
  BY DEF Entries, Fields
<1>2. e.fields \in [Field -> {0, 1}] /\ d.fields \in [Field -> {0, 1}]
  BY DEF Entries, Changes, Fields
<1>3. e2.fields[f] = v /\ \A g \in Field : g # f => e2.fields[g] = e.fields[g]
  BY <1>1, <1>2
<1>4. CASE d.op \in {"join", "leave"}
  <2>1. d2 = d
    BY <1>4 DEF Waits
  <2> HIDE DEF e2, d2
  <2>2. Follows(e, d, e2, d2)
    BY <1>1, <1>4, <2>1 DEF Follows, Sane, TrueView
  <2>3. QED BY <1>1, <2>1, <2>2 DEF e2, d2
<1>5. CASE d.op \notin {"join", "leave"}
  <2>1. /\ d2.op = "update" /\ d2.changed = d.changed \cup {f}
        /\ d2.fields = [d.fields EXCEPT ![f] = v] /\ d2 \in Changes
    BY <1>5 DEF Waits, Changes, Fields
  <2>2. d2.fields[f] = v /\ \A g \in Field : g # f => d2.fields[g] = d.fields[g]
    BY <1>2, <2>1
  <2>3. d.op \in {"none", "update"} /\ d.changed \subseteq Field
    BY <1>5 DEF Changes
  <2> HIDE DEF e2, d2
  <2>4. Sane(e, d) => Sane(e2, d2)
    BY <1>1, <1>3, <2>1, <2>2, <2>3 DEF Sane
  <2>5. ASSUME NEW w \in Views, TrueView(e, d, w) PROVE TrueView(e2, d2, w)
    BY <1>1, <1>3, <2>1, <2>3, <2>5 DEF TrueView, Field
  <2>6. QED BY <1>1, <2>1, <2>4, <2>5 DEF e2, d2, Follows
<1>6. QED BY <1>4, <1>5
-----------------------------------------------------------------------------
(* What the calls make of the tracker.                                      *)

\* Nothing changes for whom nothing changes.
LEMMA FollowsItself == ASSUME NEW e, NEW d PROVE Follows(e, d, e, d)
BY DEF Follows

\* One change after another.
LEMMA FollowsOn ==
  ASSUME NEW p, NEW q, NEW r, AllFollow(p, q), AllFollow(q, r)
  PROVE  AllFollow(p, r)
BY DEF AllFollow, Follows

\* What is sane stays sane.
LEMMA SaneOn == ASSUME NEW p, NEW q, AllFollow(p, q), AllSane(p) PROVE AllSane(q)
BY DEF AllFollow, Follows, AllSane

\* Only the entry and the change of one user are others.
OnlyOf(p, q, u) ==
    /\ q.users \in [User -> Entries] /\ q.pending \in [User -> Changes]
    /\ \A w \in User \ {u} : q.users[w] = p.users[w] /\ q.pending[w] = p.pending[w]

\* Then no view becomes wrong, if none becomes wrong about that user.
LEMMA OneUserFollows ==
  ASSUME NEW p, NEW q, NEW u \in User, OnlyOf(p, q, u),
         Follows(p.users[u], p.pending[u], q.users[u], q.pending[u])
  PROVE  AllFollow(p, q)
<1>1. ASSUME NEW w \in User
      PROVE  Follows(p.users[w], p.pending[w], q.users[w], q.pending[w])
  <2>1. CASE w = u
    BY <2>1
  <2>2. CASE w # u
    <3>1. q.users[w] = p.users[w] /\ q.pending[w] = p.pending[w]
      BY <2>2 DEF OnlyOf
    <3>2. QED BY <3>1, FollowsItself
  <2>3. QED BY <2>1, <2>2
<1>2. QED BY <1>1 DEF AllFollow

\* What is left of p when s has left it.
LeftBy(p, s, q) ==
    /\ q \in Trackers /\ AllFollow(p, q)
    /\ q.joined = p.joined \ {s} /\ q.observed = p.observed
    /\ q.channel \subseteq p.channel /\ p.channel \ ({s} \ p.observed) \subseteq q.channel
    /\ \A u \in User : IF u = owner[s] /\ s \in p.joined /\ p.users[u].count > 0
                       THEN q.users[u].count = p.users[u].count - 1 ELSE q.users[u] = p.users[u]
    /\ s \in p.joined \ p.observed /\ p.users[owner[s]].count > 0 => s \notin q.channel

\* leaveTopic leaves that.
LEMMA LeaveTopicIs ==
  ASSUME NEW p \in Trackers, NEW s \in Socket, owner \in [Socket -> User]
  PROVE  LeftBy(p, s, LeaveTopic(p, s))
<1> DEFINE u == owner[s]
           o == [p EXCEPT !.joined = @ \ {s}]
           q == LeaveTopic(p, s)
<1>1. u \in User
  OBVIOUS
<1>2. /\ p.joined \subseteq Socket /\ p.observed \subseteq Socket /\ p.channel \subseteq Socket
      /\ p.users \in [User -> Entries] /\ p.pending \in [User -> Changes]
  BY TrackerParts
<1>3. /\ o = [joined |-> p.joined \ {s}, users |-> p.users, observed |-> p.observed,
              channel |-> p.channel, pending |-> p.pending]
  BY SMTT(30), TrackerParts
<1>4. p.users[u] \in Entries /\ p.pending[u] \in Changes /\ p.users[u].count \in Nat
  BY <1>1, <1>2, EntryParts
<1>5. CASE s \notin p.joined
  <2>1. q = p
    BY <1>5 DEF LeaveTopic
  <2>2. AllFollow(p, p)
    BY FollowsItself DEF AllFollow
  <2> HIDE DEF q
  <2>3. QED BY <1>5, <2>1, <2>2 DEF LeftBy, q
<1>6. CASE s \in p.joined /\ p.users[u].count = 0
  <2>1. q = o
    BY <1>6 DEF LeaveTopic
  <2>2. AllFollow(p, o)
    BY <1>3, FollowsItself DEF AllFollow
  <2>3. o \in Trackers
    BY <1>2, <1>3 DEF Trackers
  <2> HIDE DEF q, o
  <2>4. QED BY <1>3, <1>6, <2>1, <2>2, <2>3 DEF LeftBy, q
<1>7. CASE s \in p.joined /\ p.users[u].count > 0
  <2> DEFINE d == Discount(o, u)
             kept == p.channel \ ({s} \ p.observed)
  <2>1. q = [d EXCEPT !.channel = @ \ ({s} \ p.observed)]
    BY <1>7 DEF LeaveTopic
  <2>2. o.users = p.users /\ o.pending = p.pending
    BY <1>3
  <2>3. CASE p.users[u].count > 1
    <3> DEFINE e == [p.users[u] EXCEPT !.count = @ - 1]
               us == [p.users EXCEPT ![u] = e]
    <3>1. d = [o EXCEPT !.users[u].count = @ - 1]
      BY <2>2, <2>3 DEF Discount
    <3>2. d = [joined |-> p.joined \ {s}, users |-> us, observed |-> p.observed,
               channel |-> p.channel, pending |-> p.pending]
      BY <1>1, <1>2, <1>3, <3>1
    <3>3. q = [joined |-> p.joined \ {s}, users |-> us, observed |-> p.observed,
               channel |-> kept, pending |-> p.pending]
      <4> HIDE DEF d, q
      <4>1. QED BY <2>1, <3>2
    <3>4. e \in Entries /\ Follows(p.users[u], p.pending[u], e, p.pending[u])
      BY <1>4, <2>3, OneSocketLess
    <3>5. e.count = p.users[u].count - 1
      BY <1>4 DEF Entries
    <3> HIDE DEF e
    <3>7. /\ q.users = [p.users EXCEPT ![u] = e] /\ q.pending = p.pending
      <4> HIDE DEF q
      <4>1. QED BY <3>3
    <3> HIDE DEF q
    <3>8. OnlyOf(p, q, u) /\ q.users[u] = e
      BY <1>1, <1>2, <3>4, <3>7 DEF OnlyOf
    <3>9. AllFollow(p, q)
      BY <1>1, <3>4, <3>7, <3>8, OneUserFollows
    <3>10. q \in Trackers
      BY <1>2, <3>3, <3>8 DEF Trackers, OnlyOf
    <3>11. QED BY <1>7, <3>3, <3>5, <3>8, <3>9, <3>10 DEF LeftBy, q, OnlyOf
  <2>4. CASE p.users[u].count = 1
    <3> DEFINE c == [NoChange EXCEPT !.op = "leave"]
               us == [p.users EXCEPT ![u] = NoEntry]
               pe == [p.pending EXCEPT ![u] = c]
    <3>1. d = [[o EXCEPT !.users[u] = NoEntry] EXCEPT !.pending[u] = c]
      BY <2>2, <2>4 DEF Discount, BufferDiff
    <3>2. d = [joined |-> p.joined \ {s}, users |-> us, observed |-> p.observed,
               channel |-> p.channel, pending |-> pe]
      BY <1>1, <1>2, <1>3, <3>1
    <3>3. q = [joined |-> p.joined \ {s}, users |-> us, observed |-> p.observed,
               channel |-> kept, pending |-> pe]
      <4> HIDE DEF d, q
      <4>1. QED BY <2>1, <3>2
    <3>4. c \in Changes /\ NoEntry \in Entries /\ NoEntry.count = 0
      BY PresenceRecords DEF NoChange, Changes, NoEntry
    <3>5. Follows(p.users[u], p.pending[u], NoEntry, c)
      BY LastSocketLess
    <3> HIDE DEF c
    <3>6. q.users = us /\ q.pending = pe
      <4> HIDE DEF q, us, pe
      <4>1. QED BY <3>3
    <3> HIDE DEF q
    <3>7. OnlyOf(p, q, u) /\ q.users[u] = NoEntry /\ q.pending[u] = c
      BY <1>1, <1>2, <3>4, <3>6 DEF OnlyOf
    <3>8. AllFollow(p, q)
      BY <1>1, <3>5, <3>7, OneUserFollows
    <3>9. q \in Trackers
      BY <1>2, <3>3, <3>7 DEF Trackers, OnlyOf
    <3>10. QED BY <1>7, <2>4, <3>3, <3>4, <3>7, <3>8, <3>9 DEF LeftBy, q, OnlyOf
  <2>5. QED BY <1>4, <1>7, <2>3, <2>4
<1>8. QED BY <1>4, <1>5, <1>6, <1>7

\* What becomes of p when s joins it.
JoinedBy(p, s, q) ==
    /\ q \in Trackers /\ AllFollow(p, q)
    /\ q.joined = p.joined \cup {s} /\ q.observed = p.observed /\ q.channel = p.channel
    /\ \A u \in User : q.users[u].count = IF u = owner[s] THEN p.users[u].count + 1
                                          ELSE p.users[u].count

\* Count does that.
LEMMA CountIs ==
  ASSUME NEW p \in Trackers, NEW s \in Socket, owner \in [Socket -> User]
  PROVE  JoinedBy(p, s, Count(p, s))
<1> DEFINE u == owner[s]
           x == Profile[s]
           e == [p.users[u] EXCEPT !.count = @ + 1, !.data = x]
           us == [p.users EXCEPT ![u] = e]
           o == [p EXCEPT !.joined = @ \cup {s}, !.users[u] = e]
           q == Count(p, s)
<1>1. u \in User /\ x \in Datas
  BY DEF Datas
<1>2. /\ p.joined \subseteq Socket /\ p.observed \subseteq Socket /\ p.channel \subseteq Socket
      /\ p.users \in [User -> Entries] /\ p.pending \in [User -> Changes]
  BY TrackerParts
<1>3. p.users[u] \in Entries /\ p.pending[u] \in Changes /\ p.users[u].count \in Nat
  BY <1>1, <1>2, EntryParts
<1>4. e = [count |-> p.users[u].count + 1, data |-> x, fields |-> p.users[u].fields]
  BY ZenonT(60), <1>3, EntryReplaced
<1>5. e \in Entries /\ e.count = p.users[u].count + 1
  <2>1. p.users[u].count + 1 \in Nat /\ p.users[u].fields \in Fields
    BY <1>3, EntryParts
  <2> HIDE DEF e
  <2>2. QED BY <1>1, <1>4, <2>1 DEF Entries
<1>6. o = [joined |-> p.joined \cup {s}, users |-> us, observed |-> p.observed,
           channel |-> p.channel, pending |-> p.pending]
  <2>1. p = [joined |-> p.joined, users |-> p.users, observed |-> p.observed,
             channel |-> p.channel, pending |-> p.pending]
    BY TrackerParts
  <2> HIDE DEF e
  <2>2. ASSUME NEW v, v = [p EXCEPT !.joined = @ \cup {s}, !.users[u] = e]
        PROVE  v = [joined |-> p.joined \cup {s}, users |-> us, observed |-> p.observed,
                    channel |-> p.channel, pending |-> p.pending]
    BY <2>1, <2>2
  <2>3. QED BY <2>2
<1>7. \A w \in User \ {u} : us[w] = p.users[w]
  BY <1>2
<1>8. us \in [User -> Entries] /\ us[u] = e
  <2> HIDE DEF e
  <2>1. QED BY <1>1, <1>2, <1>5
<1>9. CASE u \in Present(p) /\ p.users[u].data = x
  <2>1. q = o
    BY <1>9 DEF Count
  <2>2. Follows(p.users[u], p.pending[u], e, p.pending[u])
    BY <1>1, <1>3, <1>9, OneSocketMore DEF Present
  <2> HIDE DEF q, o, us, e
  <2>3. OnlyOf(p, q, u) /\ q.users[u] = e /\ q.pending[u] = p.pending[u]
    BY <1>2, <1>6, <1>7, <1>8, <2>1 DEF OnlyOf
  <2>4. AllFollow(p, q)
    BY <1>1, <2>2, <2>3, OneUserFollows
  <2>5. q \in Trackers
    BY <1>2, <1>6, <2>1, <2>3 DEF Trackers, OnlyOf
  <2>6. QED BY <1>5, <1>6, <2>1, <2>3, <2>4, <2>5 DEF JoinedBy, OnlyOf, q
<1>10. CASE ~(u \in Present(p) /\ p.users[u].data = x)
  <2> DEFINE c == [NoChange EXCEPT !.op = "join"]
             pe == [p.pending EXCEPT ![u] = c]
  <2>1. q = BufferDiff(o, u, "join")
    BY <1>10 DEF Count
  <2>2. q = [o EXCEPT !.pending[u] = c]
    BY <2>1 DEF BufferDiff
  <2>3. c \in Changes
    BY PresenceRecords DEF NoChange, Changes
  <2>4. Follows(p.users[u], p.pending[u], e, c)
    BY <1>1, <1>3, FirstSocketMore
  <2> HIDE DEF q, o, us, e, c
  <2>5. q = [joined |-> p.joined \cup {s}, users |-> us, observed |-> p.observed,
             channel |-> p.channel, pending |-> pe]
    BY <1>2, <1>6, <2>2
  <2>6. q.users = us /\ q.pending = pe
    BY <2>5
  <2>7. OnlyOf(p, q, u) /\ q.users[u] = e /\ q.pending[u] = c
    BY <1>1, <1>2, <1>7, <1>8, <2>3, <2>6 DEF OnlyOf
  <2>8. AllFollow(p, q)
    BY <1>1, <2>4, <2>7, OneUserFollows
  <2>9. q \in Trackers
    BY <1>2, <2>5, <2>7 DEF Trackers, OnlyOf
  <2>10. QED BY <1>5, <2>5, <2>7, <2>8, <2>9 DEF JoinedBy, OnlyOf, q
<1>11. QED BY <1>9, <1>10

\* A finite set without one of its members has one member less.
LEMMA OneLess ==
  ASSUME NEW S, IsFiniteSet(S), NEW x \in S
  PROVE  Cardinality(S \ {x}) = Cardinality(S) - 1
BY FS_RemoveElement

\* Counts stay exact when a socket leaves.
LEMMA LeaveCounted ==
  ASSUME NEW p \in Trackers, NEW s \in Socket, NEW q, owner \in [Socket -> User],
         LeftBy(p, s, q), Counted(p)
  PROVE  Counted(q)
<1>1. ASSUME NEW u \in User
      PROVE  IF evicted THEN q.users[u].count <= Cardinality(By(q, u))
             ELSE q.users[u].count = Cardinality(By(q, u))
  <2>1. IsFiniteSet(By(p, u)) /\ Cardinality(By(p, u)) \in Nat
    <3>1. By(p, u) \subseteq Socket
      BY TrackerParts DEF By
    <3>2. QED BY <3>1, PresenceAssumption, FS_Subset, FS_CardinalityType DEF PresenceAssumption
  <2>2. p.users[u].count \in Nat
    BY TrackerParts, EntryParts
  <2>3. CASE u = owner[s] /\ s \in p.joined
    <3>1. By(q, u) = By(p, u) \ {s} /\ s \in By(p, u)
      BY <2>3 DEF LeftBy, By
    <3>2. Cardinality(By(q, u)) = Cardinality(By(p, u)) - 1
      <4>1. IsFiniteSet(By(p, u)) /\ s \in By(p, u)
        BY <2>1, <3>1
      <4>2. Cardinality(By(p, u) \ {s}) = Cardinality(By(p, u)) - 1
        BY ONLY <4>1, OneLess
      <4> QED BY <3>1, <4>2
    <3>3. IF p.users[u].count > 0 THEN q.users[u].count = p.users[u].count - 1
          ELSE q.users[u].count = p.users[u].count
      BY <2>3 DEF LeftBy
    <3>4. Cardinality(By(p, u)) > 0
      BY <2>1, <3>1, FS_EmptySet
    <3>5. IF evicted THEN p.users[u].count <= Cardinality(By(p, u))
          ELSE p.users[u].count = Cardinality(By(p, u))
      BY DEF Counted
    <3>6. QED BY <2>1, <2>2, <3>2, <3>3, <3>4, <3>5
  <2>4. CASE ~(u = owner[s] /\ s \in p.joined)
    <3>1. By(q, u) = By(p, u)
      BY <2>4 DEF LeftBy, By
    <3>2. q.users[u] = p.users[u]
      BY <2>4 DEF LeftBy
    <3>3. QED BY <3>1, <3>2 DEF Counted
  <2>5. QED BY <2>3, <2>4
<1>2. QED BY <1>1 DEF Counted

\* Counts stay exact when a socket joins.
LEMMA JoinCounted ==
  ASSUME NEW p \in Trackers, NEW s \in Socket, NEW q, owner \in [Socket -> User],
         JoinedBy(p, s, q), Counted(p), s \notin p.joined
  PROVE  Counted(q)
<1>1. ASSUME NEW u \in User
      PROVE  IF evicted THEN q.users[u].count <= Cardinality(By(q, u))
             ELSE q.users[u].count = Cardinality(By(q, u))
  <2>1. IsFiniteSet(By(p, u)) /\ Cardinality(By(p, u)) \in Nat
    <3>1. By(p, u) \subseteq Socket
      BY TrackerParts DEF By
    <3>2. QED BY <3>1, PresenceAssumption, FS_Subset, FS_CardinalityType DEF PresenceAssumption
  <2>2. p.users[u].count \in Nat
    BY TrackerParts, EntryParts
  <2>3. IF evicted THEN p.users[u].count <= Cardinality(By(p, u))
        ELSE p.users[u].count = Cardinality(By(p, u))
    BY DEF Counted
  <2>4. CASE u = owner[s]
    <3>1. By(q, u) = By(p, u) \cup {s} /\ s \notin By(p, u)
      BY <2>4 DEF JoinedBy, By
    <3>2. Cardinality(By(q, u)) = Cardinality(By(p, u)) + 1
      BY <2>1, <3>1, FS_AddElement
    <3>3. q.users[u].count = p.users[u].count + 1
      BY <2>4 DEF JoinedBy
    <3>4. QED BY <2>1, <2>2, <2>3, <3>2, <3>3
  <2>5. CASE u # owner[s]
    <3>1. By(q, u) = By(p, u)
      BY <2>5 DEF JoinedBy, By
    <3>2. q.users[u].count = p.users[u].count
      BY <2>5 DEF JoinedBy
    <3>3. QED BY <2>3, <3>1, <3>2
  <2>6. QED BY <2>4, <2>5
<1>2. QED BY <1>1 DEF Counted

-----------------------------------------------------------------------------
(* The frames.                                                              *)

\* What is sent of a user who is there is a view, and a true one.
LEMMA PublicDataIs ==
  ASSUME NEW e \in Entries, NEW d, e.count > 0
  PROVE  PublicData(e) \in Views /\ TrueView(e, d, PublicData(e))
<1> DEFINE v == PublicData(e)
<1>1. e.data \in Datas /\ e.fields \in [Field -> {0, 1}]
  BY EntryParts DEF Fields
<1>2. v = [here |-> TRUE, data |-> e.data, fields |-> [e.fields EXCEPT !["typing"] = 0], age |-> 0]
  BY DEF PublicData
<1>3. [e.fields EXCEPT !["typing"] = 0] \in Fields
  BY <1>1 DEF Fields, Field
<1>4. /\ v.fields["typing"] = 0 /\ v.fields["status"] = e.fields["status"]
      /\ e.fields["typing"] \in {0, 1}
  BY <1>1, <1>2 DEF Field
<1> HIDE DEF v
<1>5. v.here /\ v.data = e.data /\ v.age = 0
  BY <1>2
<1>6. v \in Views
  BY <1>1, <1>2, <1>3 DEF Views
<1>7. TrueView(e, d, v)
  BY <1>4, <1>5 DEF TrueView
<1>8. QED BY <1>6, <1>7 DEF v

\* So is a snapshot.
LEMMA SnapshotIs ==
  ASSUME NEW p \in Trackers, NEW u \in User
  PROVE  /\ Snapshot(p)[u] \in Views
         /\ TrueView(p.users[u], p.pending[u], Snapshot(p)[u])
<1> DEFINE e == p.users[u]
           d == p.pending[u]
           v == Snapshot(p)[u]
<1>1. e \in Entries /\ e.count \in Nat
  BY TrackerParts, EntryParts
<1>2. v = IF u \in Present(p) THEN PublicData(e) ELSE Unseen
  BY DEF Snapshot
<1>3. u \in Present(p) <=> e.count > 0
  BY DEF Present
<1> HIDE DEF v, e, d
<1>4. CASE u \in Present(p)
  BY <1>1, <1>2, <1>3, <1>4, PublicDataIs DEF v, e, d
<1>5. CASE u \notin Present(p)
  <2>1. TrueView(e, d, v)
    BY <1>1, <1>2, <1>3, <1>5 DEF TrueView, Unseen
  <2>2. QED BY <1>2, <1>5, <2>1, PresenceRecords DEF v, e, d
<1>6. QED BY <1>4, <1>5

\* The tracker becomes q, of which those who go on listening know what they knew of it.
LEMMA BecomeKeeps ==
  ASSUME NEW q \in Trackers, NEW fresh \in SUBSET Socket, PresenceInv, Become(q, fresh),
         AllFollow(tracker, q), Counted(q), Heard(q, cut'), cut' \subseteq Socket,
         q.channel \subseteq tracker.channel \cup fresh, UNCHANGED <<owner, evicted>>
  PROVE  PresenceInv'
<1>1. tracker' = q
  BY DEF Become
<1>2. shown' \in [Socket -> [User -> Views]]
  <2>1. ASSUME NEW s \in Socket PROVE shown'[s] \in [User -> Views]
    <3>1. Snapshot(q) \in [User -> Views]
      <4>1. Snapshot(q) = [u \in User |-> Snapshot(q)[u]]
        BY DEF Snapshot
      <4>2. QED BY <4>1, SnapshotIs
    <3>2. Nothing \in [User -> Views]
      BY PresenceRecords DEF Nothing
    <3>3. shown[s] \in [User -> Views]
      BY DEF PresenceInv
    <3>4. QED BY <3>1, <3>2, <3>3 DEF Become
  <2>2. shown' = [s \in Socket |-> shown'[s]]
    BY DEF Become
  <2>3. QED BY <2>1, <2>2
<1>3. lostFrames' \in [Socket -> SUBSET User]
  BY DEF PresenceInv, Become
<1>4. Counted(tracker)' /\ Heard(tracker, cut)'
  <2>3. Counted(tracker)'
    <3>1. \A u \in User : IF evicted THEN q.users[u].count <= Cardinality(By(q, u))
                          ELSE q.users[u].count = Cardinality(By(q, u))
      BY DEF Counted
    <3>2. QED BY <1>1, <3>1 DEF Counted, By
  <2>4. Heard(tracker, cut)'
    BY <1>1 DEF Heard
  <2>5. QED BY <2>3, <2>4
<1>5. AllSane(tracker)'
  <2>1. AllSane(q)
    BY SaneOn DEF PresenceInv
  <2>2. QED BY <1>1, <2>1 DEF AllSane
<1>6. ASSUME NEW s \in q.channel, NEW u \in User \ lostFrames'[s]
      PROVE  TrueView(q.users[u], q.pending[u], shown'[s][u])
  <2>1. s \in Socket
    BY TrackerParts
  <2>2. CASE s \in fresh
    <3>1. shown'[s] = Snapshot(q)
      BY <2>1, <2>2 DEF Become
    <3>2. QED BY <3>1, SnapshotIs
  <2>3. CASE s \notin fresh
    <3>1. s \in tracker.channel
      BY <2>3
    <3>2. shown'[s] = shown[s] /\ lostFrames'[s] = lostFrames[s]
      BY <2>1, <2>3 DEF Become
    <3>3. TrueView(tracker.users[u], tracker.pending[u], shown[s][u])
      BY <3>1, <3>2 DEF PresenceInv
    <3>4. Sane(tracker.users[u], tracker.pending[u])
      BY DEF PresenceInv, AllSane
    <3>5. shown[s][u] \in Views
      BY <2>1 DEF PresenceInv
    <3>6. Follows(tracker.users[u], tracker.pending[u], q.users[u], q.pending[u])
      BY DEF AllFollow
    <3>7. QED BY <3>2, <3>3, <3>4, <3>5, <3>6 DEF Follows
  <2>4. QED BY <2>2, <2>3
<1>7. QED BY <1>1, <1>2, <1>3, <1>4, <1>5, <1>6 DEF PresenceInv

-----------------------------------------------------------------------------
(* The steps.                                                               *)

\* Who is heard of and hears, after s has left.
LEMMA LeaveHeard ==
  ASSUME NEW p, NEW s, NEW q, NEW c, LeftBy(p, s, q), Heard(p, c), Counted(p),
         s \in p.joined /\ ~evicted => p.users[owner[s]].count > 0
  PROVE  Heard(q, c)
BY DEF LeftBy, Heard

\* A socket on the topic counts.
LEMMA OnTopicCounts ==
  ASSUME NEW p \in Trackers, NEW s \in p.joined, owner \in [Socket -> User], Counted(p), ~evicted
  PROVE  p.users[owner[s]].count > 0
<1> DEFINE u == owner[s]
<1>1. u \in User /\ s \in By(p, u) /\ By(p, u) \subseteq Socket
  BY TrackerParts DEF By
<1>2. IsFiniteSet(By(p, u)) /\ Cardinality(By(p, u)) \in Nat
  BY <1>1, PresenceAssumption, FS_Subset, FS_CardinalityType DEF PresenceAssumption
<1>3. Cardinality(By(p, u)) > 0
  BY <1>1, <1>2, FS_EmptySet
<1>4. QED BY <1>1, <1>3 DEF Counted

\* All that a leaving socket leaves as it should be.
LEMMA LeaveKeeps ==
  ASSUME NEW p \in Trackers, NEW s \in Socket, NEW c, owner \in [Socket -> User],
         Counted(p), Heard(p, c)
  PROVE  LET q == LeaveTopic(p, s)
         IN LeftBy(p, s, q) /\ Counted(q) /\ Heard(q, c)
<1> DEFINE q == LeaveTopic(p, s)
<1>1. LeftBy(p, s, q)
  BY LeaveTopicIs
<1> HIDE DEF q
<1>2. Counted(q)
  BY <1>1, LeaveCounted
<1>3. Heard(q, c)
  BY <1>1, LeaveHeard, OnTopicCounts
<1>4. QED BY <1>1, <1>2, <1>3 DEF q

\* Only who observes and who hears changes.
Rewired(p, o, c, q) ==
    \/ q = [p EXCEPT !.observed = o, !.channel = c]
    \/ q = [p EXCEPT !.observed = o] /\ c = p.channel
    \/ q = [p EXCEPT !.channel = c] /\ o = p.observed

\* Then nothing changes for the users.
LEMMA RewiredIs ==
  ASSUME NEW p \in Trackers, NEW q, NEW o \in SUBSET Socket, NEW c \in SUBSET Socket, Rewired(p, o, c, q)
  PROVE  /\ q.joined = p.joined /\ q.observed = o /\ q.channel = c
         /\ q \in Trackers /\ AllFollow(p, q) /\ (Counted(p) => Counted(q))
<1>1. p = [joined |-> p.joined, users |-> p.users, observed |-> p.observed,
           channel |-> p.channel, pending |-> p.pending]
  BY TrackerParts
<1>2. q = [joined |-> p.joined, users |-> p.users, observed |-> o,
           channel |-> c, pending |-> p.pending]
  BY <1>1 DEF Rewired
<1>3. q \in Trackers
  BY <1>2, TrackerParts DEF Trackers
<1>4. AllFollow(p, q)
  BY <1>2, FollowsItself DEF AllFollow
<1>5. Counted(p) => Counted(q)
  BY <1>2 DEF Counted, By
<1>6. QED BY <1>2, <1>3, <1>4, <1>5

\* A join keeps the invariant, whomever it evicts and whether or not it succeeds.
LEMMA JoinKeeps == ASSUME PresenceInv, NEW s \in Socket, Join(s) PROVE PresenceInv'
<1>1. owner \in [Socket -> User] /\ tracker \in Trackers /\ s \notin tracker.joined
      /\ Counted(tracker) /\ Heard(tracker, cut) /\ cut \subseteq Socket
  BY DEF PresenceInv, Join
<1>2. PICK o \in {tracker} \cup {LeaveTopic(tracker, v) : v \in tracker.joined} :
        LET p == Count(o, s)
        IN \/ Become([p EXCEPT !.channel = @ \cup {s}], {s}) /\ cut' = cut \ {s}
           \/ Become(LeaveTopic(p, s), {}) /\ UNCHANGED cut
  BY DEF Join
<1>3. /\ o \in Trackers /\ AllFollow(tracker, o) /\ Counted(o) /\ Heard(o, cut)
      /\ o.joined \subseteq tracker.joined /\ o.channel \subseteq tracker.channel
  <2>1. CASE o = tracker
    BY <1>1, <2>1, FollowsItself DEF AllFollow
  <2>2. CASE o # tracker
    <3>1. PICK v \in tracker.joined : o = LeaveTopic(tracker, v)
      BY <2>2
    <3>2. v \in Socket
      BY <1>1, TrackerParts
    <3>3. LeftBy(tracker, v, o) /\ Counted(o) /\ Heard(o, cut)
      BY <1>1, <3>1, <3>2, LeaveKeeps
    <3>4. QED BY <3>3 DEF LeftBy
  <2>3. QED BY <2>1, <2>2
<1> DEFINE p == Count(o, s)
<1>4. JoinedBy(o, s, p)
  BY <1>1, <1>3, CountIs
<1>5. /\ p \in Trackers /\ p.joined = o.joined \cup {s} /\ p.observed = o.observed
      /\ p.channel = o.channel /\ AllFollow(o, p)
  BY <1>4 DEF JoinedBy
<1>6. Counted(p)
  <2> HIDE DEF p
  <2>1. QED BY <1>1, <1>3, <1>4, JoinCounted
<1>7. UNCHANGED <<owner, evicted>>
  BY DEF Join
<1>8. CASE Become([p EXCEPT !.channel = @ \cup {s}], {s}) /\ cut' = cut \ {s}
  <2> DEFINE q == [p EXCEPT !.channel = @ \cup {s}]
  <2> HIDE DEF p
  <2>1. Become(q, {s})
    BY <1>8
  <2>2. Rewired(p, p.observed, p.channel \cup {s}, q)
    BY DEF Rewired
  <2> HIDE DEF q
  <2>3. p.observed \in SUBSET Socket /\ p.channel \cup {s} \in SUBSET Socket
    BY <1>5, TrackerParts
  <2>4. /\ q.joined = p.joined /\ q.observed = p.observed /\ q.channel = p.channel \cup {s}
        /\ q \in Trackers /\ AllFollow(p, q) /\ Counted(q)
    BY <1>5, <1>6, <2>2, <2>3, RewiredIs
  <2>5. AllFollow(tracker, q)
    BY <1>3, <1>5, <2>4, FollowsOn
  <2>7. Heard(q, cut') /\ q.channel \subseteq tracker.channel \cup {s}
    BY <1>3, <1>5, <1>8, <2>4 DEF Heard
  <2>8. cut' \subseteq Socket
    BY <1>1, <1>8
  <2>9. QED BY <1>7, <2>1, <2>4, <2>5, <2>7, <2>8, BecomeKeeps
<1>9. CASE Become(LeaveTopic(p, s), {}) /\ UNCHANGED cut
  <2> DEFINE q == LeaveTopic(p, s)
  <2> HIDE DEF p
  <2>1. LeftBy(p, s, q)
    BY <1>1, <1>5, LeaveTopicIs
  <2>2. Become(q, {})
    BY <1>9
  <2> HIDE DEF q
  <2>3. Counted(q)
    BY <1>1, <1>5, <1>6, <2>1, LeaveCounted
  <2>4. q \in Trackers /\ AllFollow(p, q) /\ q.channel \subseteq tracker.channel
    BY <1>3, <1>5, <2>1 DEF LeftBy
  <2>5. AllFollow(tracker, q)
    BY <1>3, <1>5, <2>4, FollowsOn
  <2>6. Heard(q, cut')
    BY <1>1, <1>3, <1>5, <1>9, <2>1 DEF LeftBy, Heard
  <2>7. cut' \subseteq Socket /\ {} \in SUBSET Socket /\ q.channel \subseteq tracker.channel \cup {}
    BY <1>1, <1>9, <2>4
  <2>8. QED BY <1>7, <2>2, <2>3, <2>4, <2>5, <2>6, <2>7, BecomeKeeps
<1>10. QED BY <1>2, <1>8, <1>9

\* So does the eviction of a connection.
LEMMA EvictConnectionKeeps == ASSUME PresenceInv, NEW s \in Socket, EvictConnection(s) PROVE PresenceInv'
<1> DEFINE q == LeaveTopic(tracker, s)
<1>1. LeftBy(tracker, s, q) /\ Counted(q) /\ Heard(q, cut)
  BY LeaveKeeps DEF PresenceInv
<1>2. Become(q, {}) /\ UNCHANGED <<owner, cut, evicted>>
  BY DEF EvictConnection
<1> HIDE DEF q
<1>3. q \in Trackers /\ AllFollow(tracker, q) /\ q.channel \subseteq tracker.channel \cup {}
  BY <1>1 DEF LeftBy
<1>4. cut' \subseteq Socket /\ Heard(q, cut') /\ {} \in SUBSET Socket
  BY <1>1, <1>2 DEF PresenceInv
<1>5. QED BY <1>1, <1>2, <1>3, <1>4, BecomeKeeps

\* So does an unsubscription: its tap and the place of the socket go together.
LEMMA UnsubscribeKeeps == ASSUME PresenceInv, NEW s \in Socket, Unsubscribe(s) PROVE PresenceInv'
<1> DEFINE p == [tracker EXCEPT !.channel = @ \ {s}]
           q == LeaveTopic(p, s)
<1>1. owner \in [Socket -> User] /\ tracker \in Trackers /\ Counted(tracker)
      /\ Heard(tracker, cut) /\ cut \subseteq Socket
  BY DEF PresenceInv
<1>2. tracker.channel \ {s} \in SUBSET Socket /\ tracker.observed \in SUBSET Socket
  BY <1>1, TrackerParts
<1>3. Rewired(tracker, tracker.observed, tracker.channel \ {s}, p)
  BY DEF Rewired
<1>4. Become(q, {}) /\ cut' = cut \cup ({s} \cap tracker.observed) /\ UNCHANGED <<owner, evicted>>
  BY DEF Unsubscribe
<1> HIDE DEF p
<1>5. /\ p.joined = tracker.joined /\ p.observed = tracker.observed /\ p.channel = tracker.channel \ {s}
      /\ p \in Trackers /\ AllFollow(tracker, p) /\ Counted(p)
  BY <1>1, <1>2, <1>3, RewiredIs
<1>6. LeftBy(p, s, q)
  BY <1>1, <1>5, LeaveTopicIs
<1> HIDE DEF q
<1>7. Counted(q)
  BY <1>1, <1>5, <1>6, LeaveCounted
<1>8. /\ q \in Trackers /\ AllFollow(p, q) /\ q.joined = tracker.joined \ {s}
      /\ q.observed = tracker.observed /\ q.channel = tracker.channel \ {s}
  BY <1>5, <1>6 DEF LeftBy
<1>9. AllFollow(tracker, q)
  BY <1>5, <1>8, FollowsOn
<1>10. Heard(q, cut') /\ cut' \subseteq Socket
  BY <1>1, <1>4, <1>8 DEF Heard
<1>11. {} \in SUBSET Socket /\ q.channel \subseteq tracker.channel \cup {}
  BY <1>8
<1>12. QED BY <1>4, <1>7, <1>8, <1>9, <1>10, <1>11, BecomeKeeps

\* So does the close of a socket.
LEMMA CloseKeeps == ASSUME PresenceInv, NEW s \in Socket, Close(s) PROVE PresenceInv'
<1> DEFINE p == LeaveTopic(tracker, s)
           q == [p EXCEPT !.observed = @ \ {s}, !.channel = @ \ {s}]
<1>1. owner \in [Socket -> User] /\ tracker \in Trackers /\ Counted(tracker)
      /\ Heard(tracker, cut) /\ cut \subseteq Socket
  BY DEF PresenceInv
<1>2. LeftBy(tracker, s, p) /\ Counted(p) /\ Heard(p, cut)
  BY <1>1, LeaveKeeps
<1>3. Become(q, {}) /\ cut' = cut \ {s} /\ UNCHANGED <<owner, evicted>>
  BY DEF Close
<1> HIDE DEF p
<1>4. Rewired(p, p.observed \ {s}, p.channel \ {s}, q)
  BY DEF Rewired
<1> HIDE DEF q
<1>5. /\ p \in Trackers /\ AllFollow(tracker, p) /\ p.channel \subseteq tracker.channel
      /\ p.joined = tracker.joined \ {s}
  BY <1>2 DEF LeftBy
<1>6. p.observed \ {s} \in SUBSET Socket /\ p.channel \ {s} \in SUBSET Socket
  BY <1>5, TrackerParts
<1>7. /\ q.joined = p.joined /\ q.observed = p.observed \ {s} /\ q.channel = p.channel \ {s}
      /\ q \in Trackers /\ AllFollow(p, q) /\ Counted(q)
  BY <1>2, <1>4, <1>5, <1>6, RewiredIs
<1>8. AllFollow(tracker, q)
  BY <1>5, <1>7, FollowsOn
<1>9. Heard(q, cut') /\ cut' \subseteq Socket
  BY <1>1, <1>2, <1>3, <1>5, <1>7 DEF Heard
<1>10. {} \in SUBSET Socket /\ q.channel \subseteq tracker.channel \cup {}
  BY <1>5, <1>7
<1>11. QED BY <1>3, <1>7, <1>8, <1>9, <1>10, BecomeKeeps

\* So does a sync: who observes hears, and begins with the roster.
LEMMA SyncKeeps == ASSUME PresenceInv, NEW s \in Socket, Sync(s) PROVE PresenceInv'
<1>1. tracker \in Trackers /\ Counted(tracker) /\ Heard(tracker, cut) /\ cut \subseteq Socket
  BY DEF PresenceInv
<1>2. /\ tracker.observed \subseteq Socket /\ tracker.channel \subseteq Socket
      /\ cut' = cut \ {s} /\ UNCHANGED <<owner, evicted>>
  BY <1>1, TrackerParts DEF Sync
<1>3. CASE s \notin tracker.channel /\ Become([tracker EXCEPT !.observed = @ \ {s}], {})
  <2> DEFINE q == [tracker EXCEPT !.observed = @ \ {s}]
  <2>1. Become(q, {}) /\ Rewired(tracker, tracker.observed \ {s}, tracker.channel, q)
    BY <1>3 DEF Rewired
  <2>2. tracker.observed \ {s} \in SUBSET Socket /\ tracker.channel \in SUBSET Socket /\ {} \in SUBSET Socket
    BY <1>2
  <2> HIDE DEF q
  <2>3. /\ q.joined = tracker.joined /\ q.observed = tracker.observed \ {s} /\ q.channel = tracker.channel
        /\ q \in Trackers /\ AllFollow(tracker, q) /\ Counted(q)
    BY <1>1, <2>1, <2>2, RewiredIs
  <2>4. Heard(q, cut') /\ q.channel \subseteq tracker.channel \cup {} /\ cut' \subseteq Socket
    BY <1>1, <1>2, <1>3, <2>3 DEF Heard
  <2>5. QED BY <1>2, <2>1, <2>2, <2>3, <2>4, BecomeKeeps
<1>4. CASE Become([tracker EXCEPT !.observed = @ \cup {s}, !.channel = @ \cup {s}], {s})
  <2> DEFINE q == [tracker EXCEPT !.observed = @ \cup {s}, !.channel = @ \cup {s}]
  <2>1. Become(q, {s}) /\ Rewired(tracker, tracker.observed \cup {s}, tracker.channel \cup {s}, q)
    BY <1>4 DEF Rewired
  <2>2. /\ tracker.observed \cup {s} \in SUBSET Socket /\ tracker.channel \cup {s} \in SUBSET Socket
        /\ {s} \in SUBSET Socket
    BY <1>2
  <2> HIDE DEF q
  <2>3. /\ q.joined = tracker.joined /\ q.observed = tracker.observed \cup {s}
        /\ q.channel = tracker.channel \cup {s}
        /\ q \in Trackers /\ AllFollow(tracker, q) /\ Counted(q)
    BY <1>1, <2>1, <2>2, RewiredIs
  <2>4. Heard(q, cut') /\ q.channel \subseteq tracker.channel \cup {s} /\ cut' \subseteq Socket
    BY <1>1, <1>2, <2>3 DEF Heard
  <2>5. QED BY <1>2, <2>1, <2>2, <2>3, <2>4, BecomeKeeps
<1>5. QED BY <1>3, <1>4 DEF Sync

\* No view becomes wrong of a tracker that only gives its users other entries and changes.
LEMMA UsersChange ==
  ASSUME NEW q \in Trackers, PresenceInv, tracker' = q, AllFollow(tracker, q), Counted(q),
         q.joined = tracker.joined, q.observed = tracker.observed, q.channel = tracker.channel,
         UNCHANGED <<owner, shown, lostFrames, cut, evicted>>
  PROVE  PresenceInv'
<1>1. Counted(tracker)'
  BY DEF Counted, By
<1>2. Heard(tracker, cut)'
  BY DEF PresenceInv, Heard
<1>3. AllSane(tracker)'
  <2>1. AllSane(q)
    BY SaneOn DEF PresenceInv
  <2>2. QED BY <2>1 DEF AllSane
<1>4. ASSUME NEW s \in q.channel, NEW u \in User \ lostFrames'[s]
      PROVE  TrueView(q.users[u], q.pending[u], shown'[s][u])
  <2>1. s \in Socket
    BY TrackerParts
  <2>2. TrueView(tracker.users[u], tracker.pending[u], shown[s][u])
    BY DEF PresenceInv
  <2>3. Sane(tracker.users[u], tracker.pending[u]) /\ shown[s][u] \in Views
    BY <2>1 DEF PresenceInv, AllSane
  <2>4. Follows(tracker.users[u], tracker.pending[u], q.users[u], q.pending[u])
    BY DEF AllFollow
  <2>5. QED BY <2>2, <2>3, <2>4 DEF Follows
<1>5. QED BY <1>1, <1>2, <1>3, <1>4 DEF PresenceInv

\* So does an update: the change waits with what the entry has.
LEMMA UpdateKeepsRoster == ASSUME PresenceInv, NEW s \in Socket, Update(s) PROVE PresenceInv'
<1> DEFINE u == owner[s]
           e == tracker.users[u]
           d == tracker.pending[u]
<1>1. /\ u \in User /\ e.count > 0 /\ tracker \in Trackers /\ Counted(tracker)
  BY DEF Update, Present, PresenceInv
<1>2. PICK f \in Field :
        LET v == 1 - tracker.users[u].fields[f]
        IN tracker' = BufferUpdate([tracker EXCEPT !.users[u].fields[f] = v], u, f, v)
  BY DEF Update
<1> DEFINE v == 1 - e.fields[f]
           o == [tracker EXCEPT !.users[u].fields[f] = v]
           e2 == [e EXCEPT !.fields = [@ EXCEPT ![f] = v]]
           d2 == Waits(d, f, v)
           q == BufferUpdate(o, u, f, v)
<1>3. /\ tracker.users \in [User -> Entries] /\ tracker.pending \in [User -> Changes]
      /\ tracker.joined \subseteq Socket /\ tracker.observed \subseteq Socket
      /\ tracker.channel \subseteq Socket
  BY <1>1, TrackerParts
<1>4. e \in Entries /\ d \in Changes /\ v \in {0, 1}
  <2>1. e \in Entries /\ d \in Changes
    BY <1>1, <1>3
  <2>2. e.fields[f] \in {0, 1}
    BY <2>1, EntryParts DEF Fields
  <2>3. QED BY <2>1, <2>2
<1>5. e2 \in Entries /\ d2 \in Changes /\ Follows(e, d, e2, d2)
  <2> HIDE DEF e, d, v
  <2>1. QED BY <1>1, <1>4, FieldUpdate
<1>6. e2.count = e.count
  BY <1>4 DEF Entries
<1> DEFINE us == [tracker.users EXCEPT ![u] = e2]
           pe == [tracker.pending EXCEPT ![u] = d2]
<1>7. o = [joined |-> tracker.joined, users |-> us, observed |-> tracker.observed,
           channel |-> tracker.channel, pending |-> tracker.pending]
  <2>1. tracker = [joined |-> tracker.joined, users |-> tracker.users, observed |-> tracker.observed,
                   channel |-> tracker.channel, pending |-> tracker.pending]
    BY <1>1, TrackerParts
  <2>2. us = [tracker.users EXCEPT ![u].fields[f] = v]
    BY <1>1, <1>3, <1>4
  <2>3. QED BY <2>1, <2>2
<1>8. q = [joined |-> tracker.joined, users |-> us, observed |-> tracker.observed,
           channel |-> tracker.channel, pending |-> pe]
  <2>1. CASE d.op \in {"join", "leave"}
    <3>1. q = o
      <4> HIDE DEF us
      <4>1. QED BY <1>7, <2>1 DEF BufferUpdate
    <3>2. pe = tracker.pending
      BY <1>1, <1>3, <2>1 DEF Waits
    <3>3. QED BY <1>7, <3>1, <3>2
  <2>2. CASE d.op \notin {"join", "leave"}
    <3>1. o.pending = tracker.pending
      BY <1>7
    <3>2. d2 = [op |-> "update", changed |-> d.changed \cup {f}, fields |-> [d.fields EXCEPT ![f] = v]]
      BY <2>2 DEF Waits
    <3>3. q = [o EXCEPT !.pending[u] = d2]
      BY <2>2, <3>1, <3>2 DEF BufferUpdate
    <3> HIDE DEF o, q, d2, us
    <3>4. QED BY <1>7, <3>3
  <2>3. QED BY <2>1, <2>2
<1>9. us \in [User -> Entries] /\ us[u] = e2 /\ \A w \in User \ {u} : us[w] = tracker.users[w]
  <2> HIDE DEF e2, u
  <2>1. QED BY <1>1, <1>3, <1>5
<1>10. pe \in [User -> Changes] /\ pe[u] = d2 /\ \A w \in User \ {u} : pe[w] = tracker.pending[w]
  <2> HIDE DEF d2, u
  <2>1. QED BY <1>1, <1>3, <1>5
<1>11. tracker' = q
  BY <1>2
<1> HIDE DEF q, us, pe, e2, d2, v
<1>12. OnlyOf(tracker, q, u) /\ q.users[u] = e2 /\ q.pending[u] = d2
  BY <1>8, <1>9, <1>10 DEF OnlyOf
<1>13. AllFollow(tracker, q)
  BY <1>1, <1>5, <1>12, OneUserFollows
<1>14. q \in Trackers
  BY <1>3, <1>8, <1>12 DEF Trackers, OnlyOf
<1>15. Counted(q)
  <2>1. \A w \in User : q.users[w].count = tracker.users[w].count /\ By(q, w) = By(tracker, w)
    BY <1>6, <1>8, <1>12 DEF OnlyOf, By
  <2>2. QED BY <1>1, <2>1 DEF Counted
<1>16. /\ q.joined = tracker.joined /\ q.observed = tracker.observed /\ q.channel = tracker.channel
       /\ UNCHANGED <<owner, shown, lostFrames, cut, evicted>>
  BY <1>8 DEF Update
<1>17. QED BY <1>11, <1>13, <1>14, <1>15, <1>16, UsersChange

\* So does the eviction of the topic: its frames are lost with it.
LEMMA EvictTopicKeeps == ASSUME PresenceInv, EvictTopic PROVE PresenceInv'
<1> DEFINE q == [tracker EXCEPT !.users = NoTracker.users]
<1>1. /\ tracker \in Trackers /\ Counted(tracker) /\ Heard(tracker, cut)
      /\ tracker' = q /\ evicted' = TRUE /\ UNCHANGED <<owner, shown, cut>>
      /\ lostFrames' = [s \in Socket |-> IF s \in tracker.channel
                                         THEN lostFrames[s] \cup Present(tracker) ELSE {}]
  BY DEF PresenceInv, EvictTopic
<1>2. /\ q.joined = tracker.joined /\ q.observed = tracker.observed
      /\ q.channel = tracker.channel /\ q.pending = tracker.pending
      /\ q.users = [u \in User |-> NoEntry]
  BY <1>1, TrackerParts DEF NoTracker
<1>3. q \in Trackers
  <2> HIDE DEF q
  <2>1. q.users \in [User -> Entries]
    BY <1>2, PresenceRecords
  <2>2. tracker = [joined |-> tracker.joined, users |-> tracker.users, observed |-> tracker.observed,
                   channel |-> tracker.channel, pending |-> tracker.pending]
    BY <1>1, TrackerParts
  <2>3. q = [joined |-> q.joined, users |-> q.users, observed |-> q.observed,
             channel |-> q.channel, pending |-> q.pending]
    BY <2>2 DEF q
  <2>4. QED BY <1>1, <1>2, <2>1, <2>3, TrackerParts DEF Trackers
<1>4. \A u \in User : tracker.users[u] \in Entries /\ tracker.pending[u] \in Changes
  BY <1>1, TrackerParts
<1>5. \A u \in User : q.users[u].count = 0
  BY <1>2 DEF NoEntry
<1> HIDE DEF q
<1>6. Counted(tracker)'
  <2>1. \A u \in User : Cardinality(By(q, u)) \in Nat
    <3>1. \A u \in User : By(q, u) \subseteq Socket
      BY <1>3, TrackerParts DEF By
    <3>2. QED BY <3>1, PresenceAssumption, FS_Subset, FS_CardinalityType DEF PresenceAssumption
  <2>2. \A u \in User : q.users[u].count <= Cardinality(By(q, u))
    BY <1>5, <2>1
  <2>3. QED BY <1>1, <2>2 DEF Counted, By
<1>7. Heard(tracker, cut)'
  BY <1>1, <1>2 DEF Heard
<1>8. AllSane(tracker)'
  <2>1. \A u \in User : Sane(q.users[u], q.pending[u])
    BY <1>2, <1>5 DEF PresenceInv, AllSane, Sane
  <2>2. QED BY <1>1, <2>1 DEF AllSane
<1>9. lostFrames' \in [Socket -> SUBSET User]
  BY <1>1 DEF PresenceInv, Present
<1>10. ASSUME NEW s \in q.channel, NEW u \in User \ lostFrames'[s]
       PROVE  TrueView(q.users[u], q.pending[u], shown'[s][u])
  <2>1. s \in Socket /\ s \in tracker.channel
    BY <1>1, <1>2, TrackerParts
  <2>2. u \notin lostFrames[s] /\ u \notin Present(tracker)
    BY <1>1, <2>1
  <2>3. TrueView(tracker.users[u], tracker.pending[u], shown[s][u])
    BY <2>1, <2>2 DEF PresenceInv
  <2>4. tracker.users[u].count = 0
    BY <1>4, <2>2, EntryParts DEF Present
  <2>5. q.users[u].count = 0 /\ q.pending[u] = tracker.pending[u] /\ shown'[s][u] = shown[s][u]
    BY <1>1, <1>2, <1>5
  <2>6. QED BY <2>3, <2>4, <2>5 DEF TrueView
<1>11. QED BY <1>1, <1>3, <1>6, <1>7, <1>8, <1>9, <1>10 DEF PresenceInv

-----------------------------------------------------------------------------
(* The ticks.                                                               *)

\* The fields that changed, over what the client had.
Merged(d, v) == [f \in Field |-> IF f \in d.changed THEN d.fields[f] ELSE v.fields[f]]

\* An update, merged into a view, makes a view.
LEMMA MergedIs ==
  ASSUME NEW p \in Trackers, NEW view \in [User -> Views], NEW u \in User,
         p.pending[u].op = "update", view[u].here
  PROVE  LET v == view[u]
             w == Diffed(p, view)[u]
         IN /\ w = [here |-> v.here, data |-> v.data, fields |-> Merged(p.pending[u], v), age |-> 0]
            /\ w \in Views
<1> DEFINE v == view[u]
           d == p.pending[u]
           g == Merged(d, v)
           w == Diffed(p, view)[u]
<1>1. v \in Views /\ d \in Changes
  BY TrackerParts
<1>2. v = [here |-> v.here, data |-> v.data, fields |-> v.fields, age |-> v.age]
  BY <1>1 DEF Views
<1>3. g \in Fields
  BY <1>1 DEF Merged, Fields, Views, Changes
<1>4. w = [v EXCEPT !.age = 0, !.fields = [f \in Field |-> IF f \in d.changed THEN d.fields[f] ELSE @[f]]]
  BY DEF Diffed
<1> HIDE DEF v, d, w
<1>5. w = [v EXCEPT !.age = 0, !.fields = g]
  BY <1>2, <1>4 DEF Merged
<1> HIDE DEF g
<1>6. w = [here |-> v.here, data |-> v.data, fields |-> g, age |-> 0]
  BY <1>2, <1>5
<1>7. w \in Views
  BY <1>1, <1>3, <1>6 DEF Views
<1>8. QED BY <1>6, <1>7 DEF v, d, w, g

\* The diff about a user leaves a true view of the user, if the view was true or the
\* diff states the user in full.
LEMMA DiffIsTrue ==
  ASSUME NEW p \in Trackers, NEW view \in [User -> Views], NEW u \in User, AllSane(p),
         u \notin Stated(p) => TrueView(p.users[u], p.pending[u], view[u])
  PROVE  Diffed(p, view)[u] \in Views /\ TrueView(p.users[u], NoChange, Diffed(p, view)[u])
<1> DEFINE e == p.users[u]
           d == p.pending[u]
           v == view[u]
           w == Diffed(p, view)[u]
<1>1. e \in Entries /\ d \in Changes /\ v \in Views /\ Sane(e, d)
  BY TrackerParts DEF AllSane
<1>2. e.count \in Nat /\ e.data \in Datas /\ e.fields \in [Field -> {0, 1}]
  BY <1>1, EntryParts DEF Fields
<1>3. /\ d.op \in {"none", "join", "leave", "update"} /\ d.changed \subseteq Field
      /\ d.fields \in [Field -> {0, 1}]
      /\ v.here \in BOOLEAN /\ v.data \in Datas /\ v.fields \in [Field -> {0, 1}]
  BY <1>1 DEF Changes, Views, Fields
<1>4. u \in Present(p) <=> e.count > 0
  BY DEF Present
<1>5. CASE d.op = "join" /\ u \in Present(p)
  <2>1. w = PublicData(e)
    BY <1>5 DEF Diffed
  <2> HIDE DEF w, e, d, v
  <2>2. QED BY <1>1, <1>4, <1>5, <2>1, PublicDataIs DEF w, e
<1>6. CASE d.op = "leave"
  <2>1. w = Unseen
    BY <1>6 DEF Diffed
  <2>2. e.count = 0
    BY <1>1, <1>6 DEF Sane
  <2> HIDE DEF w, e, d, v
  <2>3. TrueView(e, NoChange, w)
    BY <2>1, <2>2 DEF TrueView, NoChange, Unseen
  <2>4. QED BY <2>1, <2>3, PresenceRecords DEF w, e
<1>7. CASE d.op = "update" /\ v.here
  <2> DEFINE g == Merged(d, v)
  <2>1. /\ w = [here |-> v.here, data |-> v.data, fields |-> g, age |-> 0]
        /\ w \in Views
    BY <1>7, MergedIs
  <2>4. u \notin Stated(p)
    BY <1>7 DEF Stated
  <2>5. TrueView(e, d, v)
    BY <2>4
  <2>6. /\ g["status"] = IF "status" \in d.changed THEN d.fields["status"] ELSE v.fields["status"]
        /\ g["typing"] = IF "typing" \in d.changed THEN d.fields["typing"] ELSE v.fields["typing"]
    BY DEF Merged, Field
  <2>7. /\ e.fields["typing"] \in {0, 1} /\ v.fields["typing"] \in {0, 1}
    BY <1>2, <1>3 DEF Field
  <2> HIDE DEF g, w, e, d, v
  <2>9. w.here = v.here /\ w.data = v.data /\ w.fields = g /\ w.age = 0
    BY <2>1
  <2>10. e.count > 0 /\ v.data = e.data
    BY <1>7, <2>5 DEF TrueView
  <2>11. g["status"] = e.fields["status"] /\ g["typing"] <= e.fields["typing"]
    BY <1>1, <1>7, <2>5, <2>6, <2>7, <2>10 DEF TrueView, Sane
  <2>12. TrueView(e, NoChange, w)
    BY <1>7, <2>9, <2>10, <2>11 DEF TrueView, NoChange
  <2>13. QED BY <2>1, <2>12 DEF w, e
<1>8. CASE \/ d.op = "none"
           \/ d.op = "update" /\ ~v.here
           \/ d.op = "join" /\ u \notin Present(p)
  <2>1. w = v
    BY <1>8 DEF Diffed
  <2>2. u \notin Stated(p)
    BY <1>8 DEF Stated
  <2>3. TrueView(e, d, v)
    BY <2>2
  <2> HIDE DEF w, e, d, v
  <2>4. e.count = 0 \/ d.op = "none"
    BY <1>2, <1>4, <1>8, <2>3 DEF TrueView
  <2>5. TrueView(e, NoChange, v)
    BY <1>1, <1>2, <1>4, <1>8, <2>3, <2>4 DEF TrueView, NoChange, Sane
  <2>6. QED BY <1>1, <2>1, <2>5 DEF w, e, v
<1>9. CASE d.op = "update"
  <2>1. CASE v.here
    BY <1>7, <1>9, <2>1
  <2>2. CASE ~v.here
    BY <1>8, <1>9, <2>2
  <2>3. QED BY <2>1, <2>2
<1>10. CASE d.op = "join"
  <2>1. CASE u \in Present(p)
    BY <1>5, <1>10, <2>1
  <2>2. CASE u \notin Present(p)
    BY <1>8, <1>10, <2>2
  <2>3. QED BY <2>1, <2>2
<1>11. CASE d.op = "none"
  <2> HIDE DEF w, e, d, v
  <2>1. QED BY ONLY <1>8, <1>11
<1>12. QED BY <1>3, <1>6, <1>9, <1>10, <1>11

\* So does the flush: who receives the diff has a true view, who does not lost a frame.
LEMMA FlushKeeps == ASSUME PresenceInv, Flush PROVE PresenceInv'
<1> DEFINE q == [tracker EXCEPT !.pending = NoTracker.pending]
<1>1. /\ tracker \in Trackers /\ AllSane(tracker) /\ shown \in [Socket -> [User -> Views]]
      /\ lostFrames \in [Socket -> SUBSET User]
      /\ tracker' = q /\ UNCHANGED <<owner, cut, evicted>>
  BY DEF PresenceInv, Flush
<1>2. /\ q.joined = tracker.joined /\ q.observed = tracker.observed
      /\ q.channel = tracker.channel /\ q.users = tracker.users
      /\ q.pending = [u \in User |-> NoChange]
  BY <1>1, TrackerParts DEF NoTracker
<1>3. q \in Trackers
  <2>1. tracker = [joined |-> tracker.joined, users |-> tracker.users, observed |-> tracker.observed,
                   channel |-> tracker.channel, pending |-> tracker.pending]
    BY <1>1, TrackerParts
  <2>2. q = [joined |-> q.joined, users |-> q.users, observed |-> q.observed,
             channel |-> q.channel, pending |-> q.pending]
    BY <2>1
  <2> HIDE DEF q
  <2>3. q.pending \in [User -> Changes]
    BY <1>2, PresenceRecords
  <2>4. QED BY <1>1, <1>2, <2>2, <2>3, TrackerParts DEF Trackers
<1> HIDE DEF q
<1>4. Counted(tracker)' /\ Heard(tracker, cut)'
  BY <1>1, <1>2 DEF PresenceInv, Counted, Heard, By
<1>5. AllSane(tracker)'
  <2>1. \A u \in User : Sane(q.users[u], q.pending[u])
    BY <1>2 DEF Sane, NoChange
  <2>2. QED BY <1>1, <2>1 DEF AllSane
<1>6. /\ shown' \in [Socket -> [User -> Views]] /\ lostFrames' \in [Socket -> SUBSET User]
      /\ \A s \in q.channel : \A u \in User \ lostFrames'[s] :
           TrueView(q.users[u], q.pending[u], shown'[s][u])
  <2>1. CASE /\ shown' = [s \in Socket |-> IF s \in tracker.channel THEN Diffed(tracker, shown[s])
                                           ELSE shown[s]]
             /\ lostFrames' = [s \in Socket |-> lostFrames[s] \ Stated(tracker)]
    <3>1. ASSUME NEW s \in tracker.channel, NEW u \in User \ lostFrames'[s]
          PROVE  TrueView(tracker.users[u], NoChange, shown'[s][u])
      <4>1. s \in Socket
        BY <1>1, TrackerParts
      <4>2. u \in lostFrames[s] => u \in Stated(tracker)
        BY <2>1, <4>1
      <4>3. u \notin Stated(tracker) => TrueView(tracker.users[u], tracker.pending[u], shown[s][u])
        BY <4>2 DEF PresenceInv
      <4>4. shown[s] \in [User -> Views] /\ shown'[s] = Diffed(tracker, shown[s])
        BY <1>1, <2>1, <4>1
      <4>5. QED BY <1>1, <4>3, <4>4, DiffIsTrue
    <3>2. ASSUME NEW s \in tracker.channel PROVE Diffed(tracker, shown[s]) \in [User -> Views]
      <4>1. s \in Socket /\ shown[s] \in [User -> Views]
        BY <1>1, TrackerParts
      <4>2. ASSUME NEW u \in User PROVE Diffed(tracker, shown[s])[u] \in Views
        <5>1. CASE u \in Stated(tracker)
          BY <1>1, <4>1, <5>1, DiffIsTrue
        <5>2. CASE u \notin Stated(tracker)
          <6>1. CASE tracker.pending[u].op = "update" /\ shown[s][u].here
            BY <1>1, <4>1, <6>1, MergedIs
          <6>2. CASE ~(tracker.pending[u].op = "update" /\ shown[s][u].here)
            <7>1. Diffed(tracker, shown[s])[u] = shown[s][u]
              BY <5>2, <6>2 DEF Diffed, Stated
            <7>2. QED BY <4>1, <7>1
          <6>3. QED BY <6>1, <6>2
        <5>3. QED BY <5>1, <5>2
      <4>3. Diffed(tracker, shown[s]) = [u \in User |-> Diffed(tracker, shown[s])[u]]
        BY DEF Diffed
      <4>4. QED BY <4>2, <4>3
    <3>3. shown' \in [Socket -> [User -> Views]] /\ lostFrames' \in [Socket -> SUBSET User]
      BY <1>1, <2>1, <3>2
    <3>4. QED BY <1>2, <3>1, <3>3
  <2>2. CASE /\ lostFrames' = [s \in Socket |-> IF s \in tracker.channel
                                                THEN lostFrames[s] \cup Dirty(tracker) ELSE {}]
             /\ UNCHANGED shown
    <3>1. lostFrames' \in [Socket -> SUBSET User]
      BY <1>1, <2>2 DEF Dirty
    <3>2. ASSUME NEW s \in tracker.channel, NEW u \in User \ lostFrames'[s]
          PROVE  TrueView(tracker.users[u], NoChange, shown'[s][u])
      <4>1. s \in Socket
        BY <1>1, TrackerParts
      <4>2. u \notin lostFrames[s] /\ u \notin Dirty(tracker)
        BY <2>2, <4>1
      <4>3. TrueView(tracker.users[u], tracker.pending[u], shown[s][u])
        BY <4>2 DEF PresenceInv
      <4>4. tracker.pending[u].op = "none" /\ tracker.pending[u].changed = {}
        BY <1>1, <4>2 DEF Dirty, AllSane, Sane
      <4>5. QED BY <2>2, <4>3, <4>4 DEF TrueView, NoChange
    <3>3. QED BY <1>1, <1>2, <2>2, <3>1, <3>2
  <2>3. QED BY <2>1, <2>2 DEF Flush
<1>7. QED BY <1>1, <1>3, <1>4, <1>5, <1>6 DEF PresenceInv

\* Age changes no more than the age.
LEMMA AgedIs ==
  ASSUME NEW v \in Views
  PROVE  /\ Aged(v) \in Views /\ Aged(v).here = v.here
         /\ (~v.here => Aged(v) = v)
<1>1. v = [here |-> v.here, data |-> v.data, fields |-> v.fields, age |-> v.age] /\ v.age \in Nat
  BY DEF Views
<1>2. CASE v.here /\ v.age < MaxAge
  <2>1. Aged(v) = [here |-> v.here, data |-> v.data, fields |-> v.fields, age |-> v.age + 1]
    BY <1>1, <1>2 DEF Aged
  <2>2. Aged(v) \in Views
    BY <1>1, <2>1 DEF Views
  <2>3. QED BY <1>2, <2>1, <2>2
<1>3. CASE ~(v.here /\ v.age < MaxAge)
  BY <1>3 DEF Aged
<1>4. QED BY <1>2, <1>3

\* Only the clients change: of whom no frame is lost, true views.
LEMMA ViewsChange ==
  ASSUME PresenceInv, UNCHANGED <<owner, tracker, cut, evicted>>,
         shown' \in [Socket -> [User -> Views]], lostFrames' \in [Socket -> SUBSET User],
         \A s \in tracker.channel : \A u \in User \ lostFrames'[s] :
           TrueView(tracker.users[u], tracker.pending[u], shown'[s][u])
  PROVE  PresenceInv'
BY DEF PresenceInv, Counted, Heard, AllSane, By

\* An aged view of somebody who is not there is as true as it was.
LEMMA AgedIsTrue ==
  ASSUME NEW e, NEW d, NEW v \in Views, e.count = 0, TrueView(e, d, v)
  PROVE  TrueView(e, d, Aged(v))
BY AgedIs DEF TrueView

\* So does a heartbeat: who is there is stated in full, or a frame is lost.
LEMMA BeatKeeps == ASSUME PresenceInv, Beat PROVE PresenceInv'
<1>1. /\ tracker \in Trackers /\ shown \in [Socket -> [User -> Views]]
      /\ lostFrames \in [Socket -> SUBSET User] /\ tracker.channel \subseteq Socket
  BY TrackerParts DEF PresenceInv
<1>2. \A u \in User : tracker.users[u] \in Entries /\ tracker.users[u].count \in Nat
  BY <1>1, TrackerParts, EntryParts
<1>3. \A u \in User : u \in Present(tracker) <=> tracker.users[u].count > 0
  BY DEF Present
<1>4. UNCHANGED <<owner, tracker, cut, evicted>>
  BY DEF Beat
<1>5. \A s \in Socket : \A u \in User : shown[s][u] \in Views /\ Aged(shown[s][u]) \in Views
  BY <1>1, AgedIs
<1>6. \A u \in Present(tracker) : PublicData(tracker.users[u]) \in Views
  BY <1>2, <1>3, PublicDataIs DEF Present
<1>7. ASSUME NEW s \in tracker.channel, NEW u \in User \ lostFrames[s], u \notin Present(tracker)
      PROVE  TrueView(tracker.users[u], tracker.pending[u], Aged(shown[s][u]))
  <2>1. TrueView(tracker.users[u], tracker.pending[u], shown[s][u])
    BY DEF PresenceInv
  <2>2. tracker.users[u].count = 0
    BY <1>2, <1>3, <1>7
  <2>3. QED BY <1>1, <1>5, <2>1, <2>2, AgedIsTrue
<1>8. CASE /\ shown' = [s \in Socket |-> [u \in User |->
                  IF s \in tracker.channel /\ u \in Present(tracker) THEN PublicData(tracker.users[u])
                  ELSE Aged(shown[s][u])]]
           /\ lostFrames' = [s \in Socket |-> lostFrames[s] \ Present(tracker)]
  <2>1. shown' \in [Socket -> [User -> Views]]
    BY <1>5, <1>6, <1>8
  <2>2. lostFrames' \in [Socket -> SUBSET User]
    BY <1>1, <1>8
  <2>3. ASSUME NEW s \in tracker.channel, NEW u \in User \ lostFrames'[s]
        PROVE  TrueView(tracker.users[u], tracker.pending[u], shown'[s][u])
    <3>1. CASE u \in Present(tracker)
      <4>1. shown'[s][u] = PublicData(tracker.users[u])
        BY <1>1, <1>8, <3>1
      <4>2. QED BY <1>2, <1>3, <3>1, <4>1, PublicDataIs
    <3>2. CASE u \notin Present(tracker)
      <4>1. shown'[s][u] = Aged(shown[s][u]) /\ u \notin lostFrames[s]
        BY <1>1, <1>8, <3>2
      <4>2. QED BY <1>7, <3>2, <4>1
    <3>3. QED BY <3>1, <3>2
  <2>4. QED BY <1>4, <2>1, <2>2, <2>3, ViewsChange
<1>9. CASE /\ shown' = [s \in Socket |-> [u \in User |-> Aged(shown[s][u])]]
           /\ lostFrames' = [s \in Socket |->
                  IF s \in tracker.channel THEN lostFrames[s] \cup Present(tracker) ELSE {}]
  <2>1. shown' \in [Socket -> [User -> Views]]
    BY <1>5, <1>9
  <2>2. lostFrames' \in [Socket -> SUBSET User]
    BY <1>1, <1>9 DEF Present
  <2>3. ASSUME NEW s \in tracker.channel, NEW u \in User \ lostFrames'[s]
        PROVE  TrueView(tracker.users[u], tracker.pending[u], shown'[s][u])
    <3>1. u \notin lostFrames[s] /\ u \notin Present(tracker) /\ shown'[s][u] = Aged(shown[s][u])
      BY <1>1, <1>9
    <3>2. QED BY <1>7, <3>1
  <2>4. QED BY <1>4, <2>1, <2>2, <2>3, ViewsChange
<1>10. QED BY <1>8, <1>9 DEF Beat

\* So does a sweep: who is there, and of whom no frame was lost, is not so old.
LEMMA SweepKeeps == ASSUME PresenceInv, NEW s \in Socket, SweepView(s) PROVE PresenceInv'
<1> DEFINE old == {u \in User : shown[s][u].here /\ shown[s][u].age = MaxAge}
<1>1. /\ tracker \in Trackers /\ shown \in [Socket -> [User -> Views]]
      /\ lostFrames \in [Socket -> SUBSET User] /\ tracker.channel \subseteq Socket
  BY TrackerParts DEF PresenceInv
<1>2. /\ shown' = [shown EXCEPT ![s] = [u \in User |-> IF u \in old THEN Unseen ELSE @[u]]]
      /\ lostFrames' = [lostFrames EXCEPT ![s] = @ \ (old \ Present(tracker))]
      /\ UNCHANGED <<owner, tracker, cut, evicted>>
  BY DEF SweepView
<1>3. /\ shown'[s] = [u \in User |-> IF u \in old THEN Unseen ELSE shown[s][u]]
      /\ lostFrames'[s] = lostFrames[s] \ (old \ Present(tracker))
      /\ \A r \in Socket \ {s} : shown'[r] = shown[r] /\ lostFrames'[r] = lostFrames[r]
  <2> HIDE DEF old
  <2>1. QED BY <1>1, <1>2
<1>4. shown' \in [Socket -> [User -> Views]]
  <2> HIDE DEF old
  <2>1. shown'[s] \in [User -> Views]
    BY <1>1, <1>3, PresenceRecords
  <2>2. QED BY <1>1, <1>2, <2>1
<1>5. lostFrames' \in [Socket -> SUBSET User]
  <2> HIDE DEF old
  <2>1. QED BY <1>1, <1>2
<1>6. ASSUME NEW r \in tracker.channel, NEW u \in User \ lostFrames'[r]
      PROVE  TrueView(tracker.users[u], tracker.pending[u], shown'[r][u])
  <2> DEFINE e == tracker.users[u]
             d == tracker.pending[u]
  <2>1. e.count \in Nat /\ d.op \in {"none", "join", "leave", "update"}
    BY <1>1, TrackerParts, EntryParts DEF Changes
  <2>2. CASE r # s \/ u \notin old
    <3>1. shown'[r][u] = shown[r][u] /\ u \notin lostFrames[r]
      <4> HIDE DEF old
      <4>1. QED BY <1>1, <1>3, <2>2
    <3>2. QED BY <3>1 DEF PresenceInv
  <2>3. CASE r = s /\ u \in old
    <3>1. shown'[s][u] = Unseen
      BY <1>3, <2>3
    <3>2. CASE u \in Present(tracker)
      <4>1. u \notin lostFrames[s]
        BY <1>3, <2>3, <3>2
      <4>2. TrueView(e, d, shown[s][u])
        BY <2>3, <4>1 DEF PresenceInv
      <4>3. shown[s][u].here /\ shown[s][u].age # 0
        BY <2>3, PresenceAssumption DEF PresenceAssumption
      <4>4. e.count > 0
        BY <3>2 DEF Present
      <4> HIDE DEF e, d
      <4>5. d.op \notin {"none", "update"}
        BY <4>2, <4>3 DEF TrueView
      <4>6. TrueView(e, d, Unseen)
        BY <4>4, <4>5 DEF TrueView
      <4>7. QED BY <2>3, <3>1, <4>6 DEF e, d
    <3>3. CASE u \notin Present(tracker)
      <4>1. e.count = 0
        BY <2>1, <3>3 DEF Present
      <4> HIDE DEF e, d
      <4>2. TrueView(e, d, Unseen)
        BY <4>1 DEF TrueView, Unseen
      <4>3. QED BY <2>3, <3>1, <4>2 DEF e, d
    <3>4. QED BY <3>2, <3>3
  <2>4. QED BY <2>2, <2>3
<1>7. QED BY <1>2, <1>4, <1>5, <1>6, ViewsChange

-----------------------------------------------------------------------------

\* The tracker and the clients begin with nobody.
LEMMA PresenceStarts == PresenceInit => PresenceInv
<1> SUFFICES ASSUME PresenceInit PROVE PresenceInv
  OBVIOUS
<1>1. owner \in [Socket -> User]
  BY PresenceAssumption DEF PresenceInit, PresenceAssumption
<1>2. tracker \in Trackers /\ cut \subseteq Socket /\ evicted \in BOOLEAN
  BY PresenceRecords DEF PresenceInit
<1>3. shown \in [Socket -> [User -> Views]] /\ lostFrames \in [Socket -> SUBSET User]
  BY PresenceRecords DEF PresenceInit, Nothing
<1>4. /\ tracker.joined = {} /\ tracker.observed = {} /\ tracker.channel = {}
      /\ \A u \in User : tracker.users[u].count = 0 /\ tracker.pending[u] = NoChange
  BY DEF PresenceInit, NoTracker, NoEntry
<1>5. Counted(tracker)
  <2>1. \A u \in User : By(tracker, u) = {}
    BY <1>4 DEF By
  <2>2. \A u \in User : Cardinality(By(tracker, u)) = 0
    BY <2>1, FS_EmptySet
  <2>3. 0 <= 0
    OBVIOUS
  <2>4. \A u \in User : tracker.users[u].count = 0
    BY <1>4
  <2>5. QED BY <2>2, <2>3, <2>4 DEF Counted
<1>6. Heard(tracker, cut)
  BY <1>4 DEF Heard
<1>7. AllSane(tracker)
  BY <1>4 DEF AllSane, Sane, NoChange
<1>8. QED BY <1>1, <1>2, <1>3, <1>4, <1>5, <1>6, <1>7 DEF PresenceInv

\* Every step keeps the invariant.
LEMMA PresenceNextKeeps == PresenceInv /\ [PresenceNext]_presenceVars => PresenceInv'
<1> SUFFICES ASSUME PresenceInv, [PresenceNext]_presenceVars PROVE PresenceInv'
  OBVIOUS
<1>1. CASE UNCHANGED presenceVars
  BY <1>1 DEF presenceVars, PresenceInv, Counted, Heard, AllSane, By
<1>2. ASSUME NEW s \in Socket, Join(s) PROVE PresenceInv'
  BY <1>2, JoinKeeps
<1>3. ASSUME NEW s \in Socket, EvictConnection(s) PROVE PresenceInv'
  BY <1>3, EvictConnectionKeeps
<1>4. ASSUME NEW s \in Socket, Unsubscribe(s) PROVE PresenceInv'
  BY <1>4, UnsubscribeKeeps
<1>5. ASSUME NEW s \in Socket, Close(s) PROVE PresenceInv'
  BY <1>5, CloseKeeps
<1>6. ASSUME NEW s \in Socket, Sync(s) PROVE PresenceInv'
  BY <1>6, SyncKeeps
<1>7. ASSUME NEW s \in Socket, Update(s) PROVE PresenceInv'
  BY <1>7, UpdateKeepsRoster
<1>8. ASSUME NEW s \in Socket, SweepView(s) PROVE PresenceInv'
  BY <1>8, SweepKeeps
<1>9. CASE EvictTopic \/ Flush \/ Beat
  BY <1>9, EvictTopicKeeps, FlushKeeps, BeatKeeps
<1>10. QED BY <1>1, <1>2, <1>3, <1>4, <1>5, <1>6, <1>7, <1>8, <1>9 DEF PresenceNext

\* In such a state the rosters are true.
LEMMA PresenceImplies == PresenceInv => RosterIsTrue
<1> SUFFICES ASSUME PresenceInv PROVE RosterIsTrue
  OBVIOUS
<1>1. /\ tracker \in Trackers /\ shown \in [Socket -> [User -> Views]] /\ AllSane(tracker)
  BY DEF PresenceInv
<1>2. PresenceTypeOK
  <2>1. \A u \in User : tracker.users[u] \in Entries /\ tracker.pending[u] \in Changes
    BY <1>1, TrackerParts
  <2>2. QED BY <1>1, <2>1, TrackerParts DEF PresenceTypeOK, Entries, Changes
<1>3. CountsExact /\ ChannelExact
  BY DEF PresenceInv, Counted, Heard, By, CountsExact, ChannelExact
<1>4. ASSUME NEW s \in tracker.channel, NEW u \in User \ lostFrames[s]
      PROVE  LET e == tracker.users[u]
                 v == Diffed(tracker, shown[s])[u]
             IN /\ v.here <=> e.count > 0
                /\ v.here => /\ v.data = e.data /\ v.fields["status"] = e.fields["status"]
                             /\ v.fields["typing"] <= e.fields["typing"]
  <2>1. s \in Socket /\ shown[s] \in [User -> Views]
    BY <1>1, TrackerParts
  <2>2. TrueView(tracker.users[u], tracker.pending[u], shown[s][u])
    BY DEF PresenceInv
  <2>3. TrueView(tracker.users[u], NoChange, Diffed(tracker, shown[s])[u])
    BY <1>1, <2>1, <2>2, DiffIsTrue
  <2>4. QED BY <2>3 DEF TrueView, NoChange
<1>5. QED BY <1>2, <1>3, <1>4 DEF RosterIsTrue

\* What a client shows, with the changes that wait for the next tick, is the roster of the
\* tracker, but for users of whom a frame was lost: for any sockets, users and data,
\* however many sockets a user has, through evictions, lost diffs and lost heartbeats.
THEOREM RosterStaysTrue == PresenceSpec => []RosterIsTrue
<1>1. PresenceInv /\ [PresenceNext]_presenceVars => PresenceInv'
  BY PresenceNextKeeps
<1>2. QED BY <1>1, PresenceStarts, PresenceImplies, PTL DEF PresenceSpec

=============================================================================
