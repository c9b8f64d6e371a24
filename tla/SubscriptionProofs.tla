-------------------------- MODULE SubscriptionProofs --------------------------
(***************************************************************************)
(* Proofs about the topics of one connection: the books of its attempts in *)
(* flight are exact, an acknowledgement is the truth, a landing acts on    *)
(* what is true when it lands, and history goes to the entitled.           *)
(***************************************************************************)
EXTENDS Subscription, SequenceLemmas

\* An item in flight is named by its attempt and its place in the frame.
Ids == Attempts \X (1..MaxPending)

\* The connection while it is being worked on: epochs of the moment are not capped.
Ledger ==
  [subs : SUBSET Topics, native : SUBSET Topics, count : Int,
   entry : [Topics -> [epoch : Nat, inflight : 0..MaxPending, granted : BOOLEAN]],
   total : Nat, socket : {"open", "closing", "closed"},
   backed : SUBSET Topics, stale : SUBSET Ids, parked : [Topics -> SUBSET Ids]]

\* What is in flight, and the topic and the token of each.
Flying(c)  == {id \in Ids : id[2] \in DOMAIN c[id[1]].items}
TopicOf(c) == [id \in Flying(c) |-> c[id[1]].items[id[2]].topic]
TokenOf(c) == [id \in Flying(c) |-> c[id[1]].items[id[2]].token]

\* The units of the pending record, counted per topic.
Places(u) == {p \in Topics \X (1..MaxPending) : p[2] <= u.entry[p[1]].inflight}

\* The record of attempts agrees with the set F of those in flight.
Counted(u, F, topic) ==
  /\ \A id \in F : topic[id] \in Topics
  /\ \A t \in Topics :
       /\ u.parked[t] = {id \in F : topic[id] = t}
       /\ IsFiniteSet(u.parked[t])
       /\ Cardinality(u.parked[t]) <= u.entry[t].inflight
       /\ u.socket = "open" => Cardinality(u.parked[t]) = u.entry[t].inflight
       /\ u.entry[t].inflight = 0 => u.entry[t] = NoEntry
  /\ u.total = Cardinality(Places(u)) /\ u.total <= MaxPending

\* A token is stale exactly when the epoch has moved on.
Dated(u, F, topic, token) ==
  /\ u.stale \subseteq F
  /\ \A id \in F :
       LET now == u.entry[topic[id]].epoch
       IN token[id] \in 0..now /\ (id \in u.stale <=> token[id] # now)

\* Authority: what is backed is held and, while contested, granted; on an open
\* socket the native membership is the logical one, and a grant is backed.
Backed(u) ==
  /\ u.backed \subseteq u.subs
  /\ \A t \in u.backed : u.entry[t].inflight > 0 => u.entry[t].granted
  /\ u.socket = "open" => u.native = u.subs /\ \A t \in Topics : u.entry[t].granted => t \in u.backed
  /\ u.count = IF u.socket = "closed" THEN 0 ELSE Cardinality(u.subs)

\* A membership that no attempt is behind has its authority (releaseOrphanedSub).
NoOrphan(u) == u.socket = "open" => \A t \in u.subs : u.parked[t] = {} => t \in u.backed

\* The record of attempts, their tokens and the authority of what is held agree.
Books(u, F, topic, token) ==
  /\ u \in Ledger
  /\ Counted(u, F, topic) /\ Dated(u, F, topic, token) /\ Backed(u)

\* A call holds its items in order; only what the hook was asked about is allowed,
\* and only a subscriber's own frame asks for history.
CallInv ==
  /\ call \in [Attempts -> [stage : {"idle", "hook", "resume"},
                            lane : {"none", "wire", "batch", "platform", "observer"},
                            items : Seq(Item)]]
  /\ \A a \in Attempts :
       /\ call[a].stage = "idle" => call[a].items = <<>>
       /\ Len(call[a].items) <= MaxPending
       /\ \A i \in 1..Len(call[a].items) :
            /\ call[a].items[i].id = <<a, i>>
            /\ call[a].items[i].allow => ~call[a].items[i].gated
            /\ call[a].items[i].recover => call[a].lane \in {"wire", "batch"}

\* The inductive invariant.
SubscriptionInv ==
  /\ CallInv
  /\ armed \in BOOLEAN /\ acks \subseteq Topics
  /\ Books(ud, Flying(call), TopicOf(call), TokenOf(call))
  /\ NoOrphan(ud)
  /\ \A t \in Topics : ud.entry[t].epoch <= MaxEpoch

-----------------------------------------------------------------------------
(* How many attempts are in flight.                                         *)

\* A finite set that has a member counts at least one.
LEMMA InhabitedCount ==
  ASSUME NEW S, IsFiniteSet(S), S # {}, NEW n, Cardinality(S) = n
  PROVE  n > 0 /\ n # 0
<1>1. Cardinality(S) \in Nat
  BY FS_CardinalityType
<1>2. Cardinality(S) # 0
  BY FS_EmptySet
<1> QED BY <1>1, <1>2

\* The places in flight are finitely many.
LEMMA PlacesFinite ==
  ASSUME NEW u
  PROVE  IsFiniteSet(Places(u)) /\ Cardinality(Places(u)) \in Nat
<1>1. IsFiniteSet(1..MaxPending) /\ IsFiniteSet(Topics)
  BY SubscriptionAssumption, FS_Interval
<1>2. IsFiniteSet(Topics \X (1..MaxPending))
  BY <1>1, FS_Product
<1>3. Places(u) \in SUBSET (Topics \X (1..MaxPending))
  BY DEF Places
<1> QED BY <1>2, <1>3, FS_Subset, FS_CardinalityType

\* While the connection has headroom, every topic has.
LEMMA RoomInPlaces ==
  ASSUME NEW u \in Ledger, NEW t \in Topics, Cardinality(Places(u)) < MaxPending
  PROVE  u.entry[t].inflight < MaxPending
<1> SUFFICES ASSUME ~(u.entry[t].inflight < MaxPending)
             PROVE  FALSE
  OBVIOUS
<1> DEFINE Row == {<<t, i>> : i \in 1..MaxPending}
           f == [i \in 1..MaxPending |-> <<t, i>>]
<1>1. Row \subseteq Places(u)
  <2> SUFFICES ASSUME NEW i \in 1..MaxPending PROVE <<t, i>> \in Places(u)
    OBVIOUS
  <2>1. <<t, i>> \in Topics \X (1..MaxPending) /\ <<t, i>>[1] = t /\ <<t, i>>[2] = i
    OBVIOUS
  <2>2. u.entry[t].inflight \in Nat
    BY DEF Ledger
  <2>3. i <= u.entry[t].inflight
    BY <2>2, SubscriptionAssumption
  <2> QED BY <2>1, <2>3 DEF Places
<1>2. f \in Bijection(1..MaxPending, Row)
  BY DEF Bijection, Injection, Surjection, IsInjective
<1>3. IsFiniteSet(1..MaxPending) /\ Cardinality(1..MaxPending) = MaxPending
  <2>1. 1 \in Int /\ MaxPending \in Int /\ (1 > MaxPending => MaxPending = 0) /\ MaxPending - 1 + 1 = MaxPending
    BY SubscriptionAssumption
  <2> QED BY <2>1, FS_Interval
<1>4. Cardinality(Row) = MaxPending
  BY <1>2, <1>3, FS_Bijection DEF ExistsBijection
<1>5. MaxPending <= Cardinality(Places(u))
  BY <1>1, <1>4, PlacesFinite, FS_Subset
<1> QED BY <1>5, PlacesFinite, SubscriptionAssumption

\* One place is taken, or given back.
LEMMA OnePlace ==
  ASSUME NEW u \in Ledger, NEW v \in Ledger, NEW t \in Topics,
         v.entry[t].inflight = u.entry[t].inflight + 1, v.entry[t].inflight <= MaxPending,
         \A s \in Topics \ {t} : v.entry[s].inflight = u.entry[s].inflight
  PROVE  Cardinality(Places(v)) = Cardinality(Places(u)) + 1
<1> DEFINE p == <<t, v.entry[t].inflight>>
<1>0. u.entry[t].inflight \in Nat /\ v.entry[t].inflight \in 1..MaxPending
  BY SubscriptionAssumption DEF Ledger
<1>1. p \notin Places(u)
  <2>1. p[1] = t /\ p[2] = v.entry[t].inflight
    OBVIOUS
  <2> QED BY <2>1, <1>0 DEF Places
<1>2. Places(v) = Places(u) \cup {p}
  <2>1. ASSUME NEW q \in Topics \X (1..MaxPending)
        PROVE  q[2] <= v.entry[q[1]].inflight <=> q[2] <= u.entry[q[1]].inflight \/ q = p
    <3>1. PICK s \in Topics, i \in 1..MaxPending : q = <<s, i>>
      OBVIOUS
    <3>2. q[1] = s /\ q[2] = i /\ i \in Nat
      BY <3>1
    <3>3. CASE s # t
      <4>1. q # p BY <3>1, <3>3
      <4> QED BY <3>2, <3>3, <4>1
    <3>4. CASE s = t
      <4>1. q = p <=> i = v.entry[t].inflight
        BY <3>1, <3>4
      <4>2. i <= v.entry[t].inflight <=> i <= u.entry[t].inflight \/ i = v.entry[t].inflight
        BY <1>0, <3>2
      <4> QED BY <3>2, <3>4, <4>1, <4>2
    <3> QED BY <3>3, <3>4
  <2>2. p \in Topics \X (1..MaxPending)
    BY <1>0
  <2> HIDE DEF p
  <2> QED BY <2>1, <2>2 DEF Places
<1> QED BY <1>1, <1>2, PlacesFinite, FS_AddElement

-----------------------------------------------------------------------------
(* What the operations do to the books.                                     *)

\* The books after an enrolment.
AfterBegin(u, v, F, it, topic, token) ==
  /\ Books(v, F \cup {it.id}, topic, token) /\ NoOrphan(v)
  /\ \A t \in Topics : v.entry[t].epoch = u.entry[t].epoch
  /\ v.total = u.total + 1

\* An enrolment.
LEMMA BeginBooks ==
  ASSUME NEW u, NEW F \in SUBSET Ids, NEW topic, NEW token, Books(u, F, topic, token), NoOrphan(u),
         NEW it \in Item, it.id \in Ids \ F, topic[it.id] = it.topic, token[it.id] = it.token,
         it.token = u.entry[it.topic].epoch, u.total < MaxPending
  PROVE  AfterBegin(u, Begin(u, it), F, it, topic, token)
<1> DEFINE v == Begin(u, it)
           t == it.topic
           new == IF u.entry[t].inflight = 0 THEN [epoch |-> 0, inflight |-> 1, granted |-> t \in u.subs]
                  ELSE [u.entry[t] EXCEPT !.inflight = @ + 1]
<1>0. /\ u \in Ledger /\ t \in Topics /\ it.id \in Ids
      /\ u.entry[t] \in [epoch : Nat, inflight : 0..MaxPending, granted : BOOLEAN]
  BY DEF Books, Item, Ledger, Ids
<1>a. u.entry[t].inflight + 1 \in 0..MaxPending
  <2>1. u.total = Cardinality(Places(u))
    BY DEF Books, Counted
  <2>2. u.entry[t].inflight < MaxPending
    BY <1>0, <2>1, RoomInPlaces
  <2> QED BY <1>0, <2>2, SubscriptionAssumption
<1>1. /\ new \in [epoch : Nat, inflight : 0..MaxPending, granted : BOOLEAN]
      /\ new.inflight = u.entry[t].inflight + 1
      /\ new.epoch = u.entry[t].epoch
      /\ new.granted = IF u.entry[t].inflight = 0 THEN t \in u.subs ELSE u.entry[t].granted
  <2>1. CASE u.entry[t].inflight = 0
    <3>1. u.entry[t].epoch = 0
      BY <1>0, <2>1 DEF Books, Counted, NoEntry
    <3> QED BY <2>1, <3>1, <1>0, <1>a
  <2>2. CASE u.entry[t].inflight # 0
    BY <2>2, <1>0, <1>a
  <2> QED BY <2>1, <2>2
<1>2. v = [u EXCEPT !.entry[t] = new, !.total = @ + 1, !.parked[t] = @ \cup {it.id}]
  BY DEF Begin
<1> HIDE DEF v, t, new
<1>3. /\ v \in Ledger
      /\ v.subs = u.subs /\ v.native = u.native /\ v.count = u.count /\ v.socket = u.socket
      /\ v.backed = u.backed /\ v.stale = u.stale /\ v.total = u.total + 1
      /\ v.entry = [u.entry EXCEPT ![t] = new]
      /\ v.parked = [u.parked EXCEPT ![t] = @ \cup {it.id}]
  <2>1. [u.entry EXCEPT ![t] = new] \in [Topics -> [epoch : Nat, inflight : 0..MaxPending, granted : BOOLEAN]]
    BY <1>0, <1>1 DEF Ledger
  <2>2. [u.parked EXCEPT ![t] = @ \cup {it.id}] \in [Topics -> SUBSET Ids]
    <3>1. u.parked \in [Topics -> SUBSET Ids] /\ u.parked[t] \cup {it.id} \in SUBSET Ids
      BY <1>0 DEF Ledger
    <3> QED BY <3>1
  <2>3. u.total + 1 \in Nat
    BY <1>0 DEF Ledger
  <2> QED BY <1>0, <1>2, <2>1, <2>2, <2>3 DEF Ledger
<1>4. \A s \in Topics : v.entry[s].epoch = u.entry[s].epoch
  BY <1>0, <1>1, <1>3 DEF Ledger
<1>5. v.entry[t] = new /\ \A s \in Topics \ {t} : v.entry[s] = u.entry[s] /\ v.parked[s] = u.parked[s]
  BY <1>0, <1>3 DEF Ledger
<1>6. v.parked[t] = u.parked[t] \cup {it.id} /\ it.id \notin u.parked[t]
  BY <1>0, <1>3 DEF Ledger, Books, Counted
<1>7. Counted(v, F \cup {it.id}, topic)
  <2>0. topic[it.id] = t
    BY DEF t
  <2>1. \A id \in F \cup {it.id} : topic[id] \in Topics
    BY <1>0, <2>0 DEF Books, Counted
  <2>2. \A s \in Topics : v.parked[s] = {id \in F \cup {it.id} : topic[id] = s}
    BY <1>0, <1>5, <1>6, <2>0 DEF Books, Counted
  <2>3. IsFiniteSet(u.parked[t]) /\ Cardinality(u.parked[t]) \in Nat
    BY <1>0, FS_CardinalityType DEF Books, Counted
  <2>4. IsFiniteSet(v.parked[t]) /\ Cardinality(v.parked[t]) = Cardinality(u.parked[t]) + 1
    BY <1>6, <2>3, FS_AddElement
  <2>5. ASSUME NEW s \in Topics
        PROVE  /\ IsFiniteSet(v.parked[s])
               /\ Cardinality(v.parked[s]) <= v.entry[s].inflight
               /\ v.socket = "open" => Cardinality(v.parked[s]) = v.entry[s].inflight
               /\ v.entry[s].inflight = 0 => v.entry[s] = NoEntry
    <3>1. CASE s = t
      <4>1. Cardinality(u.parked[t]) <= u.entry[t].inflight
            /\ (u.socket = "open" => Cardinality(u.parked[t]) = u.entry[t].inflight)
        BY <1>0 DEF Books, Counted
      <4>2. v.entry[t].inflight = u.entry[t].inflight + 1 /\ u.entry[t].inflight \in Nat
        BY <1>0, <1>1, <1>5
      <4> QED BY <3>1, <4>1, <4>2, <2>3, <2>4, <1>3
    <3>2. CASE s # t
      BY <3>2, <1>3, <1>5 DEF Books, Counted
    <3> QED BY <3>1, <3>2
  <2>6. v.total = Cardinality(Places(v)) /\ v.total <= MaxPending
    <3>1. u.total = Cardinality(Places(u))
      BY DEF Books, Counted
    <3>3. v.entry[t].inflight = u.entry[t].inflight + 1 /\ v.entry[t].inflight <= MaxPending
      BY <1>1, <1>5, <1>a
    <3>4. Cardinality(Places(v)) = Cardinality(Places(u)) + 1
      <4>1. u \in Ledger /\ v \in Ledger /\ t \in Topics
        BY <1>0, <1>3
      <4>2. \A s \in Topics \ {t} : v.entry[s].inflight = u.entry[s].inflight
        BY <1>5
      <4> QED BY <4>1, <4>2, <3>3, OnePlace
    <3>5. u.total \in Nat
      BY <1>0 DEF Ledger
    <3> QED BY <1>3, <3>1, <3>4, <3>5, SubscriptionAssumption
  <2> QED BY <2>1, <2>2, <2>5, <2>6 DEF Counted
<1>8. Dated(v, F \cup {it.id}, topic, token)
  <2>1. v.stale \subseteq F \cup {it.id}
    BY <1>3 DEF Books, Dated
  <2>2. ASSUME NEW id \in F
        PROVE  token[id] \in 0..v.entry[topic[id]].epoch /\ (id \in v.stale <=> token[id] # v.entry[topic[id]].epoch)
    <3>1. topic[id] \in Topics
      BY DEF Books, Counted
    <3> QED BY <3>1, <1>3, <1>4 DEF Books, Dated
  <2>3. token[it.id] = v.entry[topic[it.id]].epoch /\ it.id \notin v.stale
    BY <1>0, <1>3, <1>4 DEF Books, Dated, t
  <2>4. token[it.id] \in 0..v.entry[topic[it.id]].epoch
    <3>1. u.entry[t].epoch \in Nat
      BY <1>0
    <3> QED BY <2>3, <3>1, <1>0, <1>4 DEF t
  <2> QED BY <2>1, <2>2, <2>3, <2>4 DEF Dated
<1>9. Backed(v) /\ NoOrphan(v)
  <2>1. u.entry[t].inflight = 0 /\ u.socket = "open" => u.parked[t] = {}
    <3>1. IsFiniteSet(u.parked[t]) /\ (u.socket = "open" => Cardinality(u.parked[t]) = u.entry[t].inflight)
      BY <1>0 DEF Books, Counted
    <3> QED BY <3>1, FS_EmptySet
  <2>2. u.socket = "open" /\ new.granted => t \in u.backed
    BY <1>0, <1>1, <2>1 DEF Books, Backed, NoOrphan
  <2>3. t \in u.backed => new.granted
    <3>1. u.entry[t].inflight \in Nat
      BY <1>0
    <3>2. u.entry[t].inflight # 0 => u.entry[t].inflight > 0
      BY <3>1
    <3> QED BY <1>1, <3>2 DEF Books, Backed
  <2>4. \A s \in v.backed : v.entry[s].inflight > 0 => v.entry[s].granted
    <3> SUFFICES ASSUME NEW s \in u.backed, v.entry[s].inflight > 0 PROVE v.entry[s].granted
      BY <1>3
    <3>1. s \in Topics
      BY <1>0 DEF Ledger
    <3> QED BY <3>1, <1>5, <2>3 DEF Books, Backed
  <2>5. v.socket = "open" => \A s \in Topics : v.entry[s].granted => s \in v.backed
    BY <1>3, <1>5, <2>2 DEF Books, Backed
  <2>6. v.socket = "open" => \A s \in v.subs : v.parked[s] = {} => s \in v.backed
    <3> SUFFICES ASSUME v.socket = "open", NEW s \in u.subs, v.parked[s] = {} PROVE s \in u.backed
      BY <1>3
    <3>1. s \in Topics /\ s # t
      BY <1>0, <1>6 DEF Ledger
    <3> QED BY <3>1, <1>3, <1>5 DEF NoOrphan
  <2> QED BY <1>3, <2>4, <2>5, <2>6 DEF Books, Backed, NoOrphan
<1> QED BY <1>3, <1>4, <1>7, <1>8, <1>9 DEF Books, AfterBegin, v

\* The books after the enrolment of one item ended, and what that leaves alone.
AfterLeave(u, v, F, it, mark, topic, token) ==
  LET t == it.topic
  IN /\ Books(v, F \ {it.id}, topic, token)
     /\ v.subs = u.subs /\ v.native = u.native /\ v.socket = u.socket /\ v.count = u.count
     /\ v.total = u.total - 1
     /\ v.backed = IF mark /\ it.id \notin u.stale /\ t \in u.subs THEN u.backed \cup {t} ELSE u.backed
     /\ v.stale = u.stale \ {it.id}
     /\ v.parked = [u.parked EXCEPT ![t] = @ \ {it.id}]
     /\ \A s \in Topics \ {t} : v.entry[s] = u.entry[s]
     /\ v.entry[t].epoch \in {0, u.entry[t].epoch}
     /\ u.entry[t].inflight \in Nat \ {0}
     /\ u.entry[t].inflight <= 1 => v.parked[t] = {}
     /\ u.socket = "open" /\ u.entry[t].inflight > 1 => v.parked[t] # {}

\* The end of one enrolment. A mark is honest when it is current and about a membership.
LEMMA LeaveBooks ==
  ASSUME NEW u, NEW F \in SUBSET Ids, NEW topic, NEW token, Books(u, F, topic, token),
         NEW it \in Item, it.id \in F, topic[it.id] = it.topic, NEW mark \in BOOLEAN,
         mark /\ u.socket = "open" => it.id \notin u.stale /\ it.topic \in u.subs
  PROVE  AfterLeave(u, Leave(u, it, mark), F, it, mark, topic, token)
<1> DEFINE v == Leave(u, it, mark)
           t == it.topic
           new == IF u.entry[t].inflight <= 1 THEN NoEntry
                  ELSE [u.entry[t] EXCEPT !.inflight = @ - 1, !.granted = @ \/ mark]
           more == IF mark /\ it.id \notin u.stale /\ t \in u.subs THEN u.backed \cup {t} ELSE u.backed
<1>0. /\ u \in Ledger /\ t \in Topics /\ it.id \in Ids /\ it.id \in u.parked[t] /\ topic[it.id] = t
      /\ u.entry[t] \in [epoch : Nat, inflight : 0..MaxPending, granted : BOOLEAN]
      /\ IsFiniteSet(u.parked[t]) /\ Cardinality(u.parked[t]) <= u.entry[t].inflight
      /\ u.socket = "open" => Cardinality(u.parked[t]) = u.entry[t].inflight
  BY DEF Books, Item, Ledger, Counted
<1>1. Cardinality(u.parked[t]) \in Nat \ {0} /\ (Cardinality(u.parked[t]) = 1 => u.parked[t] = {it.id})
  <2>1. Cardinality(u.parked[t]) \in Nat /\ Cardinality(u.parked[t]) # 0
    BY <1>0, FS_CardinalityType, FS_EmptySet
  <2>2. Cardinality(u.parked[t]) = 1 => \E x : u.parked[t] = {x}
    BY <1>0, FS_Singleton
  <2> QED BY <2>1, <2>2, <1>0
<1>2. u.entry[t].inflight \in Nat \ {0} /\ (u.entry[t].inflight <= 1 => u.parked[t] = {it.id})
  <2>1. u.entry[t].inflight \in Nat
    BY <1>0
  <2> QED BY <2>1, <1>0, <1>1
<1>3. /\ new \in [epoch : Nat, inflight : 0..MaxPending, granted : BOOLEAN]
      /\ new.inflight = u.entry[t].inflight - 1
      /\ new.inflight = 0 => new = NoEntry
      /\ new.inflight # 0 => /\ new.epoch = u.entry[t].epoch
                             /\ new.granted = (u.entry[t].granted \/ mark)
      /\ new.epoch \in {0, u.entry[t].epoch}
  <2>1. CASE u.entry[t].inflight <= 1
    <3>1. u.entry[t].inflight = 1 BY <2>1, <1>2
    <3>2. 0 \in 0..MaxPending BY SubscriptionAssumption
    <3>3. new = NoEntry BY <2>1
    <3> QED BY <3>1, <3>2, <3>3 DEF NoEntry
  <2>2. CASE ~(u.entry[t].inflight <= 1)
    <3>1. u.entry[t].inflight - 1 \in (0..MaxPending) \ {0}
      <4>1. u.entry[t].inflight \in 0..MaxPending /\ u.entry[t].inflight > 1 /\ MaxPending \in Nat
        BY <2>2, <1>0, SubscriptionAssumption
      <4> QED BY <4>1
    <3>2. new = [u.entry[t] EXCEPT !.inflight = @ - 1, !.granted = @ \/ mark]
      BY <2>2
    <3> QED BY <3>1, <3>2, <1>0
  <2> QED BY <2>1, <2>2
<1>4. v = [u EXCEPT !.entry[t] = new, !.total = @ - 1, !.parked[t] = @ \ {it.id},
                    !.stale = @ \ {it.id}, !.backed = more]
  BY DEF Leave
<1> HIDE DEF v, t, new
<1>5. Cardinality(Places(u)) \in Nat \ {0}
  <2> DEFINE p == <<t, 1>>
  <2>1. MaxPending >= 1
    <3>1. PICK a \in Attempts, i \in 1..MaxPending : it.id = <<a, i>>
      BY <1>0 DEF Ids
    <3> QED BY <3>1, SubscriptionAssumption
  <2>2. p \in Topics \X (1..MaxPending) /\ p[1] = t /\ p[2] = 1
    BY <2>1, <1>0, SubscriptionAssumption
  <2>3. p \in Places(u)
    BY <2>2, <1>2 DEF Places
  <2> QED BY <2>3, PlacesFinite, FS_EmptySet
<1>6. u.total \in Nat \ {0}
  BY <1>5 DEF Books, Counted
<1>7. more \subseteq u.subs /\ more \in SUBSET Topics
  BY <1>0 DEF Books, Backed, Ledger
<1> HIDE DEF more
<1>8. /\ v \in Ledger
      /\ v.subs = u.subs /\ v.native = u.native /\ v.count = u.count /\ v.socket = u.socket
      /\ v.backed = more /\ v.stale = u.stale \ {it.id} /\ v.total = u.total - 1
      /\ v.entry = [u.entry EXCEPT ![t] = new]
      /\ v.parked = [u.parked EXCEPT ![t] = @ \ {it.id}]
  <2>1. [u.entry EXCEPT ![t] = new] \in [Topics -> [epoch : Nat, inflight : 0..MaxPending, granted : BOOLEAN]]
    BY <1>0, <1>3 DEF Ledger
  <2>2. [u.parked EXCEPT ![t] = @ \ {it.id}] \in [Topics -> SUBSET Ids]
    <3>1. u.parked \in [Topics -> SUBSET Ids] /\ u.parked[t] \ {it.id} \in SUBSET Ids
      BY <1>0 DEF Ledger
    <3> QED BY <3>1
  <2>3. u.total - 1 \in Nat
    BY <1>6
  <2>4. u.stale \ {it.id} \in SUBSET Ids
    BY <1>0 DEF Ledger
  <2> QED BY <1>0, <1>4, <1>7, <2>1, <2>2, <2>3, <2>4 DEF Ledger
<1>9. /\ v.entry[t] = new /\ v.parked[t] = u.parked[t] \ {it.id}
      /\ \A s \in Topics \ {t} : v.entry[s] = u.entry[s] /\ v.parked[s] = u.parked[s]
  BY <1>0, <1>8 DEF Ledger
<1>10. IsFiniteSet(v.parked[t]) /\ Cardinality(v.parked[t]) = Cardinality(u.parked[t]) - 1
  <2>1. IsFiniteSet(u.parked[t]) /\ it.id \in u.parked[t] /\ v.parked[t] = u.parked[t] \ {it.id}
    BY <1>0, <1>9
  <2> DEFINE P == u.parked[t]
             Q == v.parked[t]
  <2> HIDE DEF P, Q
  <2>2. IsFiniteSet(P) /\ it.id \in P /\ Q = P \ {it.id}
    BY <2>1 DEF P, Q
  <2>3. IsFiniteSet(Q) /\ Cardinality(Q) = Cardinality(P) - 1
    BY <2>2, FS_RemoveElement
  <2> QED BY <2>3 DEF P, Q
<1>11. Counted(v, F \ {it.id}, topic)
  <2>1. \A s \in Topics : v.parked[s] = {id \in F \ {it.id} : topic[id] = s}
    BY <1>0, <1>9 DEF Books, Counted
  <2>2. ASSUME NEW s \in Topics
        PROVE  /\ IsFiniteSet(v.parked[s])
               /\ Cardinality(v.parked[s]) <= v.entry[s].inflight
               /\ v.socket = "open" => Cardinality(v.parked[s]) = v.entry[s].inflight
               /\ v.entry[s].inflight = 0 => v.entry[s] = NoEntry
    <3>1. CASE s = t
      <4>1. v.entry[t].inflight = u.entry[t].inflight - 1
        BY <1>3, <1>9
      <4> QED BY <3>1, <4>1, <1>0, <1>1, <1>2, <1>3, <1>8, <1>9, <1>10
    <3>2. CASE s # t
      BY <3>2, <1>8, <1>9 DEF Books, Counted
    <3> QED BY <3>1, <3>2
  <2>3. v.total = Cardinality(Places(v)) /\ v.total <= MaxPending
    <3>0. u.total = Cardinality(Places(u)) /\ u.total <= MaxPending
      BY DEF Books, Counted
    <3>1. u.entry[t].inflight <= MaxPending
      BY <1>0
    <3>2. u \in Ledger /\ v \in Ledger /\ t \in Topics
      BY <1>0, <1>8
    <3>3. \A s \in Topics \ {t} : u.entry[s].inflight = v.entry[s].inflight
      BY <1>9
    <3>4. u.entry[t].inflight = v.entry[t].inflight + 1
      BY <1>2, <1>3, <1>9
    <3>5. Cardinality(Places(u)) = Cardinality(Places(v)) + 1
      BY <3>1, <3>2, <3>3, <3>4, OnePlace
    <3> QED BY <3>5, <3>0, <1>6, <1>8, PlacesFinite, SubscriptionAssumption
  <2>4. \A id \in F \ {it.id} : topic[id] \in Topics
    BY DEF Books, Counted
  <2> QED BY <2>1, <2>2, <2>3, <2>4 DEF Counted
<1>12. Dated(v, F \ {it.id}, topic, token)
  <2>1. v.stale \subseteq F \ {it.id}
    BY <1>8 DEF Books, Dated
  <2>2. ASSUME NEW id \in F \ {it.id}
        PROVE  v.entry[topic[id]].epoch = u.entry[topic[id]].epoch
    <3>1. topic[id] \in Topics /\ id \in u.parked[topic[id]]
      BY DEF Books, Counted
    <3>2. CASE topic[id] = t
      <4>1. u.entry[t].inflight # 1
        BY <3>1, <3>2, <1>2
      <4>2. new.inflight # 0
        BY <4>1, <1>2, <1>3
      <4> QED BY <3>2, <4>2, <1>3, <1>9
    <3>3. CASE topic[id] # t
      BY <3>1, <3>3, <1>9
    <3> QED BY <3>2, <3>3
  <2>3. \A id \in F \ {it.id} : id \in v.stale <=> id \in u.stale
    BY <1>8
  <2> QED BY <2>1, <2>2, <2>3 DEF Books, Dated
<1>13. Backed(v)
  <2>1. \A s \in v.backed : v.entry[s].inflight > 0 => v.entry[s].granted
    <3> SUFFICES ASSUME NEW s \in more, v.entry[s].inflight > 0 PROVE v.entry[s].granted
      BY <1>8
    <3>1. CASE s = t
      <4>1. new.inflight # 0 /\ u.entry[t].inflight > 0
        BY <3>1, <1>2, <1>3, <1>9
      <4>2. mark \/ t \in u.backed
        BY <3>1 DEF more
      <4>3. t \in u.backed => u.entry[t].granted
        BY <4>1 DEF Books, Backed
      <4> QED BY <3>1, <4>1, <4>2, <4>3, <1>3, <1>9
    <3>2. CASE s # t
      <4>1. s \in u.backed /\ s \in Topics
        BY <3>2, <1>7 DEF more
      <4> QED BY <3>2, <4>1, <1>9 DEF Books, Backed
    <3> QED BY <3>1, <3>2
  <2>2. v.socket = "open" => \A s \in Topics : v.entry[s].granted => s \in v.backed
    <3> SUFFICES ASSUME u.socket = "open", NEW s \in Topics, v.entry[s].granted PROVE s \in more
      BY <1>8
    <3>1. CASE s = t
      <4>1. new.inflight # 0
        BY <3>1, <1>3, <1>9 DEF NoEntry
      <4>2. u.entry[t].granted \/ mark
        BY <3>1, <4>1, <1>3, <1>9
      <4>3. u.entry[t].granted => t \in u.backed
        BY <1>0 DEF Books, Backed
      <4> QED BY <3>1, <4>2, <4>3 DEF more, t
    <3>2. CASE s # t
      BY <3>2, <1>9 DEF Books, Backed, more
    <3> QED BY <3>1, <3>2
  <2> QED BY <2>1, <2>2, <1>7, <1>8 DEF Books, Backed
<1>14. u.entry[t].inflight <= 1 => v.parked[t] = {}
  BY <1>2, <1>9
<1>15. u.socket = "open" /\ u.entry[t].inflight > 1 => v.parked[t] # {}
  BY <1>0, <1>1, <1>2, <1>10, FS_EmptySet
<1>16. v.entry[t].epoch \in {0, u.entry[t].epoch}
  BY <1>3, <1>9
<1> QED BY <1>2, <1>8, <1>9, <1>11, <1>12, <1>13, <1>14, <1>15, <1>16 DEF Books, AfterLeave, v, t, more

\* The books after a revocation of the topics of T.
AfterEvict(u, v, F, T, topic, token) ==
  /\ Books(v, F, topic, token)
  /\ v.subs = u.subs \ T /\ v.backed = u.backed \ T /\ v.socket = u.socket
  /\ v.parked = u.parked /\ v.total = u.total /\ u.stale \subseteq v.stale
  /\ \A s \in Topics : v.entry[s].inflight = u.entry[s].inflight
  /\ \A s \in Topics \ T : v.entry[s] = u.entry[s]

\* A revocation of the topics of T.
LEMMA EvictBooks ==
  ASSUME NEW u, NEW F \in SUBSET Ids, NEW topic, NEW token, Books(u, F, topic, token),
         NEW T \in SUBSET Topics
  PROVE  AfterEvict(u, Evict(u, T), F, T, topic, token)
<1> DEFINE v == Evict(u, T)
           new == [t \in Topics |->
                     IF t \in T /\ u.entry[t].inflight > 0
                     THEN [u.entry[t] EXCEPT !.epoch = @ + 1, !.granted = FALSE]
                     ELSE u.entry[t]]
           native == IF u.socket = "open" THEN u.native \ T ELSE u.native
           count == IF u.socket = "closed" THEN u.count ELSE u.count - Cardinality(u.subs \cap T)
           stale == u.stale \cup UNION {u.parked[t] : t \in T}
<1>0. u \in Ledger /\ u.entry \in [Topics -> [epoch : Nat, inflight : 0..MaxPending, granted : BOOLEAN]]
  BY DEF Books, Ledger
<1>1. ASSUME NEW s \in Topics
      PROVE  /\ new[s] \in [epoch : Nat, inflight : 0..MaxPending, granted : BOOLEAN]
             /\ new[s].inflight = u.entry[s].inflight
             /\ s \notin T => new[s] = u.entry[s]
             /\ s \in T => new[s].granted = FALSE
             /\ s \in T /\ u.entry[s].inflight > 0 => new[s].epoch = u.entry[s].epoch + 1
             /\ u.entry[s].inflight = 0 => new[s] = u.entry[s]
  <2>1. u.entry[s] \in [epoch : Nat, inflight : 0..MaxPending, granted : BOOLEAN]
    BY <1>0
  <2>2. CASE s \in T /\ u.entry[s].inflight > 0
    <3>1. new[s] = [u.entry[s] EXCEPT !.epoch = @ + 1, !.granted = FALSE]
      BY <2>2
    <3> DEFINE e == u.entry[s]
               n == new[s]
    <3>2. e \in [epoch : Nat, inflight : 0..MaxPending, granted : BOOLEAN] /\ e.inflight > 0
          /\ n = [e EXCEPT !.epoch = @ + 1, !.granted = FALSE]
      BY <2>1, <2>2, <3>1
    <3> HIDE DEF e, n
    <3>3. n \in [epoch : Nat, inflight : 0..MaxPending, granted : BOOLEAN] /\ n.inflight = e.inflight
          /\ n.granted = FALSE /\ n.epoch = e.epoch + 1 /\ e.inflight # 0
      <4>1. e.epoch + 1 \in Nat /\ e.inflight \in 0..MaxPending /\ e.inflight # 0
        BY <3>2, SubscriptionAssumption
      <4> QED BY <3>2, <4>1
    <3> QED BY <2>2, <3>3 DEF e, n
  <2>3. CASE ~(s \in T /\ u.entry[s].inflight > 0)
    <3>1. new[s] = u.entry[s]
      BY <2>3
    <3>2. s \in T => u.entry[s].inflight = 0
      BY <2>1, <2>3, SubscriptionAssumption
    <3>3. s \in T => u.entry[s].granted = FALSE
      BY <3>2 DEF Books, Counted, NoEntry
    <3> QED BY <2>1, <2>3, <3>1, <3>2, <3>3
  <2> QED BY <2>2, <2>3
<1>2. stale \in SUBSET Ids /\ stale \subseteq F
  BY <1>0 DEF Ledger, Books, Counted, Dated
<1>3. native \in SUBSET Topics
  BY <1>0 DEF Ledger
<1>4. IsFiniteSet(u.subs) /\ IsFiniteSet(u.subs \cap T) /\ Cardinality(u.subs \cap T) \in Int
      /\ Cardinality(u.subs \ T) = Cardinality(u.subs) - Cardinality(u.subs \cap T)
  <2>1. IsFiniteSet(u.subs) /\ IsFiniteSet(u.subs \cap T)
    BY <1>0, SubscriptionAssumption, FS_Subset DEF Ledger
  <2> DEFINE held == u.subs
             gone == u.subs \cap T
             rest == u.subs \ T
  <2>2. IsFiniteSet(held) /\ IsFiniteSet(gone) /\ rest = held \ gone /\ held \cap gone = gone
    BY <2>1
  <2> HIDE DEF held, gone, rest
  <2>3. Cardinality(rest) = Cardinality(held) - Cardinality(held \cap gone)
    BY <2>2, FS_Difference
  <2>4. Cardinality(gone) \in Int
    BY <2>2, FS_CardinalityType
  <2> QED BY <2>1, <2>2, <2>3, <2>4 DEF held, gone, rest
<1>5. count \in Int /\ count = IF u.socket = "closed" THEN 0 ELSE Cardinality(u.subs \ T)
  BY <1>0, <1>4 DEF Ledger, Books, Backed
<1>6. v = [u EXCEPT !.entry = new, !.subs = @ \ T, !.native = native, !.count = count,
                    !.backed = @ \ T, !.stale = stale]
  BY DEF Evict
<1>7. new \in [Topics -> [epoch : Nat, inflight : 0..MaxPending, granted : BOOLEAN]]
  <2>1. \A s \in Topics : new[s] \in [epoch : Nat, inflight : 0..MaxPending, granted : BOOLEAN]
    BY <1>1
  <2> QED BY <2>1
<1>s. stale = u.stale \cup UNION {u.parked[t] : t \in T}
  OBVIOUS
<1>n. u.socket = "open" => native = u.native \ T
  OBVIOUS
<1> HIDE DEF v, new, native, count, stale
<1>8. /\ v \in Ledger
      /\ v.subs = u.subs \ T /\ v.native = native /\ v.count = count /\ v.socket = u.socket
      /\ v.backed = u.backed \ T /\ v.stale = stale /\ v.total = u.total
      /\ v.entry = new /\ v.parked = u.parked
  <2>1. u.subs \ T \in SUBSET Topics /\ u.backed \ T \in SUBSET Topics
    BY <1>0 DEF Ledger
  <2> QED BY <1>0, <1>2, <1>3, <1>5, <1>6, <1>7, <2>1 DEF Ledger
<1>9. Counted(v, F, topic)
  <2>1. Places(v) = Places(u)
    <3>1. \A s \in Topics : v.entry[s].inflight = u.entry[s].inflight
      BY <1>1, <1>8
    <3> QED BY <3>1 DEF Places
  <2> QED BY <2>1, <1>1, <1>8 DEF Books, Counted
<1>10. Dated(v, F, topic, token)
  <2>1. ASSUME NEW id \in F
        PROVE  /\ token[id] \in 0..v.entry[topic[id]].epoch
               /\ id \in v.stale <=> token[id] # v.entry[topic[id]].epoch
    <3> DEFINE t == topic[id]
               now == u.entry[t].epoch
    <3>1. t \in Topics /\ id \in u.parked[t] /\ now \in Nat /\ token[id] \in 0..now
          /\ (id \in u.stale <=> token[id] # now)
      <4>1. t \in Topics /\ id \in u.parked[t]
        BY DEF Books, Counted
      <4>2. now \in Nat
        BY <4>1, <1>0
      <4> QED BY <4>1, <4>2 DEF Books, Dated
    <3>2. CASE t \in T
      <4>1. u.entry[t].inflight > 0
        <5>1. IsFiniteSet(u.parked[t]) /\ Cardinality(u.parked[t]) <= u.entry[t].inflight
          BY <3>1 DEF Books, Counted
        <5>2. Cardinality(u.parked[t]) \in Nat /\ Cardinality(u.parked[t]) # 0
          BY <3>1, <5>1, FS_CardinalityType, FS_EmptySet
        <5>3. u.entry[t].inflight \in 0..MaxPending
          BY <3>1, <1>0
        <5> DEFINE size == Cardinality(u.parked[t])
        <5>4. size \in Nat /\ size # 0 /\ size <= u.entry[t].inflight
          BY <5>1, <5>2
        <5> HIDE DEF size
        <5> QED BY <5>3, <5>4, SubscriptionAssumption
      <4>2. v.entry[t].epoch = now + 1
        BY <3>1, <3>2, <4>1, <1>1, <1>8
      <4>3. id \in v.stale
        BY <3>1, <3>2, <1>8, <1>s
      <4>4. now \in Nat /\ token[id] \in 0..now
        BY <3>1
      <4> HIDE DEF now
      <4>5. token[id] \in 0..(now + 1) /\ token[id] # now + 1
        BY <4>4
      <4> QED BY <4>2, <4>3, <4>5 DEF t
    <3>3. CASE t \notin T
      <4>1. v.entry[t] = u.entry[t]
        BY <3>1, <3>3, <1>1, <1>8
      <4>2. id \in v.stale <=> id \in u.stale
        <5>1. ASSUME NEW s \in T PROVE id \notin u.parked[s]
          <6>1. u.parked[s] = {x \in F : topic[x] = s}
            BY DEF Books, Counted
          <6>2. topic[id] # s
            BY <3>3
          <6> QED BY <6>1, <6>2
        <5> QED BY <5>1, <1>8, <1>s
      <4> QED BY <3>1, <4>1, <4>2
    <3> QED BY <3>2, <3>3
  <2> QED BY <2>1, <1>2, <1>8 DEF Dated
<1>11. Backed(v)
  <2>1. v.backed \subseteq v.subs /\ (v.socket = "open" => v.native = v.subs)
    BY <1>8, <1>n DEF Books, Backed
  <2>2. \A s \in v.backed : v.entry[s].inflight > 0 => v.entry[s].granted
    <3> SUFFICES ASSUME NEW s \in u.backed \ T, v.entry[s].inflight > 0 PROVE v.entry[s].granted
      BY <1>8
    <3>1. s \in Topics
      BY <1>0 DEF Ledger
    <3>2. v.entry[s] = u.entry[s]
      BY <3>1, <1>1, <1>8
    <3> QED BY <3>2 DEF Books, Backed
  <2>3. v.socket = "open" => \A s \in Topics : v.entry[s].granted => s \in v.backed
    <3> SUFFICES ASSUME u.socket = "open", NEW s \in Topics, v.entry[s].granted PROVE s \in u.backed \ T
      BY <1>8
    <3>1. s \notin T /\ v.entry[s] = u.entry[s]
      BY <1>1, <1>8
    <3> QED BY <3>1 DEF Books, Backed
  <2>4. v.count = IF v.socket = "closed" THEN 0 ELSE Cardinality(v.subs)
    BY <1>5, <1>8
  <2> QED BY <2>1, <2>2, <2>3, <2>4 DEF Backed
<1> QED BY <1>1, <1>8, <1>9, <1>10, <1>11, <1>s DEF Books, AfterEvict, v

\* The books after a membership comes.
AfterInstall(u, v, F, t, topic, token) ==
  /\ Books(v, F, topic, token)
  /\ v.subs = u.subs \cup {t} /\ v.backed = u.backed /\ v.socket = u.socket
  /\ v.entry = u.entry /\ v.parked = u.parked /\ v.total = u.total /\ v.stale = u.stale

\* A membership comes, on a socket that is open; the books are kept up to its backing.
LEMMA InstallBooks ==
  ASSUME NEW u, NEW F \in SUBSET Ids, NEW topic, NEW token, Books(u, F, topic, token),
         NEW t \in Topics \ u.subs, u.socket = "open"
  PROVE  AfterInstall(u, Install(u, t), F, t, topic, token)
<1> DEFINE v == Install(u, t)
<1>0. u \in Ledger
  BY DEF Books
<1>1. /\ v \in Ledger
      /\ v.subs = u.subs \cup {t} /\ v.native = u.native \cup {t} /\ v.count = u.count + 1
      /\ v.socket = u.socket /\ v.backed = u.backed /\ v.stale = u.stale /\ v.total = u.total
      /\ v.entry = u.entry /\ v.parked = u.parked
  <2>1. u.subs \cup {t} \in SUBSET Topics /\ u.native \cup {t} \in SUBSET Topics /\ u.count + 1 \in Int
    BY <1>0 DEF Ledger
  <2>2. v = [u EXCEPT !.native = u.native \cup {t}, !.subs = u.subs \cup {t}, !.count = u.count + 1]
    BY DEF Install
  <2> HIDE DEF v
  <2> QED BY <1>0, <2>1, <2>2 DEF Ledger
<1> HIDE DEF v
<1>2. Counted(v, F, topic) /\ Dated(v, F, topic, token)
  BY <1>1 DEF Books, Counted, Dated, Places
<1>3. Cardinality(v.subs) = Cardinality(u.subs) + 1
  <2>1. IsFiniteSet(u.subs)
    BY <1>0, SubscriptionAssumption, FS_Subset DEF Ledger
  <2> DEFINE held == u.subs
             now == v.subs
  <2>2. IsFiniteSet(held) /\ t \notin held /\ now = held \cup {t}
    BY <1>1, <2>1
  <2> HIDE DEF held, now
  <2>3. Cardinality(now) = Cardinality(held) + 1
    BY <2>2, FS_AddElement
  <2> QED BY <2>3 DEF held, now
<1>4. Backed(v)
  BY <1>1, <1>3 DEF Books, Backed
<1> QED BY <1>1, <1>2, <1>4 DEF Books, AfterInstall, v

-----------------------------------------------------------------------------
(* The landing of one item.                                                 *)

\* The item that lands is one of those in flight, as the record knows it.
Awaited(it, F, topic, token) ==
  /\ it \in Item /\ it.id \in F
  /\ topic[it.id] = it.topic /\ token[it.id] = it.token

\* What every landing keeps: the books without the item, and what is backed,
\* but for the taps of a topic that nothing stood behind.
Settled(u, w, F, it, topic, token) ==
  /\ Books(w, F \ {it.id}, topic, token) /\ NoOrphan(w)
  /\ w.socket = u.socket
  /\ u.stale \ {it.id} \subseteq w.stale
  /\ w.parked = [u.parked EXCEPT ![it.topic] = @ \ {it.id}]
  /\ u.backed \cap w.subs \subseteq w.backed
  /\ \A t \in u.backed \ w.subs :
       /\ it.topic \in u.subs \ (u.backed \cup w.subs)
       /\ t \in Derived[it.topic]
       /\ w.parked[it.topic] = {}

\* An item presents the epoch of the moment exactly when no revocation overtook it.
LEMMA CurrentIsNotStale ==
  ASSUME NEW u, NEW F \in SUBSET Ids, NEW topic, NEW token, Books(u, F, topic, token),
         NEW it, Awaited(it, F, topic, token)
  PROVE  Current(u, it) <=> it.id \notin u.stale
BY DEF Books, Dated, Awaited, Current

\* A refusal evicts a membership that nothing stands behind and nobody else awaits.
LEMMA DeniedSettles ==
  ASSUME NEW u, NEW F \in SUBSET Ids, NEW topic, NEW token, Books(u, F, topic, token), NoOrphan(u),
         NEW it, Awaited(it, F, topic, token)
  PROVE  LET w == Denied(u, it)
         IN Settled(u, w, F, it, topic, token) /\ w.subs \subseteq u.subs
<1> DEFINE v == Leave(u, it, FALSE)
           t == it.topic
           w == Denied(u, it)
           T == {t} \cup Derived[t]
<1>0. it \in Item /\ it.id \in F /\ topic[it.id] = t /\ t \in Topics /\ u \in Ledger
  BY DEF Awaited, Item, Books
<1>1. /\ Books(v, F \ {it.id}, topic, token)
      /\ v.subs = u.subs /\ v.socket = u.socket /\ v.backed = u.backed
      /\ v.stale = u.stale \ {it.id}
      /\ v.parked = [u.parked EXCEPT ![t] = @ \ {it.id}]
      /\ u.entry[t].inflight <= 1 => v.parked[t] = {}
      /\ u.socket = "open" /\ u.entry[t].inflight > 1 => v.parked[t] # {}
      /\ u.entry[t].inflight \in Nat \ {0}
  <2>1. FALSE \in BOOLEAN /\ (FALSE /\ u.socket = "open" => it.id \notin u.stale /\ t \in u.subs)
    OBVIOUS
  <2>2. AfterLeave(u, v, F, it, FALSE, topic, token)
    BY <1>0, <2>1, LeaveBooks
  <2> HIDE DEF v
  <2> QED BY <2>2 DEF AfterLeave
<1>2. \A s \in Topics \ {t} : v.parked[s] = u.parked[s]
  BY <1>0, <1>1 DEF Ledger
<1>4. CASE DenialUnwinds(u, it)
  <2>1. t \in u.subs /\ ~u.entry[t].granted /\ u.entry[t].inflight <= 1
    BY <1>4 DEF DenialUnwinds
  <2>2. T \in SUBSET Topics
    BY <1>0, SubscriptionAssumption
  <2>3. w = Evict(v, T)
    BY <1>4 DEF Denied, Unwind
  <2> HIDE DEF w, v, T
  <2>4. /\ Books(w, F \ {it.id}, topic, token)
        /\ w.subs = v.subs \ T /\ w.backed = v.backed \ T /\ w.socket = v.socket
        /\ w.parked = v.parked /\ v.stale \subseteq w.stale
    <3>1. F \ {it.id} \in SUBSET Ids
      OBVIOUS
    <3>2. AfterEvict(v, Evict(v, T), F \ {it.id}, T, topic, token)
      BY <1>1, <2>2, <3>1, EvictBooks
    <3> QED BY <3>2, <2>3 DEF AfterEvict
  <2>5. t \notin u.backed
    <3>1. u.entry[t].inflight > 0
      BY <1>1
    <3> QED BY <2>1, <3>1 DEF Books, Backed
  <2>6. NoOrphan(w)
    <3> SUFFICES ASSUME w.socket = "open", NEW s \in w.subs, w.parked[s] = {}
                 PROVE  s \in w.backed
      BY DEF NoOrphan
    <3>1. s \in u.subs /\ s \in Topics /\ s \notin T /\ s # t
      BY <1>0, <1>1, <2>4 DEF Ledger, T
    <3>2. u.parked[s] = {} /\ u.socket = "open"
      BY <3>1, <1>1, <1>2, <2>4
    <3> QED BY <3>1, <3>2, <1>1, <2>4 DEF NoOrphan
  <2>7. ASSUME NEW s \in u.backed \ w.subs
        PROVE  s \in Derived[t] /\ t \in u.subs \ (u.backed \cup w.subs) /\ w.parked[t] = {}
    <3>1. s \in u.subs
      BY DEF Books, Backed
    <3> QED BY <3>1, <1>1, <2>1, <2>4, <2>5 DEF T
  <2>8. u.backed \cap w.subs \subseteq w.backed
    BY <1>1, <2>4
  <2>9. u.stale \ {it.id} \subseteq w.stale /\ w.subs \subseteq u.subs
    BY <1>1, <2>4
  <2> QED BY <1>1, <2>4, <2>6, <2>7, <2>8, <2>9 DEF Settled, w
<1>5. CASE ~DenialUnwinds(u, it)
  <2>1. w = v
    BY <1>5 DEF Denied
  <2>2. ~(t \in u.subs /\ ~u.entry[t].granted /\ u.entry[t].inflight <= 1)
    BY <1>5 DEF DenialUnwinds
  <2> HIDE DEF w, v
  <2>3. NoOrphan(w)
    <3> SUFFICES ASSUME u.socket = "open", NEW s \in u.subs, v.parked[s] = {}
                 PROVE  s \in u.backed
      BY <1>1, <2>1 DEF NoOrphan
    <3>1. s \in Topics
      BY <1>0 DEF Ledger
    <3>2. CASE s = t
      <4>1. u.entry[t].inflight <= 1
        BY <3>2, <1>1
      <4> QED BY <3>2, <4>1, <2>2, <1>0 DEF Books, Backed
    <3>3. CASE s # t
      BY <3>1, <3>3, <1>2 DEF NoOrphan
    <3> QED BY <3>2, <3>3
  <2>4. u.backed \subseteq u.subs
    BY DEF Books, Backed
  <2> QED BY <1>1, <2>1, <2>3, <2>4 DEF Settled, w
<1> QED BY <1>4, <1>5

\* The topic is held: the item is the authority of the moment, or leans on it.
LEMMA HeldSettles ==
  ASSUME NEW u, NEW F \in SUBSET Ids, NEW topic, NEW token, Books(u, F, topic, token), NoOrphan(u),
         NEW it, Awaited(it, F, topic, token), it.topic \in u.subs
  PROVE  LET o == HeldLanding(u, it)
         IN /\ Settled(u, o.u, F, it, topic, token) /\ o.u.subs \subseteq u.subs
            /\ o.ack /\ u.socket = "open" => it.topic \in o.u.backed
<1> DEFINE t == it.topic
           mark == Current(u, it)
           v == Leave(u, it, mark)
           o == HeldLanding(u, it)
<1>0. it \in Item /\ it.id \in F /\ topic[it.id] = t /\ t \in Topics /\ u \in Ledger
  BY DEF Awaited, Item, Books
<1>1. mark \in BOOLEAN /\ (mark <=> it.id \notin u.stale)
  BY CurrentIsNotStale DEF Current
<1> HIDE DEF mark
<1>2. /\ Books(v, F \ {it.id}, topic, token)
      /\ v.subs = u.subs /\ v.socket = u.socket
      /\ v.backed = IF mark THEN u.backed \cup {t} ELSE u.backed
      /\ v.stale = u.stale \ {it.id}
      /\ v.parked = [u.parked EXCEPT ![t] = @ \ {it.id}]
      /\ u.entry[t].inflight \in Nat \ {0}
      /\ u.socket = "open" /\ u.entry[t].inflight > 1 => v.parked[t] # {}
  <2>1. AfterLeave(u, v, F, it, mark, topic, token)
    BY <1>0, <1>1, LeaveBooks
  <2> HIDE DEF v
  <2> QED BY <2>1, <1>1 DEF AfterLeave
<1>3. u.entry[t].inflight > 0 /\ u.entry[t].inflight # 0
  BY <1>2
<1>4. CASE WouldAck(u, it)
  <2>1. mark \/ u.entry[t].granted
    BY <1>3, <1>4 DEF WouldAck, HeldLanding, Acked, mark, Current
  <2>2. o.u = v
    BY <1>4 DEF HeldLanding, Acked, mark
  <2> HIDE DEF o, v
  <2>3. u.socket = "open" => t \in v.backed
    BY <1>0, <1>2, <2>1 DEF Books, Backed
  <2>4. \A s \in Topics \ {t} : v.parked[s] = u.parked[s]
    BY <1>0, <1>2 DEF Ledger
  <2>5. NoOrphan(v)
    <3> SUFFICES ASSUME u.socket = "open", NEW s \in u.subs, v.parked[s] = {}
                 PROVE  s \in v.backed
      BY <1>2 DEF NoOrphan
    <3>1. s \in Topics
      BY <1>0 DEF Ledger
    <3>2. s # t => s \in u.backed
      BY <3>1, <2>4 DEF NoOrphan
    <3> QED BY <3>2, <2>3, <1>2
  <2>6. u.backed \subseteq u.subs /\ u.backed \subseteq v.backed
    BY <1>2 DEF Books, Backed
  <2> QED BY <1>2, <2>2, <2>3, <2>5, <2>6 DEF Settled, o
<1>5. CASE ~WouldAck(u, it)
  <2>1. ~u.entry[t].granted /\ ~mark
    BY <1>5 DEF WouldAck, mark, Current
  <2>2. o.u = Denied(u, it) /\ o.ack = FALSE
    BY <1>5, <2>1 DEF HeldLanding, Denied, DenialUnwinds, Refused
  <2> HIDE DEF o
  <2> QED BY <2>2, DeniedSettles DEF o
<1> QED BY <1>4, <1>5

\* What the landing of an item whose topic is not held does.
AfterFresh(u, o, F, lane, it, topic, token) ==
  /\ Settled(u, o.u, F, it, topic, token)
  /\ o.u.subs = u.subs
     \/ /\ o.u.subs = u.subs \cup {it.topic} /\ it.topic \in o.u.backed
        /\ it.id \notin u.stale
        /\ lane \in {"wire", "batch"} => ~armed /\ it.topic \notin PluginOwned
  /\ o.ack /\ u.socket = "open" => it.topic \in o.u.backed

\* The topic is not held: only a current item that passes every gate installs it.
LEMMA FreshSettles ==
  ASSUME NEW u, NEW F \in SUBSET Ids, NEW topic, NEW token, Books(u, F, topic, token), NoOrphan(u),
         NEW it, Awaited(it, F, topic, token), it.topic \notin u.subs, NEW lane
  PROVE  AfterFresh(u, FreshLanding(u, lane, it), F, lane, it, topic, token)
<1> DEFINE t == it.topic
           o == FreshLanding(u, lane, it)
           refuse == \/ lane = "observer"
                     \/ Full(u) /\ ~(lane = "wire" /\ it.served)
                     \/ lane \in {"wire", "batch"} /\ LandingGate(t, FALSE)
                     \/ ~Current(u, it)
<1>0. it \in Item /\ it.id \in F /\ topic[it.id] = t /\ t \in Topics /\ u \in Ledger
  BY DEF Awaited, Item, Books
<1>1. CASE refuse
  <2>1. o.u = Denied(u, it) /\ o.ack = FALSE
    BY <1>1 DEF FreshLanding, Denied, DenialUnwinds, Refused
  <2>2. Settled(u, o.u, F, it, topic, token) /\ o.u.subs \subseteq u.subs
    BY <2>1, DeniedSettles
  <2>3. o.u.subs = u.subs
    <3>1. o.u = Leave(u, it, FALSE)
      BY <2>1 DEF Denied, DenialUnwinds
    <3> QED BY <3>1 DEF Leave
  <2> HIDE DEF o
  <2> QED BY <2>1, <2>2, <2>3 DEF o, AfterFresh
<1>2. CASE ~refuse
  <2>1. /\ Current(u, it)
        /\ lane \in {"wire", "batch"} => ~armed /\ t \notin PluginOwned
    BY <1>2 DEF LandingGate
  <2>2. it.id \notin u.stale
    BY <2>1, CurrentIsNotStale
  <2>3. CASE u.socket = "open"
    <3> DEFINE v == Install(u, t)
               w == Leave(v, it, TRUE)
    <3>1. o.u = w
      BY <1>2, <2>3 DEF FreshLanding, Acked
    <3>2. AfterInstall(u, v, F, t, topic, token)
      BY <1>0, <2>3, InstallBooks
    <3> HIDE DEF v
    <3>3. Books(v, F, topic, token) /\ it.id \notin v.stale /\ t \in v.subs /\ v.parked = u.parked
          /\ v.subs = u.subs \cup {t} /\ v.backed = u.backed /\ v.stale = u.stale /\ v.socket = u.socket
      BY <2>2, <3>2 DEF AfterInstall
    <3>4. AfterLeave(v, w, F, it, TRUE, topic, token)
      <4>1. TRUE \in BOOLEAN /\ (TRUE /\ v.socket = "open" => it.id \notin v.stale /\ t \in v.subs)
        BY <3>3
      <4> QED BY <1>0, <3>3, <4>1, LeaveBooks
    <3> HIDE DEF w, o
    <3>5. /\ Books(w, F \ {it.id}, topic, token)
          /\ w.subs = u.subs \cup {t} /\ w.socket = u.socket
          /\ w.backed = u.backed \cup {t}
          /\ w.stale = u.stale \ {it.id}
          /\ w.parked = [u.parked EXCEPT ![t] = @ \ {it.id}]
      BY <3>3, <3>4 DEF AfterLeave
    <3>6. NoOrphan(w)
      <4> SUFFICES ASSUME u.socket = "open", NEW s \in u.subs \cup {t}, w.parked[s] = {}
                   PROVE  s \in u.backed \cup {t}
        BY <3>5 DEF NoOrphan
      <4>1. s \in Topics /\ (s # t => u.parked[s] = {})
        BY <1>0, <3>5 DEF Ledger
      <4> QED BY <4>1 DEF NoOrphan
    <3>7. u.backed \subseteq u.subs
      BY DEF Books, Backed
    <3>8. Settled(u, w, F, it, topic, token)
      BY <3>5, <3>6, <3>7 DEF Settled
    <3> QED BY <2>1, <2>2, <3>1, <3>5, <3>8 DEF o, AfterFresh
  <2>4. CASE u.socket # "open"
    <3> DEFINE w == Leave(u, it, TRUE)
    <3>1. o.u = w
      BY <1>2, <2>4 DEF FreshLanding, Refused
    <3>2. AfterLeave(u, w, F, it, TRUE, topic, token)
      <4>1. TRUE \in BOOLEAN /\ (TRUE /\ u.socket = "open" => it.id \notin u.stale /\ t \in u.subs)
        BY <2>4
      <4> QED BY <1>0, <4>1, LeaveBooks
    <3> HIDE DEF w, o
    <3>3. /\ Books(w, F \ {it.id}, topic, token)
          /\ w.subs = u.subs /\ w.socket = u.socket /\ w.backed = u.backed
          /\ w.stale = u.stale \ {it.id}
          /\ w.parked = [u.parked EXCEPT ![t] = @ \ {it.id}]
      BY <3>2 DEF AfterLeave
    <3>4. NoOrphan(w) /\ u.backed \subseteq u.subs
      BY <2>4, <3>3 DEF NoOrphan, Books, Backed
    <3>5. Settled(u, w, F, it, topic, token)
      BY <3>3, <3>4 DEF Settled
    <3> QED BY <2>4, <3>1, <3>3, <3>5 DEF o, AfterFresh
  <2> QED BY <2>3, <2>4
<1> QED BY <1>1, <1>2

\* What the landing of an item does, held or not.
AfterOutcome(u, o, F, lane, it, topic, token) ==
  /\ Settled(u, o.u, F, it, topic, token)
  /\ \A t \in o.u.subs \ u.subs :
       /\ t = it.topic /\ t \in o.u.backed /\ it.allow /\ it.id \notin u.stale
       /\ lane \in {"wire", "batch"} => ~armed /\ t \notin PluginOwned
  /\ o.ack /\ u.socket = "open" => it.topic \in o.u.backed

\* What the landing of one item does to the connection, and what it tells the subscriber.
LEMMA OutcomeSettles ==
  ASSUME NEW u, NEW F \in SUBSET Ids, NEW topic, NEW token, Books(u, F, topic, token), NoOrphan(u),
         NEW it, Awaited(it, F, topic, token), NEW lane
  PROVE  AfterOutcome(u, Outcome(u, lane, it), F, lane, it, topic, token)
<1> DEFINE o == Outcome(u, lane, it)
           held == it.topic \in u.subs
           gate == lane \in {"wire", "batch"} /\ LandingGate(it.topic, HeldAuthorized(u, it))
<1>1. CASE ~it.allow \/ (held /\ gate)
  <2>1. o.u = Denied(u, it) /\ o.ack = FALSE
    BY <1>1 DEF Outcome, Refused
  <2> HIDE DEF o
  <2> QED BY <2>1, DeniedSettles DEF o, AfterOutcome
<1>2. CASE ~(~it.allow \/ (held /\ gate)) /\ held
  <2>1. o = HeldLanding(u, it)
    BY <1>2 DEF Outcome
  <2> HIDE DEF o
  <2> QED BY <1>2, <2>1, HeldSettles DEF o, AfterOutcome
<1>3. CASE it.allow /\ ~held
  <2>1. o = FreshLanding(u, lane, it)
    BY <1>3 DEF Outcome
  <2> HIDE DEF o
  <2>2. /\ Settled(u, o.u, F, it, topic, token)
        /\ o.u.subs = u.subs
           \/ /\ o.u.subs = u.subs \cup {it.topic} /\ it.topic \in o.u.backed
              /\ it.id \notin u.stale
              /\ lane \in {"wire", "batch"} => ~armed /\ it.topic \notin PluginOwned
        /\ o.ack /\ u.socket = "open" => it.topic \in o.u.backed
    <3>1. it.topic \notin u.subs
      BY <1>3
    <3>2. AfterFresh(u, FreshLanding(u, lane, it), F, lane, it, topic, token)
      BY <3>1, FreshSettles
    <3> QED BY <3>2, <2>1 DEF AfterFresh
  <2>3. ASSUME NEW t \in o.u.subs \ u.subs
        PROVE  /\ t = it.topic /\ t \in o.u.backed /\ it.allow /\ it.id \notin u.stale
               /\ lane \in {"wire", "batch"} => ~armed /\ t \notin PluginOwned
    <3>1. o.u.subs # u.subs
      OBVIOUS
    <3>2. t = it.topic
      BY <2>2
    <3> QED BY <1>3, <2>2, <3>1, <3>2
  <2> QED BY <2>2, <2>3 DEF o, AfterOutcome
<1> QED BY <1>1, <1>2, <1>3

-----------------------------------------------------------------------------
(* The landing of a frame, item after item.                                 *)

\* The first n items of attempt a.
Mine(a, n) == {<<a, i>> : i \in 1..n}

\* The items of attempt a, in order, each of them in flight.
Frame(a, items, F, topic, token) ==
  /\ items \in Seq(Item) /\ Len(items) <= MaxPending
  /\ \A i \in 1..Len(items) : items[i].id = <<a, i>> /\ Awaited(items[i], F, topic, token)

\* What is true of the connection u after n items: its books; what was installed
\* is the right of an item of the frame; what was backed or acknowledged is
\* backed still, or a tap of a topic that the frame took away for good.
InstalledByRight(u, n, lane, items) ==
  \A t \in u.subs \ ud.subs : \E i \in 1..n :
    /\ items[i].topic = t /\ items[i].allow /\ items[i].id \notin ud.stale
    /\ lane \in {"wire", "batch"} => ~armed /\ t \notin PluginOwned

\* The topics of T have their authority, or are taps of a topic that went.
StandsOrTap(u, T) ==
  \A t \in T : \/ t \in u.backed
               \/ \E b \in ud.subs \ u.subs : t \in Derived[b] /\ u.parked[b] = {}

\* After n items of the frame, the socket being as it was.
Going(u, n, a, F, topic, token) ==
  /\ Books(u, F \ Mine(a, n), topic, token) /\ NoOrphan(u)
  /\ u.socket = ud.socket
  /\ ud.stale \ Mine(a, n) \subseteq u.stale
  /\ u.subs \ ud.subs \subseteq u.backed

\* A rollback found the socket closed after k of them: the rest is not landed.
Ended(u, n, a, F, topic, token) ==
  /\ ud.socket = "open" /\ u.socket = "closing"
  /\ \E k \in 0..n : Books(u, F \ Mine(a, k), topic, token)

Landed1(r, n, a, lane, items, F, topic, token) ==
  /\ r.acks \subseteq Topics
  /\ IF r.gone THEN Ended(r.u, n, a, F, topic, token) ELSE Going(r.u, n, a, F, topic, token)
  /\ InstalledByRight(r.u, n, lane, items)
  /\ StandsOrTap(r.u, ud.backed \cup r.acks)

\* Before the first item nothing has changed.
LEMMA NothingLanded ==
  ASSUME NEW a, NEW lane, NEW items, NEW F \in SUBSET Ids, NEW topic, NEW token,
         Books(ud, F, topic, token), NoOrphan(ud)
  PROVE  Landed1([u |-> ud, acks |-> {}, gone |-> FALSE], 0, a, lane, items, F, topic, token)
<1>1. Mine(a, 0) = {}
  BY DEF Mine
<1>2. F \ {} = F /\ ud.stale \ {} = ud.stale
  OBVIOUS
<1> QED BY <1>1, <1>2 DEF Landed1, Going, InstalledByRight, StandsOrTap

\* The next item of the frame lands.
LEMMA OneMoreLanded ==
  ASSUME NEW a \in Attempts, NEW lane, NEW items, NEW closer, NEW F \in SUBSET Ids,
         NEW topic, NEW token, Frame(a, items, F, topic, token),
         NEW n \in 1..Len(items), NEW r, Landed1(r, n - 1, a, lane, items, F, topic, token)
  PROVE  Landed1(LandOne(r, lane, items[n], closer), n, a, lane, items, F, topic, token)
<1> DEFINE it == items[n]
           t == it.topic
           G == F \ Mine(a, n - 1)
           u == r.u
           o == Outcome(u, lane, it)
           w == o.u
           q == LandOne(r, lane, it, closer)
<1>0. n \in Nat /\ n - 1 \in Nat /\ n - 1 < n /\ Len(items) \in Nat
  BY DEF Frame
<1>1. ASSUME r.gone PROVE Landed1(q, n, a, lane, items, F, topic, token)
  <2>1. q = r
    BY <1>1 DEF LandOne
  <2>2. \A k \in 0..(n - 1) : k \in 0..n
    BY <1>0
  <2>3. Ended(r.u, n, a, F, topic, token)
    BY <1>1, <2>2 DEF Landed1, Ended
  <2>4. InstalledByRight(r.u, n, lane, items)
    <3>1. \A k \in 1..(n - 1) : k \in 1..n
      BY <1>0
    <3> QED BY <3>1 DEF Landed1, InstalledByRight
  <2> HIDE DEF q
  <2> QED BY <1>1, <2>1, <2>3, <2>4 DEF Landed1
<1>2. ASSUME ~r.gone PROVE Landed1(q, n, a, lane, items, F, topic, token)
  <2>1. /\ Books(u, G, topic, token) /\ NoOrphan(u) /\ u.socket = ud.socket
        /\ ud.stale \ Mine(a, n - 1) \subseteq u.stale /\ u.subs \ ud.subs \subseteq u.backed
        /\ r.acks \subseteq Topics
        /\ InstalledByRight(u, n - 1, lane, items)
        /\ StandsOrTap(u, ud.backed \cup r.acks)
    BY <1>2 DEF Landed1, Going
  <2>2. it.id = <<a, n>> /\ Awaited(it, F, topic, token) /\ it \in Item /\ t \in Topics
    BY DEF Frame, Awaited, Item
  <2>3. it.id \notin Mine(a, n - 1) /\ Mine(a, n) = Mine(a, n - 1) \cup {it.id}
    <3>1. <<a, n>> \notin Mine(a, n - 1)
      <4> SUFFICES ASSUME NEW i \in 1..(n - 1), <<a, n>> = <<a, i>> PROVE FALSE
        BY DEF Mine
      <4> QED BY <1>0
    <3>2. 1..n = 1..(n - 1) \cup {n}
      BY <1>0
    <3> QED BY <2>2, <3>1, <3>2 DEF Mine
  <2>4. G \in SUBSET Ids /\ Awaited(it, G, topic, token) /\ G \ {it.id} = F \ Mine(a, n)
    BY <2>2, <2>3 DEF Awaited
  <2>5. AfterOutcome(u, o, G, lane, it, topic, token)
    BY <2>1, <2>4, OutcomeSettles
  <2> HIDE DEF o, G, u
  <2>6. /\ Settled(u, w, G, it, topic, token)
        /\ \A s \in w.subs \ u.subs :
             /\ s = t /\ s \in w.backed /\ it.allow /\ it.id \notin u.stale
             /\ lane \in {"wire", "batch"} => ~armed /\ s \notin PluginOwned
        /\ o.ack /\ u.socket = "open" => t \in w.backed
    BY <2>5 DEF AfterOutcome
  <2> HIDE DEF w
  <2>7. /\ Books(w, F \ Mine(a, n), topic, token) /\ NoOrphan(w)
        /\ w.socket = u.socket
        /\ u.stale \ {it.id} \subseteq w.stale
        /\ w.parked = [u.parked EXCEPT ![t] = @ \ {it.id}]
        /\ u.backed \cap w.subs \subseteq w.backed
        /\ \A s \in u.backed \ w.subs : t \in u.subs \ (u.backed \cup w.subs) /\ s \in Derived[t] /\ w.parked[t] = {}
    BY <2>4, <2>6 DEF Settled
  <2>8. /\ t \in Topics /\ it.id \in u.parked[t]
        /\ u \in Ledger /\ w \in Ledger
    BY <2>1, <2>2, <2>4, <2>7 DEF Books, Counted, Awaited
  <2>9. Going(w, n, a, F, topic, token)
    <3>1. ud.stale \ Mine(a, n) \subseteq w.stale
      BY <2>1, <2>3, <2>7
    <3>2. w.subs \ ud.subs \subseteq w.backed
      BY <2>1, <2>6, <2>7
    <3> QED BY <2>1, <2>7, <3>1, <3>2 DEF Going
  <2>10. InstalledByRight(w, n, lane, items)
    <3> SUFFICES ASSUME NEW s \in w.subs \ ud.subs
                 PROVE  \E i \in 1..n :
                          /\ items[i].topic = s /\ items[i].allow /\ items[i].id \notin ud.stale
                          /\ lane \in {"wire", "batch"} => ~armed /\ s \notin PluginOwned
      BY DEF InstalledByRight
    <3>1. CASE s \in u.subs
      <4>1. \A i \in 1..(n - 1) : i \in 1..n
        BY <1>0
      <4> QED BY <3>1, <4>1, <2>1 DEF InstalledByRight
    <3>2. CASE s \notin u.subs
      <4>1. /\ s = t /\ it.allow /\ it.id \notin u.stale
            /\ lane \in {"wire", "batch"} => ~armed /\ s \notin PluginOwned
        BY <3>2, <2>6
      <4>2. it.id \notin ud.stale
        BY <4>1, <2>1, <2>3
      <4>3. n \in 1..n
        BY <1>0
      <4> QED BY <4>1, <4>2, <4>3
    <3> QED BY <3>1, <3>2
  <2>11. StandsOrTap(w, ud.backed \cup r.acks)
    <3> SUFFICES ASSUME NEW s \in ud.backed \cup r.acks, s \notin w.backed
                 PROVE  \E b \in ud.subs \ w.subs : s \in Derived[b] /\ w.parked[b] = {}
      BY DEF StandsOrTap
    <3>1. CASE s \in u.backed
      <4>1. s \notin w.subs
        BY <3>1, <2>7
      <4>2. t \in u.subs \ (u.backed \cup w.subs) /\ s \in Derived[t] /\ w.parked[t] = {}
        BY <3>1, <4>1, <2>7
      <4>3. t \in ud.subs
        BY <4>2, <2>1
      <4> QED BY <4>2, <4>3
    <3>2. CASE s \notin u.backed
      <4>1. PICK b \in ud.subs \ u.subs : s \in Derived[b] /\ u.parked[b] = {}
        BY <3>2, <2>1 DEF StandsOrTap
      <4>2. b # t
        BY <4>1, <2>8
      <4>3. b \notin w.subs
        BY <4>1, <4>2, <2>6
      <4>4. w.parked[b] = u.parked[b]
        BY <4>2, <2>7, <2>8 DEF Ledger
      <4> QED BY <4>1, <4>3, <4>4
    <3> QED BY <3>1, <3>2
  <2>12. CASE o.ack /\ u.socket = "open" /\ it.served /\ t \notin u.subs /\ it.id[2] = closer
    <3> DEFINE z == [w EXCEPT !.socket = "closing"]
    <3>1. q = [u |-> z, acks |-> r.acks, gone |-> TRUE]
      BY <1>2, <2>12 DEF LandOne, o, w, u
    <3>2. /\ z \in Ledger /\ z.subs = w.subs /\ z.native = w.native /\ z.count = w.count
          /\ z.entry = w.entry /\ z.total = w.total /\ z.socket = "closing"
          /\ z.backed = w.backed /\ z.stale = w.stale /\ z.parked = w.parked
      BY <2>8 DEF Ledger
    <3> HIDE DEF z
    <3>3. Books(z, F \ Mine(a, n), topic, token)
      <4>1. Counted(z, F \ Mine(a, n), topic) /\ Dated(z, F \ Mine(a, n), topic, token)
        BY ZenonT(60), <2>7, <3>2 DEF Books, Counted, Dated, Places
      <4>2. Backed(z)
        BY <2>7, <2>12, <3>2 DEF Books, Backed
      <4> QED BY <3>2, <4>1, <4>2 DEF Books
    <3>4. Ended(z, n, a, F, topic, token)
      <4>1. n \in 0..n
        BY <1>0
      <4> QED BY <2>1, <2>12, <3>2, <3>3, <4>1 DEF Ended
    <3>5. InstalledByRight(z, n, lane, items) /\ StandsOrTap(z, ud.backed \cup r.acks)
      BY ZenonT(60), <2>10, <2>11, <3>2 DEF InstalledByRight, StandsOrTap
    <3> HIDE DEF q
    <3> QED BY <2>1, <3>1, <3>4, <3>5 DEF Landed1
  <2>13. CASE ~(o.ack /\ u.socket = "open" /\ it.served /\ t \notin u.subs /\ it.id[2] = closer)
    <3> DEFINE more == IF o.ack /\ u.socket = "open" THEN {t} ELSE {}
    <3>1. q = [u |-> w, gone |-> FALSE, acks |-> r.acks \cup more]
      BY <1>2, <2>13 DEF LandOne, o, w, u
    <3>2. \A s \in more : s = t /\ s \in w.backed
      BY <2>6
    <3> HIDE DEF q, more
    <3>3. StandsOrTap(w, ud.backed \cup (r.acks \cup more))
      BY <2>11, <3>2 DEF StandsOrTap
    <3>4. r.acks \cup more \subseteq Topics
      BY <2>1, <2>2, <3>2
    <3> QED BY <2>9, <2>10, <3>1, <3>3, <3>4 DEF Landed1
  <2> QED BY <2>12, <2>13
<1> QED BY <1>1, <1>2

\* The loop of Landing, as a function, and that there is one for every length.
LandedUpTo(lane, items, closer, n, f) ==
  f = [i \in 0..n |-> IF i = 0 THEN [u |-> ud, acks |-> {}, gone |-> FALSE]
                      ELSE LandOne(f[i - 1], lane, items[i], closer)]

\* There is such a function for every length.
LEMMA LandingExists ==
  ASSUME NEW lane, NEW items, NEW closer, NEW n \in Nat
  PROVE  \E f : LandedUpTo(lane, items, closer, n, f)
<1> DEFINE B == {m \in Nat : ~ \E f : LandedUpTo(lane, items, closer, m, f)}
           one(f, i) == LandOne(f[i - 1], lane, items[i], closer)
           start == [u |-> ud, acks |-> {}, gone |-> FALSE]
<1>1. SUFFICES ASSUME B # {} PROVE FALSE
  OBVIOUS
<1>2. PICK m \in B : \A j \in B : m <= j
  <2>1. B \in SUBSET Nat OBVIOUS
  <2> HIDE DEF B
  <2> QED BY <1>1, <2>1, LeastNumber
<1>d. \A k, f : LandedUpTo(lane, items, closer, k, f)
                  <=> f = [i \in 0..k |-> IF i = 0 THEN start ELSE one(f, i)]
  BY DEF LandedUpTo
<1>3. m # 0
  <2>1. LandedUpTo(lane, items, closer, 0, [i \in 0..0 |-> start])
    BY DEF LandedUpTo
  <2> QED BY <2>1
<1>4. m \in Nat /\ m - 1 \in Nat /\ ~(m <= m - 1)
  BY <1>3
<1>5. PICK f : LandedUpTo(lane, items, closer, m - 1, f)
  BY <1>2, <1>4
<1> DEFINE last == one(f, m)
           g == [i \in 0..m |-> IF i = m THEN last ELSE f[i]]
<1>6. LandedUpTo(lane, items, closer, m, g)
  <2>1. f = [i \in 0..(m - 1) |-> IF i = 0 THEN start ELSE one(f, i)]
    BY <1>5, <1>d
  <2>2. \A i \in 0..m : i # 0 => one(g, i) = one(f, i)
    <3> SUFFICES ASSUME NEW i \in 0..m, i # 0 PROVE g[i - 1] = f[i - 1]
      OBVIOUS
    <3>1. i - 1 \in 0..m /\ i - 1 # m
      BY <1>4
    <3> QED BY <3>1
  <2> HIDE DEF start, one
  <2>3. \A i \in 0..m : g[i] = IF i = 0 THEN start ELSE one(f, i)
    <3> SUFFICES ASSUME NEW i \in 0..m PROVE g[i] = IF i = 0 THEN start ELSE one(f, i)
      OBVIOUS
    <3>1. CASE i = m
      BY <3>1, <1>3
    <3>2. CASE i # m
      <4>1. i \in 0..(m - 1)
        BY <3>2, <1>4
      <4>2. f[i] = IF i = 0 THEN start ELSE one(f, i)
        BY <2>1, <4>1
      <4> QED BY <3>2, <4>2
    <3> QED BY <3>1, <3>2
  <2>4. g = [i \in 0..m |-> IF i = 0 THEN start ELSE one(g, i)]
    <3>1. \A i \in 0..m : g[i] = IF i = 0 THEN start ELSE one(g, i)
      BY <2>2, <2>3
    <3> QED BY <3>1
  <2> QED BY <2>4, <1>d
<1> QED BY <1>4, <1>6

\* What the whole frame leaves behind.
LEMMA FrameLands ==
  ASSUME NEW a \in Attempts, NEW lane, NEW items, NEW closer, NEW F \in SUBSET Ids,
         NEW topic, NEW token, Frame(a, items, F, topic, token),
         Books(ud, F, topic, token), NoOrphan(ud)
  PROVE  Landed1(Landing(lane, items, closer), Len(items), a, lane, items, F, topic, token)
<1>0. Len(items) \in Nat
  BY DEF Frame
<1> DEFINE f == CHOOSE g : LandedUpTo(lane, items, closer, Len(items), g)
<1>1. LandedUpTo(lane, items, closer, Len(items), f)
  BY <1>0, LandingExists
<1>2. Landing(lane, items, closer) = f[Len(items)]
  BY DEF Landing, LandedUpTo
<1> HIDE DEF f
<1> DEFINE B == {n \in 0..Len(items) : ~Landed1(f[n], n, a, lane, items, F, topic, token)}
<1>3. ASSUME B # {} PROVE FALSE
  <2>1. PICK n \in B : \A j \in B : n <= j
    <3>1. B \in SUBSET Nat BY <1>0
    <3> HIDE DEF B
    <3> QED BY <1>3, <3>1, LeastNumber
  <2>2. n \in 0..Len(items) /\ ~Landed1(f[n], n, a, lane, items, F, topic, token)
    BY <2>1
  <2>3. f[n] = IF n = 0 THEN [u |-> ud, acks |-> {}, gone |-> FALSE]
               ELSE LandOne(f[n - 1], lane, items[n], closer)
    BY <1>1, <2>2 DEF LandedUpTo
  <2>4. n # 0
    BY <2>2, <2>3, NothingLanded
  <2>5. n \in 1..Len(items) /\ n - 1 \in 0..Len(items) /\ ~(n <= n - 1)
    BY <1>0, <2>2, <2>4
  <2>6. Landed1(f[n - 1], n - 1, a, lane, items, F, topic, token)
    BY <2>1, <2>5
  <2>7. Landed1(LandOne(f[n - 1], lane, items[n], closer), n, a, lane, items, F, topic, token)
    BY <2>5, <2>6, OneMoreLanded
  <2> QED BY <2>2, <2>3, <2>4, <2>7
<1> QED BY <1>0, <1>2, <1>3

-----------------------------------------------------------------------------
(* The enrolment of a frame, item after item.                               *)

\* The recursive function of Enrolled(items), over the first n items.
EnrolledUpTo(items, n, f) ==
  f = [i \in 0..n |-> IF i = 0 THEN ud ELSE Begin(f[i - 1], items[i])]

\* There is such a function for every length.
LEMMA EnrolledExists ==
  ASSUME NEW items, NEW n \in Nat
  PROVE  \E f : EnrolledUpTo(items, n, f)
<1> DEFINE B == {m \in Nat : ~ \E f : EnrolledUpTo(items, m, f)}
           one(f, i) == Begin(f[i - 1], items[i])
<1>1. SUFFICES ASSUME B # {} PROVE FALSE
  OBVIOUS
<1>2. PICK m \in B : \A j \in B : m <= j
  <2>1. B \in SUBSET Nat OBVIOUS
  <2> HIDE DEF B
  <2> QED BY <1>1, <2>1, LeastNumber
<1>d. \A k, f : EnrolledUpTo(items, k, f) <=> f = [i \in 0..k |-> IF i = 0 THEN ud ELSE one(f, i)]
  BY DEF EnrolledUpTo
<1>3. m # 0
  <2>1. EnrolledUpTo(items, 0, [i \in 0..0 |-> ud])
    BY DEF EnrolledUpTo
  <2> QED BY <2>1
<1>4. m \in Nat /\ m - 1 \in Nat /\ ~(m <= m - 1)
  BY <1>3
<1>5. PICK f : EnrolledUpTo(items, m - 1, f)
  BY <1>2, <1>4
<1> DEFINE last == one(f, m)
           g == [i \in 0..m |-> IF i = m THEN last ELSE f[i]]
<1>6. EnrolledUpTo(items, m, g)
  <2>1. f = [i \in 0..(m - 1) |-> IF i = 0 THEN ud ELSE one(f, i)]
    BY <1>5, <1>d
  <2>2. \A i \in 0..m : i # 0 => one(g, i) = one(f, i)
    <3> SUFFICES ASSUME NEW i \in 0..m, i # 0 PROVE g[i - 1] = f[i - 1]
      OBVIOUS
    <3>1. i - 1 \in 0..m /\ i - 1 # m
      BY <1>4
    <3> QED BY <3>1
  <2> HIDE DEF one
  <2>3. \A i \in 0..m : g[i] = IF i = 0 THEN ud ELSE one(f, i)
    <3> SUFFICES ASSUME NEW i \in 0..m PROVE g[i] = IF i = 0 THEN ud ELSE one(f, i)
      OBVIOUS
    <3>1. CASE i = m
      BY <3>1, <1>3
    <3>2. CASE i # m
      <4>1. i \in 0..(m - 1)
        BY <3>2, <1>4
      <4>2. f[i] = IF i = 0 THEN ud ELSE one(f, i)
        BY <2>1, <4>1
      <4> QED BY <3>2, <4>2
    <3> QED BY <3>1, <3>2
  <2>4. g = [i \in 0..m |-> IF i = 0 THEN ud ELSE one(g, i)]
    <3>1. \A i \in 0..m : g[i] = IF i = 0 THEN ud ELSE one(g, i)
      BY <2>2, <2>3
    <3> QED BY <3>1
  <2> QED BY <2>4, <1>d
<1> QED BY <1>4, <1>6

\* The books with the first n items of a frame enrolled.
Enrolling(u, n, a, F, topic, token) ==
  /\ Books(u, F \cup Mine(a, n), topic, token) /\ NoOrphan(u)
  /\ \A t \in Topics : u.entry[t].epoch = ud.entry[t].epoch
  /\ u.total = ud.total + n

\* A frame that fits the headroom enrols, every item with the epoch of the moment.
LEMMA FrameEnrols ==
  ASSUME NEW a \in Attempts, NEW items \in Seq(Item), NEW F \in SUBSET Ids,
         NEW topic, NEW token, Books(ud, F, topic, token), NoOrphan(ud),
         ud.total + Len(items) <= MaxPending,
         \A i \in 1..Len(items) :
           /\ items[i].id = <<a, i>> /\ <<a, i>> \notin F
           /\ topic[<<a, i>>] = items[i].topic /\ token[<<a, i>>] = items[i].token
           /\ items[i].token = ud.entry[items[i].topic].epoch
  PROVE  Enrolling(Enrolled(items), Len(items), a, F, topic, token)
<1> DEFINE N == Len(items)
<1>0. N \in Nat /\ ud.total \in Nat
  BY DEF Books, Ledger
<1> DEFINE f == CHOOSE g : EnrolledUpTo(items, N, g)
<1>1. EnrolledUpTo(items, N, f)
  BY <1>0, EnrolledExists
<1>2. Enrolled(items) = f[N]
  BY DEF Enrolled, EnrolledUpTo
<1> HIDE DEF f
<1> DEFINE B == {n \in 0..N : ~Enrolling(f[n], n, a, F, topic, token)}
<1>3. ASSUME B # {} PROVE FALSE
  <2>1. PICK n \in B : \A j \in B : n <= j
    <3>1. B \in SUBSET Nat BY <1>0
    <3> HIDE DEF B
    <3> QED BY <1>3, <3>1, LeastNumber
  <2>2. n \in 0..N /\ ~Enrolling(f[n], n, a, F, topic, token)
    BY <2>1
  <2>3. f[n] = IF n = 0 THEN ud ELSE Begin(f[n - 1], items[n])
    BY <1>1, <2>2 DEF EnrolledUpTo
  <2>4. n # 0
    <3>1. F \cup Mine(a, 0) = F
      BY DEF Mine
    <3>2. Enrolling(ud, 0, a, F, topic, token)
      <4>1. ud.total = ud.total + 0
        BY <1>0
      <4> QED BY <3>1, <4>1 DEF Enrolling
    <3> QED BY <2>2, <2>3, <3>2
  <2>5. n \in 1..N /\ n - 1 \in 0..N /\ ~(n <= n - 1) /\ n \in Nat
    BY <1>0, <2>2, <2>4
  <2> DEFINE u == f[n - 1]
             it == items[n]
             v == Begin(u, it)
             G == F \cup Mine(a, n - 1)
  <2> HIDE DEF B
  <2>6. Enrolling(u, n - 1, a, F, topic, token)
    BY <2>1, <2>5 DEF B
  <2> HIDE DEF u
  <2>7. /\ it \in Item /\ it.id = <<a, n>> /\ it.id \notin F /\ topic[it.id] = it.topic
        /\ token[it.id] = it.token /\ it.token = ud.entry[it.topic].epoch
        /\ it.topic \in Topics /\ it.id \in Ids
    <3>1. it \in Item /\ n \in 1..Len(items)
      BY <2>5
    <3>2. it.id \in Ids /\ it.topic \in Topics
      BY <3>1 DEF Item, Ids
    <3> QED BY <3>1, <3>2
  <2> HIDE DEF it, v
  <2>8. it.id \notin G /\ G \in SUBSET Ids /\ G \cup {it.id} = F \cup Mine(a, n)
    <3>1. it.id \notin Mine(a, n - 1)
      <4> SUFFICES ASSUME NEW i \in 1..(n - 1), <<a, n>> = <<a, i>> PROVE FALSE
        BY <2>7 DEF Mine
      <4> QED BY <2>5
    <3>2. 1..n = 1..(n - 1) \cup {n}
      BY <2>5
    <3>3. Mine(a, n) = Mine(a, n - 1) \cup {it.id}
      BY ZenonT(60), <2>7, <3>2 DEF Mine
    <3>4. Mine(a, n - 1) \subseteq Ids
      <4>1. n <= MaxPending
        BY <1>0, <2>5, SubscriptionAssumption
      <4>2. \A i \in 1..(n - 1) : i \in 1..MaxPending
        BY <2>5, <4>1, SubscriptionAssumption
      <4> QED BY <4>2 DEF Mine, Ids
    <3> QED BY <2>7, <3>1, <3>3, <3>4
  <2>9. /\ Books(u, G, topic, token) /\ NoOrphan(u)
        /\ \A t \in Topics : u.entry[t].epoch = ud.entry[t].epoch
        /\ u.total = ud.total + (n - 1)
    BY <2>6 DEF Enrolling
  <2>10. u.total < MaxPending
    BY <1>0, <2>5, <2>9, SubscriptionAssumption
  <2> HIDE DEF G
  <2>11. /\ Books(v, G \cup {it.id}, topic, token) /\ NoOrphan(v)
         /\ \A t \in Topics : v.entry[t].epoch = u.entry[t].epoch
         /\ v.total = u.total + 1
    <3>1. it.token = u.entry[it.topic].epoch /\ it.id \in Ids \ G
      BY <2>7, <2>8, <2>9
    <3>2. AfterBegin(u, Begin(u, it), G, it, topic, token)
      BY <2>7, <2>8, <2>9, <2>10, <3>1, BeginBooks
    <3> QED BY <3>2 DEF AfterBegin, v
  <2>12. v.total = ud.total + n
    BY <1>0, <2>5, <2>9, <2>11
  <2>13. Enrolling(v, n, a, F, topic, token)
    BY <2>8, <2>9, <2>11, <2>12 DEF Enrolling
  <2> QED BY <2>2, <2>3, <2>4, <2>13 DEF v, u, it
<1> QED BY <1>0, <1>2, <1>3

-----------------------------------------------------------------------------
(* The calls.                                                               *)

\* The books are about the topics and tokens of what is in flight, and no others.
LEMMA BooksAgree ==
  ASSUME NEW u, NEW F, NEW topic, NEW token, NEW topic2, NEW token2, Books(u, F, topic, token),
         \A id \in F : topic2[id] = topic[id] /\ token2[id] = token[id]
  PROVE  Books(u, F, topic2, token2)
<1>1. Counted(u, F, topic2)
  <2>1. \A t \in Topics : {id \in F : topic2[id] = t} = {id \in F : topic[id] = t}
    OBVIOUS
  <2> QED BY <2>1 DEF Books, Counted
<1>2. Dated(u, F, topic2, token2)
  BY DEF Books, Dated
<1> QED BY <1>1, <1>2 DEF Books

\* The books without what M enrolled.
AfterForget(u, v, F, M, topic, token) ==
  /\ Books(v, F \ M, topic, token)
  /\ v.subs = u.subs /\ v.backed = u.backed /\ v.socket = u.socket /\ v.entry = u.entry

\* What an ended loop leaves enrolled is forgotten with the connection.
LEMMA ForgottenBooks ==
  ASSUME NEW u, NEW F \in SUBSET Ids, NEW topic, NEW token, Books(u, F, topic, token),
         u.socket # "open", NEW M
  PROVE  AfterForget(u, [u EXCEPT !.stale = @ \ M, !.parked = [t \in Topics |-> @[t] \ M]],
                     F, M, topic, token)
<1> DEFINE v == [u EXCEPT !.stale = @ \ M, !.parked = [t \in Topics |-> @[t] \ M]]
           parked == [t \in Topics |-> u.parked[t] \ M]
<1>0. u \in Ledger
  BY DEF Books
<1>1. parked \in [Topics -> SUBSET Ids] /\ u.stale \ M \in SUBSET Ids
  BY <1>0 DEF Ledger
<1>2. \A t \in Topics : parked[t] = u.parked[t] \ M
  OBVIOUS
<1>3. v = [u EXCEPT !.stale = u.stale \ M, !.parked = parked]
  OBVIOUS
<1> HIDE DEF v, parked
<1>4. /\ v \in Ledger
      /\ v.subs = u.subs /\ v.native = u.native /\ v.count = u.count /\ v.entry = u.entry
      /\ v.total = u.total /\ v.socket = u.socket /\ v.backed = u.backed
      /\ v.stale = u.stale \ M /\ v.parked = parked
  BY <1>0, <1>1, <1>3 DEF Ledger
<1>5. Counted(v, F \ M, topic)
  <2>1. ASSUME NEW t \in Topics
        PROVE  /\ v.parked[t] = {id \in F \ M : topic[id] = t}
               /\ IsFiniteSet(v.parked[t])
               /\ Cardinality(v.parked[t]) <= v.entry[t].inflight
    <3> DEFINE P == u.parked[t]
               Q == v.parked[t]
    <3>1. Q = P \ M /\ IsFiniteSet(P) /\ Cardinality(P) <= u.entry[t].inflight
          /\ P = {id \in F : topic[id] = t} /\ u.entry[t].inflight \in Int
      BY <1>0, <1>2, <1>4, SubscriptionAssumption DEF Books, Counted, Ledger
    <3> HIDE DEF P, Q
    <3>2. IsFiniteSet(Q) /\ Cardinality(Q) <= Cardinality(P) /\ Cardinality(Q) \in Nat /\ Cardinality(P) \in Nat
      BY <3>1, FS_Subset, FS_CardinalityType
    <3>3. Q = {id \in F \ M : topic[id] = t}
      BY <3>1
    <3>4. Cardinality(Q) <= u.entry[t].inflight
      BY <3>1, <3>2
    <3> QED BY <3>2, <3>3, <3>4, <1>4 DEF Q
  <2>2. Places(v) = Places(u)
    BY <1>4 DEF Places
  <2> QED BY <2>1, <2>2, <1>4 DEF Books, Counted
<1>6. Dated(v, F \ M, topic, token)
  BY <1>4 DEF Books, Dated
<1>7. Backed(v)
  BY <1>4 DEF Books, Backed
<1> QED BY <1>4, <1>5, <1>6, <1>7 DEF Books, AfterForget, v

\* What is in flight in d: what was, and the items of attempt a.
FlyingGrows(d, a, items) ==
  /\ Flying(d) = Flying(call) \cup Mine(a, Len(items))
  /\ \A id \in Flying(call) : TopicOf(d)[id] = TopicOf(call)[id] /\ TokenOf(d)[id] = TokenOf(call)[id]
  /\ \A i \in 1..Len(items) :
       /\ <<a, i>> \notin Flying(call)
       /\ TopicOf(d)[<<a, i>>] = items[i].topic
       /\ TokenOf(d)[<<a, i>>] = items[i].token

\* A call without items starts to carry some.
LEMMA FlyingEnters ==
  ASSUME CallInv, NEW a \in Attempts, call[a].items = <<>>, NEW c, c.items \in Seq(Item),
         Len(c.items) <= MaxPending
  PROVE  FlyingGrows([call EXCEPT ![a] = c], a, c.items)
<1> DEFINE d == [call EXCEPT ![a] = c]
<1>1. Len(c.items) \in Nat /\ DOMAIN c.items = 1..Len(c.items)
  OBVIOUS
<1>2. /\ DOMAIN call = Attempts /\ d[a] = c
      /\ \A x \in Attempts \ {a} : d[x] = call[x]
  BY DEF CallInv
<1> HIDE DEF d
<1>3. \A i \in 1..MaxPending : <<a, i>> \notin Flying(call)
  BY DEF Flying
<1>4. \A i \in 1..Len(c.items) : i \in 1..MaxPending
  BY <1>1, SubscriptionAssumption
<1>5. ASSUME NEW x \in Attempts, NEW i \in 1..MaxPending
      PROVE  <<x, i>> \in Flying(d) <=> <<x, i>> \in Flying(call) \cup Mine(a, Len(c.items))
  <2>1. <<x, i>> \in Ids /\ <<x, i>>[1] = x /\ <<x, i>>[2] = i
    BY DEF Ids
  <2>2. CASE x = a
    <3>1. <<x, i>> \in Flying(d) <=> i \in 1..Len(c.items)
      BY <2>1, <2>2, <1>1, <1>2 DEF Flying
    <3>2. <<x, i>> \in Mine(a, Len(c.items)) <=> i \in 1..Len(c.items)
      BY <2>2 DEF Mine
    <3> QED BY <3>1, <3>2, <2>2, <1>3
  <2>3. CASE x # a
    <3>1. <<x, i>> \notin Mine(a, Len(c.items))
      BY <2>3 DEF Mine
    <3> QED BY <2>1, <2>3, <3>1, <1>2 DEF Flying
  <2> QED BY <2>2, <2>3
<1>6. Flying(d) = Flying(call) \cup Mine(a, Len(c.items))
  <2>1. Flying(d) \subseteq Ids /\ Flying(call) \subseteq Ids /\ Mine(a, Len(c.items)) \subseteq Ids
    BY <1>4 DEF Flying, Ids, Mine
  <2>2. \A id \in Ids : id \in Flying(d) <=> id \in Flying(call) \cup Mine(a, Len(c.items))
    BY <1>5 DEF Ids
  <2> QED BY <2>1, <2>2
<1>7. ASSUME NEW id \in Flying(call)
      PROVE  TopicOf(d)[id] = TopicOf(call)[id] /\ TokenOf(d)[id] = TokenOf(call)[id]
  <2>1. PICK x \in Attempts, i \in 1..MaxPending : id = <<x, i>>
    BY DEF Flying, Ids
  <2>2. x # a /\ id[1] = x
    BY <2>1, <1>3
  <2>3. d[id[1]] = call[id[1]]
    BY <2>2, <1>2
  <2> QED BY <2>3, <1>6 DEF TopicOf, TokenOf
<1>8. ASSUME NEW i \in 1..Len(c.items)
      PROVE  TopicOf(d)[<<a, i>>] = c.items[i].topic /\ TokenOf(d)[<<a, i>>] = c.items[i].token
  <2>1. <<a, i>> \in Flying(d) /\ <<a, i>>[1] = a /\ <<a, i>>[2] = i
    BY <1>6 DEF Mine
  <2> QED BY <2>1, <1>2 DEF TopicOf, TokenOf
<1> QED BY <1>3, <1>4, <1>6, <1>7, <1>8 DEF FlyingGrows, d

\* What is in flight in d: what was, without the items of attempt a.
FlyingShrinks(d, a) ==
  /\ Flying(d) = Flying(call) \ Mine(a, Len(call[a].items))
  /\ Flying(d) = Flying(call) \ Mine(a, MaxPending)
  /\ \A id \in Flying(d) : TopicOf(d)[id] = TopicOf(call)[id] /\ TokenOf(d)[id] = TokenOf(call)[id]

\* A call is over.
LEMMA FlyingLands ==
  ASSUME CallInv, NEW a \in Attempts
  PROVE  FlyingShrinks([call EXCEPT ![a] = Idle], a)
<1> DEFINE d == [call EXCEPT ![a] = Idle]
<1>1. call[a].items \in Seq(Item) /\ Len(call[a].items) \in Nat /\ DOMAIN call[a].items = 1..Len(call[a].items)
  <2>1. call[a].items \in Seq(Item)
    BY DEF CallInv
  <2> QED BY <2>1
<1>2. /\ DOMAIN call = Attempts /\ d[a] = Idle
      /\ \A x \in Attempts \ {a} : d[x] = call[x]
  BY DEF CallInv
<1>3. Len(call[a].items) <= MaxPending
  BY DEF CallInv
<1> HIDE DEF d
<1>4. ASSUME NEW x \in Attempts, NEW i \in 1..MaxPending
      PROVE  /\ <<x, i>> \in Flying(d) <=> <<x, i>> \in Flying(call) \ Mine(a, Len(call[a].items))
             /\ <<x, i>> \in Flying(d) <=> <<x, i>> \in Flying(call) \ Mine(a, MaxPending)
  <2>1. <<x, i>> \in Ids /\ <<x, i>>[1] = x /\ <<x, i>>[2] = i
    BY DEF Ids
  <2>2. CASE x = a
    <3>1. <<x, i>> \notin Flying(d)
      <4>1. DOMAIN <<>> = {}
        OBVIOUS
      <4>2. i \notin DOMAIN d[a].items
        BY <1>2, <4>1 DEF Idle
      <4> QED BY <2>1, <2>2, <4>2 DEF Flying
    <3>2. <<x, i>> \in Flying(call) <=> i \in 1..Len(call[a].items)
      BY <2>1, <2>2, <1>1 DEF Flying
    <3> QED BY <3>1, <3>2, <2>2 DEF Mine
  <2>3. CASE x # a
    BY <2>1, <2>3, <1>2 DEF Flying, Mine
  <2> QED BY <2>2, <2>3
<1>5. Flying(d) \subseteq Ids /\ Flying(call) \subseteq Ids
  BY DEF Flying
<1>6. \A id \in Ids : /\ id \in Flying(d) <=> id \in Flying(call) \ Mine(a, Len(call[a].items))
                      /\ id \in Flying(d) <=> id \in Flying(call) \ Mine(a, MaxPending)
  BY <1>4 DEF Ids
<1>7. /\ Flying(d) = Flying(call) \ Mine(a, Len(call[a].items))
      /\ Flying(d) = Flying(call) \ Mine(a, MaxPending)
  BY <1>5, <1>6
<1>8. ASSUME NEW id \in Flying(d)
      PROVE  TopicOf(d)[id] = TopicOf(call)[id] /\ TokenOf(d)[id] = TokenOf(call)[id]
  <2>1. PICK x \in Attempts, i \in 1..MaxPending : id = <<x, i>>
    BY DEF Flying, Ids
  <2>2. x # a /\ id[1] = x
    BY <2>1, <1>7 DEF Mine
  <2>3. d[id[1]] = call[id[1]] /\ id \in Flying(call)
    BY <2>2, <1>2, <1>7
  <2> QED BY <2>3 DEF TopicOf, TokenOf
<1> QED BY <1>7, <1>8 DEF FlyingShrinks, d

-----------------------------------------------------------------------------
(* The steps.                                                               *)

\* The step that AcksAreTruthful asks for.
AcksHold ==
  \A t \in acks' : \/ t \in ud'.subs \cap ud'.backed
                   \/ \E b \in ud.subs \ ud'.subs : t \in Derived[b]

\* The step that LandingsActOnTheMoment asks for.
LandingsHold ==
  \A a \in Attempts : Landed(a) =>
    /\ \A t \in ud'.subs \ ud.subs : Entitled(a, t)
    /\ \A t \in ud.backed \ ud'.subs : \E b \in ud.subs \ ud'.subs : t \in Derived[b]

\* The step that HistoryIsEntitled asks for.
HistoryHolds ==
  \A a \in Attempts :
    ud.socket = "open" /\ call[a].stage = "hook" /\ call'[a].stage = "resume" =>
      \A i \in DOMAIN call'[a].items :
        LET it == call'[a].items[i] IN
        it.served =>
          \/ it.topic \in ud.backed
          \/ /\ it.id \notin ud.stale
             /\ IF it.topic \in PluginOwned THEN it.topic \in ud.subs ELSE ~armed

\* A step keeps the invariant and does what the action properties ask for.
GoodStep == SubscriptionInv' /\ AcksHold /\ LandingsHold /\ HistoryHolds

\* The books alone: most steps touch neither a call nor the armed gate.
LEMMA QuietStep ==
  ASSUME SubscriptionInv, call' = call, acks' = {}, armed' \in BOOLEAN,
         Books(ud', Flying(call), TopicOf(call), TokenOf(call)), NoOrphan(ud'),
         \A t \in Topics : ud'.entry[t].epoch <= MaxEpoch
  PROVE  GoodStep
<1>1. Flying(call)' = Flying(call) /\ TopicOf(call)' = TopicOf(call) /\ TokenOf(call)' = TokenOf(call)
  BY DEF Flying, TopicOf, TokenOf
<1>2. Books(ud, Flying(call), TopicOf(call), TokenOf(call))'
  <2>1. Books(ud', Flying(call)', TopicOf(call)', TokenOf(call)')
    BY <1>1
  <2> QED BY <2>1 DEF Books, Counted, Dated, Backed, Places
<1>3. CallInv' /\ NoOrphan(ud)' /\ armed' \in BOOLEAN /\ acks' \subseteq Topics
  BY DEF CallInv, SubscriptionInv, NoOrphan
<1>4. (\A t \in Topics : ud.entry[t].epoch <= MaxEpoch)'
  OBVIOUS
<1>5. AcksHold
  BY DEF AcksHold
<1>6. LandingsHold /\ HistoryHolds
  BY DEF LandingsHold, HistoryHolds, Landed
<1> QED BY <1>2, <1>3, <1>4, <1>5, <1>6 DEF GoodStep, SubscriptionInv

\* A frame or a call enters.
LEMMA EnterStep ==
  ASSUME SubscriptionInv, NEW a \in Attempts,
         NEW lane \in {"wire", "batch", "platform", "observer"}, NEW items \in Seq(Item),
         ud.total + Len(items) <= MaxPending,
         \A i \in 1..Len(items) :
           /\ items[i].id = <<a, i>> /\ items[i].token = ud.entry[items[i].topic].epoch
           /\ ~items[i].allow
           /\ items[i].recover => lane \in {"wire", "batch"},
         Enter(a, lane, items)
  PROVE  GoodStep
<1> DEFINE c == [stage |-> "hook", lane |-> lane, items |-> items]
           F == Flying(call)
           topic == TopicOf(call')
           token == TokenOf(call')
<1>1. /\ call[a].stage = "idle" /\ ud' = Enrolled(items) /\ call' = [call EXCEPT ![a] = c]
      /\ acks' = {} /\ armed' = armed
  BY DEF Enter
<1>2. CallInv /\ Books(ud, F, TopicOf(call), TokenOf(call)) /\ NoOrphan(ud) /\ F \in SUBSET Ids
  BY DEF SubscriptionInv, Flying
<1>3. Len(items) \in Nat /\ Len(items) <= MaxPending
  <2>1. ud.total \in Nat
    BY <1>2 DEF Books, Ledger
  <2>2. Len(items) \in Nat
    OBVIOUS
  <2> QED BY <2>1, <2>2, SubscriptionAssumption
<1>4. /\ Flying(call') = F \cup Mine(a, Len(items))
      /\ \A id \in F : topic[id] = TopicOf(call)[id] /\ token[id] = TokenOf(call)[id]
      /\ \A i \in 1..Len(items) :
           /\ <<a, i>> \notin F
           /\ topic[<<a, i>>] = items[i].topic /\ token[<<a, i>>] = items[i].token
  <2>1. call[a].items = <<>>
    BY <1>1, <1>2 DEF CallInv
  <2>2. c.items = items
    OBVIOUS
  <2> HIDE DEF c
  <2>3. FlyingGrows([call EXCEPT ![a] = c], a, c.items)
    BY <1>2, <1>3, <2>1, <2>2, FlyingEnters
  <2>4. FlyingGrows(call', a, items)
    BY <1>1, <2>2, <2>3
  <2> QED BY <2>4 DEF FlyingGrows
<1>5. Books(ud, F, topic, token)
  <2> HIDE DEF F, topic, token
  <2> QED BY <1>2, <1>4, BooksAgree
<1>6. Enrolling(Enrolled(items), Len(items), a, F, topic, token)
  <2> HIDE DEF F, topic, token
  <2> QED BY <1>2, <1>4, <1>5, FrameEnrols
<1>7. /\ Books(ud', Flying(call'), topic, token) /\ NoOrphan(ud')
      /\ \A t \in Topics : ud'.entry[t].epoch = ud.entry[t].epoch
  BY <1>1, <1>4, <1>6 DEF Enrolling
<1>8. Books(ud, Flying(call), TopicOf(call), TokenOf(call))'
  BY <1>7 DEF Books, Counted, Dated, Backed, Places, Flying, TopicOf, TokenOf
<1>9. CallInv'
  <2>1. c \in [stage : {"idle", "hook", "resume"}, lane : {"none", "wire", "batch", "platform", "observer"},
               items : Seq(Item)]
    OBVIOUS
  <2>2. call' \in [Attempts -> [stage : {"idle", "hook", "resume"},
                               lane : {"none", "wire", "batch", "platform", "observer"},
                               items : Seq(Item)]]
    BY <1>1, <1>2, <2>1 DEF CallInv
  <2>3. call'[a] = c /\ \A x \in Attempts \ {a} : call'[x] = call[x]
    BY <1>1, <1>2 DEF CallInv
  <2>4. ASSUME NEW x \in Attempts
        PROVE  /\ call'[x].stage = "idle" => call'[x].items = <<>>
               /\ Len(call'[x].items) <= MaxPending
               /\ \A i \in 1..Len(call'[x].items) :
                    /\ call'[x].items[i].id = <<x, i>>
                    /\ call'[x].items[i].allow => ~call'[x].items[i].gated
                    /\ call'[x].items[i].recover => call'[x].lane \in {"wire", "batch"}
    <3>1. CASE x = a
      BY <3>1, <2>3, <1>3
    <3>2. CASE x # a
      <4>1. call'[x] = call[x]
        BY <3>2, <2>3
      <4> HIDE DEF c
      <4> QED BY SMTT(30), <4>1, <1>2 DEF CallInv
    <3> QED BY <3>1, <3>2
  <2> QED BY <2>2, <2>4 DEF CallInv
<1>10. AcksHold
  BY <1>1 DEF AcksHold
<1>11. LandingsHold /\ HistoryHolds
  <2>1. call'[a].stage = "hook" /\ \A x \in Attempts \ {a} : call'[x] = call[x]
    BY <1>1, <1>2 DEF CallInv
  <2> QED BY <2>1 DEF LandingsHold, HistoryHolds, Landed
<1>12. NoOrphan(ud)' /\ (\A t \in Topics : ud.entry[t].epoch <= MaxEpoch)'
  BY <1>7 DEF SubscriptionInv, NoOrphan
<1> QED BY <1>1, <1>8, <1>9, <1>10, <1>11, <1>12 DEF GoodStep, SubscriptionInv

\* The items as the hook left them are the items that were enrolled.
SameItems(a, items) ==
  /\ items \in Seq(Item) /\ Len(items) = Len(call[a].items)
  /\ \A i \in 1..Len(items) :
       /\ items[i].id = call[a].items[i].id /\ items[i].topic = call[a].items[i].topic
       /\ items[i].token = call[a].items[i].token
       /\ items[i].allow => ~call[a].items[i].gated

\* A frame or a call lands.
LEMMA LandStep ==
  ASSUME SubscriptionInv, NEW a \in Attempts, call[a].stage # "idle", NEW items, SameItems(a, items),
         NEW closer, Land(a, items, closer)
  PROVE  GoodStep
<1> DEFINE F == Flying(call)
           topic == TopicOf(call)
           token == TokenOf(call)
           lane == call[a].lane
           n == Len(items)
           r == Landing(lane, items, closer)
           mine == {<<a, i>> : i \in 1..MaxPending}
<1>1. CallInv /\ Books(ud, F, topic, token) /\ NoOrphan(ud) /\ F \in SUBSET Ids
  BY DEF SubscriptionInv, Flying
<1>2. Frame(a, items, F, topic, token)
  <2>1. items \in Seq(Item) /\ Len(items) <= MaxPending /\ Len(items) \in Nat
    BY <1>1 DEF SameItems, CallInv
  <2>2. ASSUME NEW i \in 1..Len(items)
        PROVE  items[i].id = <<a, i>> /\ Awaited(items[i], F, topic, token)
    <3>1. items[i].id = <<a, i>> /\ items[i] \in Item
      BY <1>1 DEF SameItems, CallInv
    <3>2. i \in 1..MaxPending
      BY <2>1, SubscriptionAssumption
    <3>3. <<a, i>> \in F
      <4>1. i \in DOMAIN call[a].items
        <5>1. call[a].items \in Seq(Item) /\ i \in 1..Len(call[a].items)
          BY <1>1 DEF SameItems, CallInv
        <5> QED BY <5>1
      <4>2. <<a, i>> \in Ids /\ <<a, i>>[1] = a /\ <<a, i>>[2] = i
        BY <3>2 DEF Ids
      <4> QED BY <4>1, <4>2 DEF Flying
    <3>4. topic[<<a, i>>] = items[i].topic /\ token[<<a, i>>] = items[i].token
      <4>1. <<a, i>>[1] = a /\ <<a, i>>[2] = i
        OBVIOUS
      <4> QED BY <3>3, <4>1 DEF TopicOf, TokenOf, SameItems
    <3> QED BY <3>1, <3>3, <3>4 DEF Awaited
  <2> QED BY <2>1, <2>2 DEF Frame
<1>3. Landed1(r, n, a, lane, items, F, topic, token)
  BY <1>1, <1>2, FrameLands
<1>4. /\ ud' = IF r.gone
               THEN [r.u EXCEPT !.stale = @ \ mine, !.parked = [t \in Topics |-> @[t] \ mine]]
               ELSE r.u
      /\ acks' = r.acks /\ call' = [call EXCEPT ![a] = Idle]
      /\ armed' = armed /\ \A t \in Topics : ud'.entry[t].epoch <= MaxEpoch
  BY DEF Land, EpochBound
<1> HIDE DEF r, F, topic, token
<1>5. /\ Flying(call') = F \ Mine(a, n) /\ Flying(call') = F \ Mine(a, MaxPending)
      /\ \A id \in Flying(call') : TopicOf(call')[id] = topic[id] /\ TokenOf(call')[id] = token[id]
  <2>1. FlyingShrinks([call EXCEPT ![a] = Idle], a)
    BY <1>1, FlyingLands
  <2>2. FlyingShrinks(call', a)
    BY <1>4, <2>1
  <2>3. n = Len(call[a].items)
    BY DEF SameItems
  <2> QED BY <2>2, <2>3 DEF FlyingShrinks, F, topic, token
<1>6. /\ Books(ud', Flying(call'), topic, token) /\ NoOrphan(ud')
      /\ ud'.subs = r.u.subs /\ ud'.backed = r.u.backed
  <2>1. CASE r.gone
    <3> DEFINE u == r.u
               v == [u EXCEPT !.stale = @ \ mine, !.parked = [t \in Topics |-> @[t] \ mine]]
    <3>1. PICK k \in 0..n : Books(u, F \ Mine(a, k), topic, token)
      BY <1>3, <2>1 DEF Landed1, Ended
    <3>2. u.socket = "closing"
      BY <1>3, <2>1 DEF Landed1, Ended
    <3>3. F \ Mine(a, k) \in SUBSET Ids
      BY <1>1
    <3>4. ud' = v
      BY <1>4, <2>1
    <3>5. (F \ Mine(a, k)) \ mine = F \ Mine(a, MaxPending)
      <4>1. Mine(a, k) \subseteq Mine(a, MaxPending)
        <5>1. n \in Nat /\ n <= MaxPending
          BY <1>2 DEF Frame
        <5>2. k \in Nat /\ k <= MaxPending
          BY <5>1, SubscriptionAssumption
        <5>3. \A i \in 1..k : i \in 1..MaxPending
          BY <5>2, SubscriptionAssumption
        <5> QED BY <5>3 DEF Mine
      <4>2. mine = Mine(a, MaxPending)
        BY DEF Mine
      <4> QED BY <4>1, <4>2
    <3> HIDE DEF u, mine
    <3>6. AfterForget(u, v, F \ Mine(a, k), mine, topic, token)
      <4>1. u.socket # "open"
        BY <3>2
      <4> QED BY <3>1, <3>3, <4>1, ForgottenBooks
    <3> HIDE DEF v
    <3>7. /\ Books(v, F \ Mine(a, MaxPending), topic, token)
          /\ v.subs = u.subs /\ v.backed = u.backed /\ v.socket = "closing"
      BY <3>2, <3>5, <3>6 DEF AfterForget
    <3> QED BY <3>4, <3>7, <1>5 DEF NoOrphan, u
  <2>2. CASE ~r.gone
    BY <1>3, <1>4, <1>5, <2>2 DEF Landed1, Going
  <2> QED BY <2>1, <2>2
<1>7. Books(ud, Flying(call), TopicOf(call), TokenOf(call))'
  <2>1. Books(ud', Flying(call'), TopicOf(call'), TokenOf(call'))
    BY <1>5, <1>6, BooksAgree
  <2> QED BY <2>1 DEF Books, Counted, Dated, Backed, Places, Flying, TopicOf, TokenOf
<1>8. CallInv'
  <2>1. Idle \in [stage : {"idle", "hook", "resume"}, lane : {"none", "wire", "batch", "platform", "observer"},
                  items : Seq(Item)]
    BY DEF Idle
  <2>2. call' \in [Attempts -> [stage : {"idle", "hook", "resume"},
                               lane : {"none", "wire", "batch", "platform", "observer"},
                               items : Seq(Item)]]
    BY <1>1, <1>4, <2>1 DEF CallInv
  <2>3. call'[a] = Idle /\ \A x \in Attempts \ {a} : call'[x] = call[x]
    BY <1>1, <1>4 DEF CallInv
  <2>4. ASSUME NEW x \in Attempts
        PROVE  /\ call'[x].stage = "idle" => call'[x].items = <<>>
               /\ Len(call'[x].items) <= MaxPending
               /\ \A i \in 1..Len(call'[x].items) :
                    /\ call'[x].items[i].id = <<x, i>>
                    /\ call'[x].items[i].allow => ~call'[x].items[i].gated
                    /\ call'[x].items[i].recover => call'[x].lane \in {"wire", "batch"}
    <3>1. CASE x = a
      <4>1. call'[x].items = <<>> /\ Len(<<>>) = 0
        BY <3>1, <2>3 DEF Idle
      <4> QED BY <4>1, SubscriptionAssumption
    <3>2. CASE x # a
      BY <3>2, <2>3, <1>1 DEF CallInv
    <3> QED BY <3>1, <3>2
  <2> QED BY <2>2, <2>4 DEF CallInv
<1>9. ud'.backed \subseteq ud'.subs /\ ud.backed \subseteq ud.subs
  BY <1>1, <1>6 DEF Books, Backed
<1>10. AcksHold
  BY <1>3, <1>4, <1>6, <1>9 DEF AcksHold, Landed1, StandsOrTap
<1>11. LandingsHold
  <2> SUFFICES ASSUME NEW x \in Attempts, Landed(x)
               PROVE  /\ \A t \in ud'.subs \ ud.subs : Entitled(x, t)
                      /\ \A t \in ud.backed \ ud'.subs : \E b \in ud.subs \ ud'.subs : t \in Derived[b]
    BY DEF LandingsHold
  <2>1. x = a
    BY <1>1, <1>4 DEF Landed, CallInv
  <2>2. ASSUME NEW t \in ud'.subs \ ud.subs PROVE Entitled(a, t)
    <3>1. PICK i \in 1..n : /\ items[i].topic = t /\ items[i].allow /\ items[i].id \notin ud.stale
                            /\ lane \in {"wire", "batch"} => ~armed /\ t \notin PluginOwned
      BY <1>3, <1>6 DEF Landed1, InstalledByRight
    <3>2. i \in DOMAIN call[a].items
      <4>1. call[a].items \in Seq(Item) /\ i \in 1..Len(call[a].items)
        BY <1>1 DEF SameItems, CallInv
      <4> QED BY <4>1
    <3>3. call[a].items[i].topic = t /\ call[a].items[i].id \notin ud.stale /\ ~call[a].items[i].gated
      BY <3>1 DEF SameItems
    <3> QED BY <3>1, <3>2, <3>3 DEF Entitled
  <2>3. ASSUME NEW t \in ud.backed \ ud'.subs PROVE \E b \in ud.subs \ ud'.subs : t \in Derived[b]
    BY <1>3, <1>6, <1>9 DEF Landed1, StandsOrTap
  <2> QED BY <2>1, <2>2, <2>3
<1>12. HistoryHolds
  <2>1. \A x \in Attempts : ~(call[x].stage = "hook" /\ call'[x].stage = "resume")
    BY <1>1, <1>4 DEF CallInv, Idle
  <2> QED BY <2>1 DEF HistoryHolds
<1>13. NoOrphan(ud)' /\ (\A t \in Topics : ud.entry[t].epoch <= MaxEpoch)' /\ acks' \subseteq Topics /\ armed' \in BOOLEAN
  BY <1>3, <1>4, <1>6 DEF NoOrphan, Landed1, SubscriptionInv
<1> QED BY <1>7, <1>8, <1>10, <1>11, <1>12, <1>13 DEF GoodStep, SubscriptionInv

\* What the hook leaves of a request for history.
Deserves(a, it) ==
  /\ it.recover /\ ~RecoverRevoked(ud, call[a].lane, it)
  /\ call[a].lane = "wire" => ~(it.topic \in ud.subs /\ LandingGate(it.topic, HeldAuthorized(ud, it)))

\* The hook's answers change no item but what it may do.
LEMMA JudgedItems ==
  ASSUME SubscriptionInv, NEW a \in Attempts, NEW allowed
  PROVE  /\ SameItems(a, Judged(a, allowed))
         /\ \A i \in 1..Len(call[a].items) :
              /\ Judged(a, allowed)[i].allow => ~Judged(a, allowed)[i].gated
              /\ Judged(a, allowed)[i].recover = call[a].items[i].recover
              /\ Judged(a, allowed)[i].served => Deserves(a, call[a].items[i])
<1> DEFINE c == call[a]
           n == Len(c.items)
           yes(i) == i \in allowed /\ ~c.items[i].gated
           denied(i) == c.lane = "wire" /\ c.items[i].recover /\ RecoverRevoked(ud, c.lane, c.items[i])
           may(i) == yes(i) /\ ~denied(i)
           full(i) == c.items[i].topic \notin ud.subs /\ Full(ud)
           gate(i) == c.items[i].topic \in ud.subs
                      /\ LandingGate(c.items[i].topic, HeldAuthorized(ud, c.items[i]))
           fed(i) == /\ yes(i) /\ c.items[i].recover /\ ~RecoverRevoked(ud, c.lane, c.items[i])
                     /\ c.lane = "wire" => ~full(i) /\ ~gate(i)
           J == Judged(a, allowed)
<1>1. c.items \in Seq(Item) /\ n \in Nat /\ DOMAIN c.items = 1..n
  <2>1. c.items \in Seq(Item)
    BY DEF SubscriptionInv, CallInv
  <2> QED BY <2>1
<1>2. J = [i \in 1..n |-> [c.items[i] EXCEPT !.allow = may(i), !.served = fed(i)]]
  BY <1>1 DEF Judged
<1>3. \A i \in 1..n : (may(i) => ~c.items[i].gated) /\ (fed(i) => Deserves(a, c.items[i]))
  BY DEF Deserves
<1>b. \A i \in 1..n : may(i) \in BOOLEAN /\ fed(i) \in BOOLEAN
  OBVIOUS
<1> HIDE DEF may, fed, J, n
<1>4. ASSUME NEW i \in 1..n
      PROVE  /\ J[i] \in Item
             /\ J[i].id = c.items[i].id /\ J[i].topic = c.items[i].topic /\ J[i].token = c.items[i].token
             /\ J[i].gated = c.items[i].gated /\ J[i].recover = c.items[i].recover
             /\ J[i].allow = may(i) /\ J[i].served = fed(i)
  <2> DEFINE it == c.items[i]
             new == [it EXCEPT !.allow = may(i), !.served = fed(i)]
  <2>1. J[i] = new
    BY <1>2
  <2>2. it \in Item
    BY <1>1
  <2>3. may(i) \in BOOLEAN /\ fed(i) \in BOOLEAN
    BY <1>b
  <2> HIDE DEF it
  <2>4. /\ new \in Item /\ new.id = it.id /\ new.topic = it.topic /\ new.token = it.token
        /\ new.gated = it.gated /\ new.recover = it.recover /\ new.allow = may(i) /\ new.served = fed(i)
    BY <2>2, <2>3 DEF Item
  <2> HIDE DEF new
  <2> QED BY <2>1, <2>4 DEF it
<1>5. J \in Seq(Item) /\ Len(J) = n
  <2>1. J = [i \in 1..n |-> J[i]]
    BY <1>2
  <2>2. J \in [1..n -> Item]
    BY <2>1, <1>4
  <2>3. J \in Seq(Item)
    BY <1>1, <2>2
  <2> QED BY <1>1, <2>2, <2>3
<1> QED BY <1>3, <1>4, <1>5 DEF SameItems, J, n

\* The hook answers, and the resume hook is due.
LEMMA ResumeDueStep ==
  ASSUME SubscriptionInv, NEW a \in Attempts, call[a].stage = "hook", NEW allowed,
         call' = [call EXCEPT ![a].stage = "resume", ![a].items = Judged(a, allowed)],
         acks' = {}, UNCHANGED <<ud, armed>>
  PROVE  GoodStep
<1> DEFINE items == Judged(a, allowed)
           c == [stage |-> "resume", lane |-> call[a].lane, items |-> items]
<1>1. CallInv
  BY DEF SubscriptionInv
<1>2. /\ SameItems(a, items)
      /\ \A i \in 1..Len(call[a].items) :
           /\ items[i].allow => ~items[i].gated
           /\ items[i].recover = call[a].items[i].recover
           /\ items[i].served => Deserves(a, call[a].items[i])
  BY JudgedItems
<1> HIDE DEF items
<1>3. items \in Seq(Item) /\ Len(items) = Len(call[a].items) /\ Len(items) \in Nat
      /\ call[a].items \in Seq(Item)
  BY <1>1, <1>2 DEF SameItems, CallInv
<1>4. call'[a] = c /\ \A x \in Attempts \ {a} : call'[x] = call[x]
  BY <1>1 DEF CallInv, items
<1>c. c.stage = "resume" /\ c.lane = call[a].lane /\ c.items = items
  OBVIOUS
<1>5. CallInv'
  <2>1. c \in [stage : {"idle", "hook", "resume"}, lane : {"none", "wire", "batch", "platform", "observer"},
               items : Seq(Item)]
    BY <1>1, <1>3 DEF CallInv
  <2>2. call' \in [Attempts -> [stage : {"idle", "hook", "resume"},
                               lane : {"none", "wire", "batch", "platform", "observer"},
                               items : Seq(Item)]]
    <3>1. call' = [call EXCEPT ![a] = call'[a]]
      BY <1>1, <1>4 DEF CallInv
    <3> QED BY <1>1, <1>4, <2>1, <3>1 DEF CallInv
  <2> HIDE DEF c
  <2>3. ASSUME NEW x \in Attempts
        PROVE  /\ call'[x].stage = "idle" => call'[x].items = <<>>
               /\ Len(call'[x].items) <= MaxPending
               /\ \A i \in 1..Len(call'[x].items) :
                    /\ call'[x].items[i].id = <<x, i>>
                    /\ call'[x].items[i].allow => ~call'[x].items[i].gated
                    /\ call'[x].items[i].recover => call'[x].lane \in {"wire", "batch"}
    <3>1. CASE x = a
      <4>1. call'[x].stage = "resume" /\ call'[x].items = items /\ call'[x].lane = call[a].lane
        BY <3>1, <1>4, <1>c
      <4> QED BY <3>1, <4>1, <1>1, <1>2, <1>3 DEF SameItems, CallInv
    <3>2. CASE x # a
      BY <3>2, <1>1, <1>4 DEF CallInv
    <3> QED BY <3>1, <3>2
  <2> QED BY <2>2, <2>3 DEF CallInv
<1> HIDE DEF c
<1>6. /\ Flying(call') = Flying(call)
      /\ \A id \in Flying(call) : TopicOf(call')[id] = TopicOf(call)[id] /\ TokenOf(call')[id] = TokenOf(call)[id]
  <2>1. \A x \in Attempts : DOMAIN call'[x].items = DOMAIN call[x].items
    <3>1. DOMAIN items = DOMAIN call[a].items
      BY <1>3
    <3>2. DOMAIN call'[a].items = DOMAIN call[a].items
      BY <3>1, <1>4, <1>c
    <3> QED BY <3>2, <1>4
  <2>2. \A id \in Ids : id[1] \in Attempts
    BY DEF Ids
  <2>3. Flying(call') = Flying(call)
    BY <2>1, <2>2 DEF Flying
  <2>4. ASSUME NEW id \in Flying(call)
        PROVE  /\ call'[id[1]].items[id[2]].topic = call[id[1]].items[id[2]].topic
               /\ call'[id[1]].items[id[2]].token = call[id[1]].items[id[2]].token
    <3>1. id[1] \in Attempts /\ id[2] \in DOMAIN call[id[1]].items
      BY DEF Flying, Ids
    <3>2. CASE id[1] = a
      <4>1. id[2] \in 1..Len(items)
        <5>1. DOMAIN call[a].items = 1..Len(call[a].items)
          BY <1>3
        <5> QED BY <3>1, <3>2, <5>1, <1>3
      <4>2. call'[id[1]].items = items
        BY <3>2, <1>4, <1>c
      <4> QED BY <3>2, <4>1, <4>2, <1>2 DEF SameItems
    <3>3. CASE id[1] # a
      BY <3>1, <3>3, <1>4
    <3> QED BY <3>2, <3>3
  <2> QED BY <2>3, <2>4 DEF TopicOf, TokenOf
<1>7. Books(ud, Flying(call), TopicOf(call), TokenOf(call))'
  <2>1. Books(ud, Flying(call'), TopicOf(call'), TokenOf(call'))
    <3>1. Books(ud, Flying(call'), TopicOf(call), TokenOf(call))
      BY <1>6 DEF SubscriptionInv
    <3> DEFINE F == Flying(call')
               topic == TopicOf(call)
               token == TokenOf(call)
               topic2 == TopicOf(call')
               token2 == TokenOf(call')
    <3>2. Books(ud, F, topic, token) /\ \A id \in F : topic2[id] = topic[id] /\ token2[id] = token[id]
      BY <3>1, <1>6
    <3> HIDE DEF F, topic, token, topic2, token2
    <3>3. Books(ud, F, topic2, token2)
      BY <3>2, BooksAgree
    <3> QED BY <3>3 DEF F, topic2, token2
  <2>2. Books(ud', Flying(call'), TopicOf(call'), TokenOf(call'))
    BY <2>1
  <2> QED BY <2>2 DEF Books, Counted, Dated, Backed, Places, Flying, TopicOf, TokenOf
<1>8. AcksHold /\ LandingsHold
  <2>1. \A x \in Attempts : ~Landed(x)
    BY <1>4, <1>c DEF Landed
  <2> QED BY <2>1 DEF AcksHold, LandingsHold
<1>9. NoOrphan(ud)' /\ (\A t \in Topics : ud.entry[t].epoch <= MaxEpoch)' /\ acks' \subseteq Topics /\ armed' \in BOOLEAN
  BY DEF SubscriptionInv, NoOrphan
<1>10. HistoryHolds
  <2> SUFFICES ASSUME ud.socket = "open", NEW i \in 1..Len(items), items[i].served
               PROVE  \/ items[i].topic \in ud.backed
                      \/ /\ items[i].id \notin ud.stale
                         /\ IF items[i].topic \in PluginOwned THEN items[i].topic \in ud.subs ELSE ~armed
    <3>1. ASSUME NEW x \in Attempts, call[x].stage = "hook", call'[x].stage = "resume"
          PROVE  x = a /\ call'[x].items = items /\ DOMAIN call'[x].items = 1..Len(items)
      <4>1. x = a
        BY <3>1, <1>4
      <4>2. DOMAIN items = 1..Len(items)
        BY <1>3
      <4> QED BY <4>1, <4>2, <1>4, <1>c
    <3> QED BY <3>1 DEF HistoryHolds
  <2> DEFINE it == call[a].items[i]
             t == it.topic
             lane == call[a].lane
             e == ud.entry[t]
  <2>1. i \in DOMAIN call[a].items
    BY <1>3
  <2>2. /\ it.recover /\ ~RecoverRevoked(ud, lane, it)
        /\ lane = "wire" => ~(t \in ud.subs /\ LandingGate(t, HeldAuthorized(ud, it)))
    BY <1>2, <1>3 DEF Deserves
  <2>3. items[i].id = it.id /\ items[i].topic = t /\ it \in Item /\ lane \in {"wire", "batch"}
    BY <1>1, <1>2, <1>3, <2>2 DEF SameItems, CallInv
  <2>4. it.id = <<a, i>>
    BY <1>1, <1>3 DEF CallInv
  <2>5. Books(ud, Flying(call), TopicOf(call), TokenOf(call)) /\ Flying(call) \in SUBSET Ids
    BY DEF SubscriptionInv, Flying
  <2>6. Awaited(it, Flying(call), TopicOf(call), TokenOf(call))
    <3>1. <<a, i>> \in Ids /\ <<a, i>>[1] = a /\ <<a, i>>[2] = i
      <4>1. i \in 1..MaxPending
        BY <1>1, <1>3, SubscriptionAssumption DEF CallInv
      <4> QED BY <4>1 DEF Ids
    <3>2. <<a, i>> \in Flying(call)
      BY <2>1, <3>1 DEF Flying
    <3> QED BY <2>3, <2>4, <3>1, <3>2 DEF Awaited, TopicOf, TokenOf
  <2>7. Current(ud, it) <=> it.id \notin ud.stale
    BY <2>5, <2>6, CurrentIsNotStale
  <2>8. t \in Topics /\ it.id \in ud.parked[t]
    BY <2>3, <2>5, <2>6 DEF Books, Counted, Awaited, Item
  <2>9. e.inflight > 0 /\ e.inflight # 0
    <3>1. Cardinality(ud.parked[t]) = e.inflight /\ IsFiniteSet(ud.parked[t])
      BY <2>5, <2>8 DEF Books, Counted
    <3>2. ud.parked[t] # {}
      BY <2>8
    <3> QED BY ONLY <3>1, <3>2, InhabitedCount
  <2>10. e.granted => t \in ud.backed
    BY <2>5, <2>8 DEF Books, Backed
  <2> HIDE DEF it
  <2>11. CASE t \in ud.subs /\ WouldAck(ud, it) /\ (lane = "batch" /\ armed => HeldAuthorized(ud, it))
    <3>1. e.granted \/ Current(ud, it)
      BY <2>9, <2>11 DEF WouldAck, Current
    <3>2. CASE e.granted
      BY <3>2, <2>3, <2>10
    <3>3. CASE ~e.granted
      <4>1. it.id \notin ud.stale
        BY <3>1, <3>3, <2>7
      <4>2. HeldAuthorized(ud, it) => t \in PluginOwned
        BY <3>3, <2>9 DEF HeldAuthorized, Unconfirmed
      <4>3. armed => HeldAuthorized(ud, it)
        BY <2>2, <2>3, <2>11 DEF LandingGate
      <4> QED BY <4>1, <4>2, <4>3, <2>3, <2>11
    <3> QED BY <3>2, <3>3
  <2>12. CASE ~(t \in PluginOwned \/ armed \/ ~Current(ud, it))
    BY <2>3, <2>7, <2>12
  <2> QED BY <2>2, <2>11, <2>12 DEF RecoverRevoked
<1> QED BY <1>5, <1>7, <1>8, <1>9, <1>10 DEF GoodStep, SubscriptionInv

\* The subscribe hook answers, and the frame lands or goes on to ask for its history.
LEMMA HookStep ==
  ASSUME SubscriptionInv, NEW a \in Attempts, HookReturns(a)
  PROVE  GoodStep
<1>1. call[a].stage = "hook"
  BY DEF HookReturns
<1>2. PICK allowed \in SUBSET DOMAIN call[a].items :
        LET items == Judged(a, allowed) IN
        IF \E i \in DOMAIN items : items[i].served
        THEN /\ call' = [call EXCEPT ![a].stage = "resume", ![a].items = items]
             /\ acks' = {}
             /\ UNCHANGED <<ud, armed>>
        ELSE Land(a, items, 0)
  BY DEF HookReturns
<1> DEFINE items == Judged(a, allowed)
<1>3. SameItems(a, items)
  BY JudgedItems
<1>4. CASE \E i \in DOMAIN items : items[i].served
  BY <1>1, <1>2, <1>4, ResumeDueStep
<1>5. CASE ~(\E i \in DOMAIN items : items[i].served)
  <2>1. Land(a, items, 0) /\ call[a].stage # "idle"
    BY <1>1, <1>2, <1>5
  <2> HIDE DEF items
  <2> QED BY <1>3, <2>1, LandStep
<1> QED BY <1>4, <1>5

\* The resume hook answers, and the frame lands.
LEMMA ResumeStep ==
  ASSUME SubscriptionInv, NEW a \in Attempts, ResumeReturns(a)
  PROVE  GoodStep
<1>1. PICK closer \in 0..Len(call[a].items) : Land(a, call[a].items, closer)
  BY DEF ResumeReturns
<1> DEFINE items == call[a].items
<1>2. SameItems(a, items)
  <2>1. items \in Seq(Item) /\ \A i \in 1..Len(items) : items[i].allow => ~items[i].gated
    BY DEF SubscriptionInv, CallInv
  <2> QED BY <2>1 DEF SameItems
<1>3. Land(a, items, closer) /\ call[a].stage # "idle"
  BY <1>1 DEF ResumeReturns
<1> HIDE DEF items
<1> QED BY <1>2, <1>3, LandStep

\* A frame or a call that is let in takes no more than the headroom.
LEMMA WireSubscribeStep ==
  ASSUME SubscriptionInv, NEW a \in Attempts, NEW t \in Topics, NEW recover \in BOOLEAN,
         WireSubscribe(a, t, recover)
  PROVE  GoodStep
<1> DEFINE item == NewItem(a, 1, t, FALSE, recover)
<1>1. ud.total < MaxPending /\ Enter(a, "wire", <<item>>)
  BY DEF WireSubscribe
<1> USE SubscriptionAssumption
<1>2. ud.total \in Nat /\ 1 \in 1..MaxPending
  BY <1>1 DEF SubscriptionInv, Books, Ledger
<1>3. ud.entry[t].epoch \in 0..MaxEpoch
  <2>1. ud.entry[t].epoch \in Nat /\ ud.entry[t].epoch <= MaxEpoch
    BY DEF SubscriptionInv, Books, Ledger
  <2> QED BY <2>1
<1>4. /\ item \in Item /\ item.id = <<a, 1>> /\ item.token = ud.entry[item.topic].epoch
      /\ item.allow = FALSE
  BY <1>2, <1>3 DEF NewItem, Item
<1> HIDE DEF item
<1>5. <<item>> \in Seq(Item) /\ Len(<<item>>) = 1 /\ <<item>>[1] = item
  BY <1>4
<1>6. ud.total + 1 <= MaxPending
  BY <1>1, <1>2
<1> DEFINE items == <<item>>
<1>7. /\ items \in Seq(Item) /\ ud.total + Len(items) <= MaxPending
      /\ \A i \in 1..Len(items) :
           /\ items[i].id = <<a, i>> /\ items[i].token = ud.entry[items[i].topic].epoch
           /\ ~items[i].allow
  BY <1>4, <1>5, <1>6
<1> HIDE DEF items
<1> QED BY <1>1, <1>7, EnterStep DEF items

\* A call for one topic enrols it.
LEMMA SingleCallStep ==
  ASSUME SubscriptionInv, NEW a \in Attempts, NEW t \in Topics,
         PlatformSubscribe(a, t) \/ AuthorizeDerived(a, t)
  PROVE  GoodStep
<1> DEFINE item == NewItem(a, 1, t, FALSE, FALSE)
           items == <<item>>
<1>1. PICK lane \in {"platform", "observer"} : ud.total < MaxPending /\ Enter(a, lane, items)
  BY DEF PlatformSubscribe, AuthorizeDerived
<1> USE SubscriptionAssumption
<1>2. ud.total \in Nat /\ 1 \in 1..MaxPending
  BY <1>1 DEF SubscriptionInv, Books, Ledger
<1>3. ud.entry[t].epoch \in 0..MaxEpoch
  <2>1. ud.entry[t].epoch \in Nat /\ ud.entry[t].epoch <= MaxEpoch
    BY DEF SubscriptionInv, Books, Ledger
  <2> QED BY <2>1
<1>4. /\ item \in Item /\ item.id = <<a, 1>> /\ item.token = ud.entry[item.topic].epoch
      /\ item.allow = FALSE /\ item.recover = FALSE
  BY <1>2, <1>3 DEF NewItem, Item
<1> HIDE DEF item
<1>5. items \in Seq(Item) /\ Len(items) = 1 /\ items[1] = item
  BY <1>4
<1>6. ud.total + 1 <= MaxPending
  BY <1>1, <1>2
<1>7. /\ items \in Seq(Item) /\ ud.total + Len(items) <= MaxPending
      /\ \A i \in 1..Len(items) :
           /\ items[i].id = <<a, i>> /\ items[i].token = ud.entry[items[i].topic].epoch
           /\ ~items[i].allow /\ ~items[i].recover
  BY <1>4, <1>5, <1>6
<1> HIDE DEF items
<1> QED BY <1>1, <1>7, EnterStep

\* A frame of several topics enrols as many as fit the headroom.
LEMMA WireBatchStep ==
  ASSUME SubscriptionInv, NEW a \in Attempts, NEW topics \in Batches, NEW recover \in SUBSET Topics,
         WireBatch(a, topics, recover)
  PROVE  GoodStep
<1> DEFINE n == IF Len(topics) <= MaxPending - ud.total THEN Len(topics) ELSE MaxPending - ud.total
           items == [i \in 1..n |-> NewItem(a, i, topics[i], PreGate(ud, topics[i]), topics[i] \in recover)]
<1> USE SubscriptionAssumption
<1>1. n > 0 /\ Enter(a, "batch", items)
  BY DEF WireBatch
<1>2. topics \in Seq(Topics) /\ Len(topics) \in Nat /\ ud.total \in Nat
  <2>1. topics \in Seq(Topics)
    OBVIOUS
  <2> QED BY <2>1 DEF SubscriptionInv, Books, Ledger
<1>3. n \in Nat /\ n <= Len(topics) /\ ud.total + n <= MaxPending /\ n <= MaxPending
  BY <1>1, <1>2
<1> HIDE DEF n
<1>4. ASSUME NEW i \in 1..n
      PROVE  /\ items[i] \in Item /\ items[i].id = <<a, i>>
             /\ items[i].token = ud.entry[items[i].topic].epoch
             /\ items[i].allow = FALSE
  <2>1. topics[i] \in Topics /\ i \in 1..MaxPending
    BY <1>2, <1>3
  <2>2. ud.entry[topics[i]].epoch \in 0..MaxEpoch
    <3>1. ud.entry[topics[i]].epoch \in Nat /\ ud.entry[topics[i]].epoch <= MaxEpoch
      BY <2>1 DEF SubscriptionInv, Books, Ledger
    <3> QED BY <3>1
  <2>3. PreGate(ud, topics[i]) \in BOOLEAN
    BY DEF PreGate, SubscriptionInv
  <2> DEFINE gated == PreGate(ud, topics[i])
             asks == topics[i] \in recover
  <2>4. items[i] = NewItem(a, i, topics[i], gated, asks) /\ gated \in BOOLEAN /\ asks \in BOOLEAN
    BY <2>3
  <2> HIDE DEF items, gated, asks
  <2> QED BY <2>1, <2>2, <2>4 DEF NewItem, Item
<1>5. items \in Seq(Item) /\ Len(items) = n
  <2>1. items = [i \in 1..n |-> items[i]]
    OBVIOUS
  <2> HIDE DEF items
  <2>2. items \in [1..n -> Item]
    BY <1>4, <2>1
  <2>3. items \in Seq(Item)
    BY <1>3, <2>2
  <2> QED BY <1>3, <2>2, <2>3
<1> HIDE DEF items
<1>6. ud.total + Len(items) <= MaxPending
  BY <1>3, <1>5
<1>7. \A i \in 1..Len(items) :
        /\ items[i].id = <<a, i>> /\ items[i].token = ud.entry[items[i].topic].epoch
        /\ ~items[i].allow
  BY <1>4, <1>5
<1> QED BY <1>1, <1>5, <1>6, <1>7, EnterStep

\* A revocation leaves no orphan that was none before.
LEMMA EvictedStep ==
  ASSUME SubscriptionInv, NEW T \in SUBSET Topics
  PROVE  LET v == Evict(ud, T)
         IN /\ Books(v, Flying(call), TopicOf(call), TokenOf(call)) /\ NoOrphan(v)
            /\ v.subs = ud.subs \ T /\ v.socket = ud.socket
<1> DEFINE F == Flying(call)
           topic == TopicOf(call)
           token == TokenOf(call)
           v == Evict(ud, T)
<1>1. Books(ud, F, topic, token) /\ NoOrphan(ud) /\ F \in SUBSET Ids
  BY DEF SubscriptionInv, Flying
<1> HIDE DEF F, topic, token
<1>2. AfterEvict(ud, v, F, T, topic, token)
  BY <1>1, EvictBooks
<1> HIDE DEF v
<1>3. NoOrphan(v)
  BY <1>1, <1>2 DEF NoOrphan, AfterEvict
<1> QED BY <1>2, <1>3 DEF AfterEvict, v, F, topic, token

\* The subscriber leaves a topic.
LEMMA WireUnsubscribeStep ==
  ASSUME SubscriptionInv, NEW t \in Topics, WireUnsubscribe(t)
  PROVE  GoodStep
<1> DEFINE T == {t} \cup Derived[t]
<1>1. T \in SUBSET Topics
  BY SubscriptionAssumption
<1>2. ud' = Evict(ud, T) /\ \A s \in Topics : ud'.entry[s].epoch <= MaxEpoch
  BY DEF WireUnsubscribe, Unwind, EpochBound
<1> HIDE DEF T
<1>3. Books(ud', Flying(call), TopicOf(call), TokenOf(call)) /\ NoOrphan(ud')
  BY <1>1, <1>2, EvictedStep
<1>4. call' = call /\ acks' = {} /\ armed' \in BOOLEAN
  BY DEF WireUnsubscribe, SubscriptionInv
<1> QED BY <1>2, <1>3, <1>4, QuietStep

\* A plugin evicts the socket from a topic.
LEMMA PluginLeaveStep ==
  ASSUME SubscriptionInv, NEW t \in Topics, PluginLeave(t)
  PROVE  GoodStep
<1>1. {t} \in SUBSET Topics
  OBVIOUS
<1>2. ud' = Evict(ud, {t}) /\ \A s \in Topics : ud'.entry[s].epoch <= MaxEpoch
  BY DEF PluginLeave, EpochBound
<1>3. Books(ud', Flying(call), TopicOf(call), TokenOf(call)) /\ NoOrphan(ud')
  BY <1>1, <1>2, EvictedStep
<1>4. call' = call /\ acks' = {} /\ armed' \in BOOLEAN
  BY DEF PluginLeave, SubscriptionInv
<1> QED BY <1>2, <1>3, <1>4, QuietStep

\* The application revokes a topic: taps first; a membership of a socket that is
\* no longer open is left to the close.
LEMMA PlatformUnsubscribeStep ==
  ASSUME SubscriptionInv, NEW t \in Topics, PlatformUnsubscribe(t)
  PROVE  GoodStep
<1> DEFINE F == Flying(call)
           topic == TopicOf(call)
           token == TokenOf(call)
           v == Evict(ud, Derived[t])
           w == Evict(v, {t})
           z == [w EXCEPT !.subs = v.subs, !.count = v.count]
<1>1. /\ ud' = IF ud.socket = "open" \/ t \notin ud.subs THEN w ELSE z
      /\ \A s \in Topics : ud'.entry[s].epoch <= MaxEpoch
      /\ call' = call /\ acks' = {} /\ armed' = armed
  BY DEF PlatformUnsubscribe, EpochBound
<1>2. Derived[t] \in SUBSET Topics /\ {t} \in SUBSET Topics /\ F \in SUBSET Ids
  BY SubscriptionAssumption DEF Flying
<1>3. Books(v, F, topic, token) /\ NoOrphan(v) /\ v.socket = ud.socket
  BY <1>2, EvictedStep
<1> HIDE DEF v, F, topic, token
<1>4. AfterEvict(v, w, F, {t}, topic, token)
  BY <1>2, <1>3, EvictBooks
<1> HIDE DEF w
<1>5. /\ Books(w, F, topic, token) /\ w.subs = v.subs \ {t} /\ w.backed = v.backed \ {t}
      /\ w.socket = v.socket /\ w.parked = v.parked
  BY <1>4 DEF AfterEvict
<1>6. NoOrphan(w)
  BY <1>3, <1>5 DEF NoOrphan
<1>7. CASE ud.socket = "open" \/ t \notin ud.subs
  BY <1>1, <1>5, <1>6, <1>7, QuietStep DEF F, topic, token, SubscriptionInv
<1>8. CASE ~(ud.socket = "open" \/ t \notin ud.subs)
  <2>1. /\ z \in Ledger /\ z.subs = v.subs /\ z.count = v.count
        /\ z.entry = w.entry /\ z.total = w.total /\ z.socket = w.socket /\ z.backed = w.backed
        /\ z.stale = w.stale /\ z.parked = w.parked
    <3>1. w \in Ledger /\ v.subs \in SUBSET Topics /\ v.count \in Int
      BY <1>3, <1>5 DEF Books, Ledger
    <3> QED BY <3>1 DEF Ledger
  <2> HIDE DEF z
  <2>2. z.socket # "open"
    BY <1>3, <1>5, <1>8, <2>1
  <2>3. Counted(z, F, topic) /\ Dated(z, F, topic, token)
    BY <1>5, <2>1 DEF Books, Counted, Dated, Places
  <2>4. Backed(z)
    <3>1. v.count = IF v.socket = "closed" THEN 0 ELSE Cardinality(v.subs)
      BY <1>3 DEF Books, Backed
    <3>2. z.backed \subseteq z.subs
      BY <1>5, <2>1 DEF Books, Backed
    <3>3. \A s \in z.backed : z.entry[s].inflight > 0 => z.entry[s].granted
      BY <1>5, <2>1 DEF Books, Backed
    <3> QED BY <1>5, <2>1, <2>2, <3>1, <3>2, <3>3 DEF Backed
  <2>5. Books(z, F, topic, token) /\ NoOrphan(z)
    BY <2>1, <2>2, <2>3, <2>4 DEF Books, NoOrphan
  <2>6. ud' = z
    BY <1>1, <1>8
  <2> QED BY <1>1, <2>5, <2>6, QuietStep DEF F, topic, token, SubscriptionInv
<1> QED BY <1>7, <1>8

\* A plugin joins the socket: it has the authority itself, unless an attempt contests it.
LEMMA PluginJoinStep ==
  ASSUME SubscriptionInv, NEW t \in Topics, PluginJoin(t)
  PROVE  GoodStep
<1> DEFINE F == Flying(call)
           topic == TopicOf(call)
           token == TokenOf(call)
           v == Install(ud, t)
           more == IF ud.parked[t] = {} THEN v.backed \cup {t} ELSE v.backed
           w == [v EXCEPT !.backed = more]
<1>1. ud' = w /\ ud.socket = "open" /\ t \notin ud.subs /\ call' = call /\ acks' = {} /\ armed' = armed
  BY DEF PluginJoin
<1>2. Books(ud, F, topic, token) /\ NoOrphan(ud) /\ F \in SUBSET Ids
      /\ \A s \in Topics : ud.entry[s].epoch <= MaxEpoch
  BY DEF SubscriptionInv, Flying
<1> HIDE DEF F, topic, token
<1>3. AfterInstall(ud, v, F, t, topic, token)
  BY <1>1, <1>2, InstallBooks
<1> HIDE DEF v
<1>4. /\ Books(v, F, topic, token) /\ v.subs = ud.subs \cup {t} /\ v.backed = ud.backed
      /\ v.socket = "open" /\ v.entry = ud.entry /\ v.parked = ud.parked
  BY <1>1, <1>3 DEF AfterInstall
<1>5. /\ more \subseteq v.subs /\ ud.backed \subseteq more /\ more \subseteq ud.backed \cup {t}
      /\ t \in more <=> ud.parked[t] = {}
  BY <1>1, <1>2, <1>4 DEF Books, Backed
<1> HIDE DEF more
<1>6. /\ w \in Ledger /\ w.backed = more
      /\ w.subs = v.subs /\ w.native = v.native /\ w.count = v.count /\ w.entry = v.entry
      /\ w.total = v.total /\ w.socket = v.socket /\ w.stale = v.stale /\ w.parked = v.parked
  <2>1. v \in Ledger /\ more \in SUBSET Topics
    BY <1>4, <1>5 DEF Books, Ledger
  <2> QED BY <2>1 DEF Ledger
<1> HIDE DEF w
<1>7. Counted(w, F, topic) /\ Dated(w, F, topic, token)
  BY ZenonT(60), <1>4, <1>6 DEF Books, Counted, Dated, Places
<1>8. t \in more => ~(ud.entry[t].inflight > 0)
  <2>1. Cardinality(ud.parked[t]) = ud.entry[t].inflight
    BY <1>1, <1>2 DEF Books, Counted
  <2>2. ud.parked[t] = {} => ud.entry[t].inflight = 0
    BY <2>1, FS_EmptySet
  <2> QED BY <1>5, <2>2
<1>9. Backed(w)
  <2>1. \A s \in w.backed : w.entry[s].inflight > 0 => w.entry[s].granted
    <3> SUFFICES ASSUME NEW s \in more, ud.entry[s].inflight > 0 PROVE ud.entry[s].granted
      BY <1>4, <1>6
    <3>1. s \in ud.backed
      BY <1>5, <1>8
    <3> QED BY <3>1, <1>2 DEF Books, Backed
  <2>2. \A s \in Topics : w.entry[s].granted => s \in w.backed
    BY <1>1, <1>2, <1>4, <1>5, <1>6 DEF Books, Backed
  <2>3. w.native = w.subs /\ w.count = IF w.socket = "closed" THEN 0 ELSE Cardinality(w.subs)
    BY <1>4, <1>6 DEF Books, Backed
  <2> QED BY <1>5, <1>6, <2>1, <2>2, <2>3 DEF Backed
<1>10. NoOrphan(w)
  BY <1>1, <1>2, <1>4, <1>5, <1>6 DEF NoOrphan
<1>11. Books(ud', Flying(call), TopicOf(call), TokenOf(call)) /\ NoOrphan(ud')
       /\ \A s \in Topics : ud'.entry[s].epoch <= MaxEpoch
  BY <1>1, <1>2, <1>4, <1>6, <1>7, <1>9, <1>10 DEF Books, F, topic, token
<1>12. armed' \in BOOLEAN
  BY <1>1 DEF SubscriptionInv
<1> QED BY <1>1, <1>11, <1>12, QuietStep

\* A rollback takes memberships and their authority, and no epoch moves.
LEMMA ReleaseStep ==
  ASSUME SubscriptionInv, NEW t \in Topics, Release(t)
  PROVE  GoodStep
<1> DEFINE F == Flying(call)
           topic == TopicOf(call)
           token == TokenOf(call)
           T == {t} \cup Derived[t]
           new == [s \in Topics |-> IF s \in T THEN [ud.entry[s] EXCEPT !.granted = FALSE] ELSE ud.entry[s]]
           v == ud'
<1>1. /\ ud.socket = "open"
      /\ v = [ud EXCEPT !.subs = @ \ T, !.native = @ \ T, !.count = @ - Cardinality(ud.subs \cap T),
                        !.entry = new, !.backed = @ \ T]
      /\ call' = call /\ acks' = {} /\ armed' = armed
  BY DEF Release
<1>2. Books(ud, F, topic, token) /\ NoOrphan(ud) /\ T \in SUBSET Topics /\ ud \in Ledger
      /\ \A s \in Topics : ud.entry[s].epoch <= MaxEpoch
  BY SubscriptionAssumption DEF SubscriptionInv, Books
<1>3. ASSUME NEW s \in Topics
      PROVE  /\ new[s] \in [epoch : Nat, inflight : 0..MaxPending, granted : BOOLEAN]
             /\ new[s].epoch = ud.entry[s].epoch /\ new[s].inflight = ud.entry[s].inflight
             /\ new[s].granted = (ud.entry[s].granted /\ s \notin T)
             /\ ud.entry[s].inflight = 0 => new[s] = NoEntry
  <2> HIDE DEF T
  <2> DEFINE e == ud.entry[s]
             n == new[s]
  <2>1. e \in [epoch : Nat, inflight : 0..MaxPending, granted : BOOLEAN]
        /\ (e.inflight = 0 => e = NoEntry)
    BY <1>2 DEF Ledger, Books, Counted
  <2>2. CASE s \in T
    <3>1. n = [e EXCEPT !.granted = FALSE]
      <4>1. new[s] = IF s \in T THEN [ud.entry[s] EXCEPT !.granted = FALSE] ELSE ud.entry[s]
        OBVIOUS
      <4> HIDE DEF new
      <4> QED BY <4>1, <2>2
    <3> HIDE DEF e, n
    <3>2. /\ n \in [epoch : Nat, inflight : 0..MaxPending, granted : BOOLEAN]
          /\ n.epoch = e.epoch /\ n.inflight = e.inflight /\ n.granted = FALSE
      BY <2>1, <3>1
    <3>3. e.inflight = 0 => n = NoEntry
      <4> SUFFICES ASSUME e = NoEntry PROVE n = NoEntry
        BY <2>1
      <4>1. n.epoch = 0 /\ n.inflight = 0 /\ n.granted = FALSE
        BY <3>2 DEF NoEntry
      <4>2. n = [epoch |-> n.epoch, inflight |-> n.inflight, granted |-> n.granted]
        BY <3>2
      <4> QED BY <4>1, <4>2 DEF NoEntry
    <3> QED BY <2>2, <3>2, <3>3 DEF e, n
  <2>3. CASE s \notin T
    <3>1. n = e
      BY <2>3
    <3> HIDE DEF n
    <3> QED BY <2>1, <2>3, <3>1 DEF n
  <2> QED BY <2>2, <2>3
<1>4. new \in [Topics -> [epoch : Nat, inflight : 0..MaxPending, granted : BOOLEAN]]
  <2>1. \A s \in Topics : new[s] \in [epoch : Nat, inflight : 0..MaxPending, granted : BOOLEAN]
    BY <1>3
  <2> QED BY <2>1
<1>5. Cardinality(ud.subs \cap T) \in Int
      /\ Cardinality(ud.subs \ T) = Cardinality(ud.subs) - Cardinality(ud.subs \cap T)
  <2> DEFINE held == ud.subs
             gone == ud.subs \cap T
             rest == ud.subs \ T
  <2>1. IsFiniteSet(held) /\ IsFiniteSet(gone) /\ rest = held \ gone /\ held \cap gone = gone
    BY <1>2, SubscriptionAssumption, FS_Subset DEF Ledger
  <2> HIDE DEF held, gone, rest
  <2>2. Cardinality(rest) = Cardinality(held) - Cardinality(held \cap gone)
    BY <2>1, FS_Difference
  <2>3. Cardinality(gone) \in Int
    BY <2>1, FS_CardinalityType
  <2> QED BY <2>1, <2>2, <2>3 DEF held, gone, rest
<1> DEFINE count == ud.count - Cardinality(ud.subs \cap T)
<1>6. count \in Int /\ count = Cardinality(ud.subs \ T)
  BY <1>1, <1>2, <1>5 DEF Ledger, Books, Backed
<1>7. v = [ud EXCEPT !.subs = @ \ T, !.native = @ \ T, !.count = count, !.entry = new, !.backed = @ \ T]
  BY <1>1
<1> HIDE DEF F, topic, token, T, new, v, count
<1>8. /\ v \in Ledger
      /\ v.subs = ud.subs \ T /\ v.native = ud.native \ T /\ v.count = count /\ v.entry = new
      /\ v.backed = ud.backed \ T /\ v.socket = ud.socket /\ v.total = ud.total
      /\ v.stale = ud.stale /\ v.parked = ud.parked
  <2>1. ud.subs \ T \in SUBSET Topics /\ ud.native \ T \in SUBSET Topics /\ ud.backed \ T \in SUBSET Topics
    BY <1>2 DEF Ledger
  <2> QED BY <1>2, <1>4, <1>6, <1>7, <2>1 DEF Ledger
<1>9. Counted(v, F, topic)
  <2>1. Places(v) = Places(ud)
    <3>1. \A s \in Topics : v.entry[s].inflight = ud.entry[s].inflight
      BY <1>3, <1>8
    <3> QED BY <3>1 DEF Places
  <2> QED BY <2>1, <1>2, <1>3, <1>8 DEF Books, Counted
<1>10. Dated(v, F, topic, token)
  <2>1. \A id \in F : topic[id] \in Topics
    BY <1>2 DEF Books, Counted
  <2>2. \A id \in F : v.entry[topic[id]].epoch = ud.entry[topic[id]].epoch
    BY <2>1, <1>3, <1>8
  <2> QED BY <2>2, <1>2, <1>8 DEF Books, Dated
<1>11. Backed(v)
  <2>1. \A s \in v.backed : v.entry[s].inflight > 0 => v.entry[s].granted
    <3> SUFFICES ASSUME NEW s \in ud.backed \ T, v.entry[s].inflight > 0 PROVE v.entry[s].granted
      BY <1>8
    <3>1. s \in Topics
      BY <1>2 DEF Ledger
    <3>2. v.entry[s].inflight = ud.entry[s].inflight /\ (ud.entry[s].granted => v.entry[s].granted)
      BY <3>1, <1>3, <1>8
    <3> QED BY <3>2, <1>2 DEF Books, Backed
  <2>2. \A s \in Topics : v.entry[s].granted => s \in v.backed
    <3> SUFFICES ASSUME NEW s \in Topics, v.entry[s].granted PROVE s \in ud.backed \ T
      BY <1>8
    <3>1. ud.entry[s].granted /\ s \notin T
      BY <1>3, <1>8
    <3> QED BY <3>1, <1>1, <1>2 DEF Books, Backed
  <2>3. v.native = v.subs /\ v.backed \subseteq v.subs
    BY <1>1, <1>2, <1>8 DEF Books, Backed
  <2> QED BY <1>1, <1>6, <1>8, <2>1, <2>2, <2>3 DEF Backed
<1>12. NoOrphan(v)
  BY <1>1, <1>2, <1>8 DEF NoOrphan
<1>13. \A s \in Topics : v.entry[s].epoch <= MaxEpoch
  BY <1>2, <1>3, <1>8
<1>14. Books(ud', Flying(call), TopicOf(call), TokenOf(call)) /\ NoOrphan(ud')
       /\ \A s \in Topics : ud'.entry[s].epoch <= MaxEpoch
  BY <1>8, <1>9, <1>10, <1>11, <1>12, <1>13 DEF Books, v, F, topic, token
<1>15. armed' \in BOOLEAN
  BY <1>1 DEF SubscriptionInv
<1> QED BY <1>1, <1>14, <1>15, QuietStep

\* authorizeWireSubscribe() latches: from then on the wire needs a hook's word.
LEMMA ArmStep ==
  ASSUME SubscriptionInv, Arm
  PROVE  GoodStep
<1>1. ud' = ud /\ call' = call /\ acks' = {} /\ armed' \in BOOLEAN
  BY DEF Arm
<1>2. Books(ud', Flying(call), TopicOf(call), TokenOf(call)) /\ NoOrphan(ud')
      /\ \A t \in Topics : ud'.entry[t].epoch <= MaxEpoch
  BY <1>1 DEF SubscriptionInv
<1> QED BY <1>1, <1>2, QuietStep

\* The socket closes, and its close handler settles the accountant.
LEMMA ClosingStep ==
  ASSUME SubscriptionInv, Disconnect \/ CloseConnection
  PROVE  GoodStep
<1> DEFINE F == Flying(call)
           topic == TopicOf(call)
           token == TokenOf(call)
           v == ud'
<1>1. Books(ud, F, topic, token) /\ ud \in Ledger /\ \A t \in Topics : ud.entry[t].epoch <= MaxEpoch
  BY DEF SubscriptionInv, Books
<1>2. call' = call /\ acks' = {} /\ armed' \in BOOLEAN
  BY DEF Disconnect, CloseConnection, SubscriptionInv
<1> HIDE DEF F, topic, token
<1>3. /\ v \in Ledger /\ v.subs = ud.subs /\ v.backed = ud.backed /\ v.entry = ud.entry
      /\ v.total = ud.total /\ v.stale = ud.stale /\ v.parked = ud.parked
      /\ v.socket # "open"
      /\ v.count = IF v.socket = "closed" THEN 0 ELSE Cardinality(v.subs)
  <2>1. CASE Disconnect
    <3>1. ud.socket = "open" /\ v = [ud EXCEPT !.socket = "closing"]
      BY <2>1 DEF Disconnect
    <3> HIDE DEF v
    <3> QED BY <3>1, <1>1 DEF Ledger, Books, Backed
  <2>2. CASE CloseConnection
    <3> DEFINE count == ud.count - Cardinality(ud.subs)
    <3>1. ud.socket = "closing" /\ v = [ud EXCEPT !.socket = "closed", !.count = count, !.native = {}]
      BY <2>2 DEF CloseConnection
    <3>2. count = 0
      <4>1. ud.count = Cardinality(ud.subs) /\ ud.count \in Int
        BY <1>1, <3>1 DEF Ledger, Books, Backed
      <4> QED BY <4>1
    <3> HIDE DEF v, count
    <3>3. v = [ud EXCEPT !.socket = "closed", !.count = 0, !.native = {}]
      BY <3>1, <3>2
    <3>4. {} \in SUBSET Topics /\ 0 \in Int
      OBVIOUS
    <3>5. /\ v \in Ledger /\ v.subs = ud.subs /\ v.backed = ud.backed /\ v.entry = ud.entry
          /\ v.total = ud.total /\ v.stale = ud.stale /\ v.parked = ud.parked
          /\ v.socket = "closed" /\ v.count = 0
      BY <3>3, <3>4, <1>1 DEF Ledger
    <3> QED BY <3>5
  <2> QED BY <2>1, <2>2
<1> HIDE DEF v
<1>4. Counted(v, F, topic) /\ Dated(v, F, topic, token)
  BY <1>1, <1>3 DEF Books, Counted, Dated, Places
<1>5. Backed(v) /\ NoOrphan(v)
  BY <1>1, <1>3 DEF Books, Backed, NoOrphan
<1>6. Books(ud', Flying(call), TopicOf(call), TokenOf(call)) /\ NoOrphan(ud')
      /\ \A t \in Topics : ud'.entry[t].epoch <= MaxEpoch
  BY <1>1, <1>3, <1>4, <1>5 DEF Books, v, F, topic, token
<1> QED BY <1>2, <1>6, QuietStep

\* A step that changes nothing.
LEMMA StutterStep ==
  ASSUME SubscriptionInv, UNCHANGED vars
  PROVE  SubscriptionInv' /\ LandingsHold /\ HistoryHolds
<1>1. ud' = ud /\ armed' = armed /\ call' = call /\ acks' = acks
  BY DEF vars
<1>2. SubscriptionInv'
  BY <1>1 DEF SubscriptionInv, CallInv, Books, Counted, Dated, Backed, Places, NoOrphan,
              Flying, TopicOf, TokenOf
<1>3. LandingsHold /\ HistoryHolds
  BY <1>1 DEF LandingsHold, HistoryHolds, Landed
<1> QED BY <1>2, <1>3

\* Every step keeps the invariant.
LEMMA NextStep ==
  ASSUME SubscriptionInv, Next
  PROVE  GoodStep
BY WireSubscribeStep, WireBatchStep, SingleCallStep, HookStep, ResumeStep, PlatformUnsubscribeStep,
   WireUnsubscribeStep, PluginJoinStep, PluginLeaveStep, ReleaseStep, ArmStep, ClosingStep DEF Next

-----------------------------------------------------------------------------
(* The theorems.                                                            *)

\* The invariant holds at first.
LEMMA InitHolds ==
  Init => SubscriptionInv
<1> SUFFICES ASSUME Init PROVE SubscriptionInv
  OBVIOUS
<1> USE SubscriptionAssumption
<1>1. /\ ud.subs = {} /\ ud.native = {} /\ ud.count = 0 /\ ud.entry = [t \in Topics |-> NoEntry]
      /\ ud.total = 0 /\ ud.socket = "open" /\ ud.backed = {} /\ ud.stale = {}
      /\ ud.parked = [t \in Topics |-> {}]
      /\ armed = FALSE /\ acks = {} /\ call = [a \in Attempts |-> Idle]
  BY DEF Init
<1>2. ud \in Ledger
  <2>1. [t \in Topics |-> NoEntry] \in [Topics -> [epoch : Nat, inflight : 0..MaxPending, granted : BOOLEAN]]
    BY DEF NoEntry
  <2>2. [t \in Topics |-> {}] \in [Topics -> SUBSET Ids]
    OBVIOUS
  <2>3. {} \in SUBSET Topics /\ {} \in SUBSET Ids /\ 0 \in Int /\ 0 \in Nat
    OBVIOUS
  <2> QED BY <2>1, <2>2, <2>3 DEF Init, Ledger
<1>3. Flying(call) = {}
  <2> SUFFICES ASSUME NEW id \in Ids PROVE id[2] \notin DOMAIN call[id[1]].items
    BY DEF Flying
  <2>1. id[1] \in Attempts
    BY DEF Ids
  <2>2. call[id[1]].items = <<>> /\ DOMAIN <<>> = {}
    BY <1>1, <2>1 DEF Idle
  <2> QED BY <2>2
<1>4. CallInv
  <2>1. Idle \in [stage : {"idle", "hook", "resume"}, lane : {"none", "wire", "batch", "platform", "observer"},
                  items : Seq(Item)]
    BY DEF Idle
  <2>2. Idle.items = <<>> /\ Len(<<>>) = 0
    BY DEF Idle
  <2>3. \A a \in Attempts : call[a] = Idle
    BY <1>1
  <2> QED BY <1>1, <2>1, <2>2, <2>3 DEF CallInv
<1>5. \A t \in Topics : ud.entry[t] = NoEntry /\ ud.parked[t] = {}
  BY <1>1
<1>6. Counted(ud, Flying(call), TopicOf(call))
  <2>1. \A t \in Topics : ud.entry[t].inflight = 0
    BY <1>5 DEF NoEntry
  <2>2. Places(ud) = {}
    <3> SUFFICES ASSUME NEW p \in Topics \X (1..MaxPending), p[2] <= ud.entry[p[1]].inflight PROVE FALSE
      BY DEF Places
    <3>1. p[1] \in Topics /\ p[2] \in 1..MaxPending
      OBVIOUS
    <3>2. p[2] <= 0
      BY <2>1, <3>1
    <3> QED BY <3>1, <3>2
  <2>3. IsFiniteSet({}) /\ Cardinality({}) = 0
    BY FS_EmptySet
  <2> QED BY <1>1, <1>3, <1>5, <2>1, <2>2, <2>3 DEF Counted
<1>7. Dated(ud, Flying(call), TopicOf(call), TokenOf(call))
  BY <1>1, <1>3 DEF Dated
<1>8. Backed(ud) /\ NoOrphan(ud)
  <2>1. \A t \in Topics : ud.entry[t].granted = FALSE
    BY <1>5 DEF NoEntry
  <2>2. Cardinality({}) = 0
    BY FS_EmptySet
  <2> QED BY <1>1, <2>1, <2>2 DEF Backed, NoOrphan
<1>9. \A t \in Topics : ud.entry[t].epoch <= MaxEpoch
  BY <1>5 DEF NoEntry
<1> QED BY <1>1, <1>2, <1>4, <1>6, <1>7, <1>8, <1>9 DEF SubscriptionInv, Books

\* While the socket is open the total is the number of items in flight.
LEMMA TotalIsFlight ==
  ASSUME NEW u, NEW F \in SUBSET Ids, NEW topic, NEW token, Books(u, F, topic, token), u.socket = "open"
  PROVE  u.total = Cardinality(UNION {u.parked[t] : t \in Topics})
<1> DEFINE P(t) == u.parked[t]
           k(t) == u.entry[t].inflight
           U == UNION {u.parked[t] : t \in Topics}
<1>1. \A t \in Topics : /\ u.parked[t] = {id \in F : topic[id] = t}
                        /\ IsFiniteSet(u.parked[t]) /\ Cardinality(u.parked[t]) = k(t)
                        /\ k(t) \in 0..MaxPending
  BY DEF Books, Counted, Ledger
<1>2. \A t \in Topics : \E f : f \in Bijection(1..k(t), u.parked[t])
  <2> SUFFICES ASSUME NEW t \in Topics PROVE \E f : f \in Bijection(1..k(t), u.parked[t])
    OBVIOUS
  <2> DEFINE S == u.parked[t]
  <2>1. IsFiniteSet(S) /\ Cardinality(S) = k(t)
    BY <1>1
  <2> HIDE DEF S, k
  <2>2. \E n \in Nat : ExistsBijection(1..n, S)
    BY <2>1, FS_NatBijection
  <2>3. PICK n \in Nat : ExistsBijection(1..n, S)
    BY <2>2
  <2>4. Cardinality(S) = n
    BY <2>3, FS_CountingElements
  <2> QED BY <2>1, <2>3, <2>4 DEF ExistsBijection, S
<1> DEFINE pick(t) == CHOOSE f : f \in Bijection(1..k(t), u.parked[t])
           g == [p \in Places(u) |-> pick(p[1])[p[2]]]
<1>3. \A t \in Topics : pick(t) \in Bijection(1..k(t), u.parked[t])
  BY <1>2
<1> HIDE DEF pick
<1>4. \A p \in Places(u) : p[1] \in Topics /\ p[2] \in 1..k(p[1]) /\ p = <<p[1], p[2]>>
  <2> SUFFICES ASSUME NEW p \in Topics \X (1..MaxPending), p[2] <= u.entry[p[1]].inflight
               PROVE  p[1] \in Topics /\ p[2] \in 1..k(p[1]) /\ p = <<p[1], p[2]>>
    BY DEF Places
  <2>1. p[1] \in Topics /\ p[2] \in 1..MaxPending /\ p = <<p[1], p[2]>>
    OBVIOUS
  <2>2. k(p[1]) \in 0..MaxPending
    BY <1>1, <2>1
  <2> QED BY <2>1, <2>2, SubscriptionAssumption
<1>5. ASSUME NEW t \in Topics
      PROVE  /\ \A i \in 1..k(t) : pick(t)[i] \in u.parked[t]
             /\ \A i, j \in 1..k(t) : pick(t)[i] = pick(t)[j] => i = j
             /\ \A x \in u.parked[t] : \E i \in 1..k(t) : pick(t)[i] = x
  <2>1. pick(t) \in Bijection(1..k(t), u.parked[t])
    BY <1>3
  <2> HIDE DEF k
  <2> QED BY <2>1 DEF Bijection, Injection, Surjection, IsInjective
<1> HIDE DEF k
<1>6. g \in Bijection(Places(u), U)
  <2>1. \A p \in Places(u) : g[p] \in u.parked[p[1]]
    BY <1>4, <1>5
  <2>2. g \in [Places(u) -> U]
    BY <2>1, <1>4
  <2>3. ASSUME NEW p \in Places(u), NEW q \in Places(u), g[p] = g[q] PROVE p = q
    <3>1. g[p] \in u.parked[p[1]] /\ g[q] \in u.parked[q[1]] /\ p[1] \in Topics /\ q[1] \in Topics
      BY <2>1, <1>4
    <3>2. p[1] = q[1]
      BY <2>3, <3>1, <1>1
    <3>3. g[p] = pick(p[1])[p[2]] /\ g[q] = pick(q[1])[q[2]]
      OBVIOUS
    <3>4. p[2] = q[2]
      <4>1. p[2] \in 1..k(p[1]) /\ q[2] \in 1..k(p[1]) /\ pick(p[1])[p[2]] = pick(p[1])[q[2]]
        BY <2>3, <3>2, <3>3, <1>4
      <4> QED BY <4>1, <3>1, <1>5
    <3> QED BY <3>2, <3>4, <1>4
  <2>4. ASSUME NEW x \in U PROVE \E p \in Places(u) : g[p] = x
    <3>1. PICK t \in Topics : x \in u.parked[t]
      OBVIOUS
    <3>2. PICK i \in 1..k(t) : pick(t)[i] = x
      BY <3>1, <1>5
    <3>3. i \in 1..MaxPending /\ i <= u.entry[t].inflight
      <4>1. k(t) \in 0..MaxPending
        BY <1>1
      <4>2. k(t) = u.entry[t].inflight
        BY DEF k
      <4> QED BY <4>1, <4>2, SubscriptionAssumption
    <3>4. <<t, i>> \in Places(u) /\ <<t, i>>[1] = t /\ <<t, i>>[2] = i
      BY <3>3 DEF Places
    <3>5. g[<<t, i>>] = pick(<<t, i>>[1])[<<t, i>>[2]]
      BY <3>4
    <3> QED BY <3>2, <3>4, <3>5
  <2> HIDE DEF g, U
  <2> QED BY <2>2, <2>3, <2>4 DEF Bijection, Injection, Surjection, IsInjective
<1>7. Cardinality(U) = Cardinality(Places(u))
  <2> HIDE DEF g, U
  <2> QED BY <1>6, PlacesFinite, FS_Bijection DEF ExistsBijection
<1> QED BY <1>7 DEF Books, Counted

\* The inductive invariant is stronger than the books the run checks.
LEMMA InvIsExact ==
  SubscriptionInv => AccountsExact
<1> SUFFICES ASSUME SubscriptionInv PROVE AccountsExact
  OBVIOUS
<1> DEFINE F == Flying(call)
           topic == TopicOf(call)
           token == TokenOf(call)
<1>1. CallInv /\ Books(ud, F, topic, token) /\ NoOrphan(ud) /\ ud \in Ledger /\ F \in SUBSET Ids
      /\ \A t \in Topics : ud.entry[t].epoch <= MaxEpoch
  BY DEF SubscriptionInv, Books, Flying
<1> HIDE DEF F, topic, token
<1>2. ud \in UserData
  <2>1. \A t \in Topics : ud.entry[t] \in [epoch : 0..MaxEpoch, inflight : 0..MaxPending, granted : BOOLEAN]
    <3> SUFFICES ASSUME NEW t \in Topics
                 PROVE  ud.entry[t] \in [epoch : 0..MaxEpoch, inflight : 0..MaxPending, granted : BOOLEAN]
      OBVIOUS
    <3> DEFINE e == ud.entry[t]
    <3>1. e \in [epoch : Nat, inflight : 0..MaxPending, granted : BOOLEAN] /\ e.epoch <= MaxEpoch
      BY <1>1 DEF Ledger
    <3> HIDE DEF e
    <3>2. e.epoch \in 0..MaxEpoch
      BY <3>1, SubscriptionAssumption
    <3> QED BY <3>1, <3>2 DEF e
  <2>2. ud.entry \in [Topics -> [epoch : 0..MaxEpoch, inflight : 0..MaxPending, granted : BOOLEAN]]
    BY <2>1, <1>1 DEF Ledger
  <2>3. ud.total \in 0..MaxPending
    <3>1. ud.total \in Nat /\ ud.total <= MaxPending
      BY <1>1 DEF Ledger, Books, Counted
    <3> QED BY <3>1, SubscriptionAssumption
  <2> QED BY <2>2, <2>3, <1>1 DEF Ledger, UserData, Ids
<1>3. TypeOK
  <2>1. \A a \in Attempts : \A i \in DOMAIN call[a].items : call[a].items[i] \in Item
    <3> SUFFICES ASSUME NEW a \in Attempts, NEW i \in DOMAIN call[a].items
                 PROVE  call[a].items[i] \in Item
      OBVIOUS
    <3>1. call[a].items \in Seq(Item)
      BY <1>1 DEF CallInv
    <3> QED BY <3>1
  <2>2. \A a \in Attempts : /\ call[a].stage \in {"idle", "hook", "resume"}
                            /\ call[a].lane \in {"none", "wire", "batch", "platform", "observer"}
    BY <1>1 DEF CallInv
  <2> QED BY <1>2, <2>1, <2>2 DEF TypeOK, SubscriptionInv
<1>4. NoOrphanMembership
  BY <1>1 DEF NoOrphan, NoOrphanMembership
<1>5. ud.socket = "open" =>
        /\ ud.native = ud.subs
        /\ \A t \in Topics : ud.entry[t].inflight = Cardinality(ud.parked[t])
        /\ ud.total = Cardinality(UNION {ud.parked[t] : t \in Topics})
  <2>1. ud.socket = "open" => ud.total = Cardinality(UNION {ud.parked[t] : t \in Topics})
    BY <1>1, TotalIsFlight
  <2>2. ud.socket = "open" => ud.native = ud.subs
    BY <1>1 DEF Books, Backed
  <2>3. ud.socket = "open" => \A t \in Topics : ud.entry[t].inflight = Cardinality(ud.parked[t])
    BY <1>1 DEF Books, Counted
  <2> QED BY <2>1, <2>2, <2>3
<1>6. ud.count = IF ud.socket = "closed" THEN 0 ELSE Cardinality(ud.subs)
  BY <1>1 DEF Books, Backed
<1> QED BY <1>3, <1>4, <1>5, <1>6 DEF AccountsExact

\* It holds at all times.
LEMMA InvHolds ==
  Spec => []SubscriptionInv
<1>1. SubscriptionInv /\ [Next]_vars => SubscriptionInv'
  BY NextStep, StutterStep DEF GoodStep
<1> QED BY <1>1, InitHolds, PTL DEF Spec

\* However subscribes, revocations, joins, evictions, rollbacks and the close
\* interleave, the native membership, the logical one and the accountant's counter
\* agree, the pending record says what is in flight, and no membership stays behind
\* without authority once the last attempt has left.
THEOREM BooksAreExact ==
  Spec => []AccountsExact
<1> QED BY InvHolds, InvIsExact, PTL

\* Every step, of every frame of any length, tells the subscriber "subscribed" only
\* of a membership that stands with authority, or of a tap that the same frame took
\* away with the topic it hangs on.
THEOREM AcknowledgedIsTrue ==
  Spec => AcksAreTruthful
<1>1. SubscriptionInv /\ Next => AcksHold
  BY NextStep DEF GoodStep
<1>2. SubscriptionInv /\ [Next]_vars
        => [\A t \in acks' : \/ t \in ud'.subs \cap ud'.backed
                             \/ \E b \in ud.subs \ ud'.subs : t \in Derived[b]]_vars
  BY <1>1 DEF AcksHold
<1> QED BY <1>2, InvHolds, PTL DEF Spec, AcksAreTruthful

\* What lands acts on what is true when it lands: it installs nothing that was revoked
\* or fenced while the hook was awaited, and evicts nothing that another authority
\* stands behind.
THEOREM LandingsAreTimely ==
  Spec => LandingsActOnTheMoment
<1>1. SubscriptionInv /\ [Next]_vars => LandingsHold
  BY NextStep, StutterStep DEF GoodStep
<1>2. SubscriptionInv /\ [Next]_vars
        => [\A a \in Attempts : Landed(a) =>
             /\ \A t \in ud'.subs \ ud.subs : Entitled(a, t)
             /\ \A t \in ud.backed \ ud'.subs :
                    \E b \in ud.subs \ ud'.subs : t \in Derived[b]]_vars
  BY <1>1 DEF LandingsHold
<1> QED BY <1>2, InvHolds, PTL DEF Spec, LandingsActOnTheMoment

\* The resume hook is handed the history of a topic only for an attempt that may still
\* subscribe to it, or for a member in good standing.
THEOREM HistoryGoesToTheEntitled ==
  Spec => HistoryIsEntitled
<1>1. SubscriptionInv /\ [Next]_vars => HistoryHolds
  BY NextStep, StutterStep DEF GoodStep
<1>2. SubscriptionInv /\ [Next]_vars
        => [\A a \in Attempts :
              ud.socket = "open" /\ call[a].stage = "hook" /\ call'[a].stage = "resume" =>
                \A i \in DOMAIN call'[a].items :
                  LET it == call'[a].items[i] IN
                  it.served =>
                    \/ it.topic \in ud.backed
                    \/ /\ it.id \notin ud.stale
                       /\ IF it.topic \in PluginOwned THEN it.topic \in ud.subs ELSE ~armed]_vars
  BY <1>1 DEF HistoryHolds
<1> QED BY <1>2, InvHolds, PTL DEF Spec, HistoryIsEntitled
=============================================================================
