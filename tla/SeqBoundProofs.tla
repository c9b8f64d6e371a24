---------------------------- MODULE SeqBoundProofs ----------------------------
(***************************************************************************)
(* Proofs about the bounded registry of sequence numbers: a number is not  *)
(* issued twice, whatever was evicted, collided or absorbed in between,    *)
(* and what is evicted may be.  And about the clients that resume from     *)
(* such a number (ResumeCapture): none is left with a gap it cannot see.   *)
(* And about the stream a worker audits (RelayStream): what it reports     *)
(* lost was lost.                                                          *)
(***************************************************************************)
EXTENDS SeqBound, ResumedClients, RelayStream, SequenceLemmas

Res == INSTANCE ResumeCapture

Hashes == {Hash[t] : t \in Topics}

\* The types of what a registry holds.
Registry ==
  [seqKeys : Seq(Topics), seq : [Topics -> Numbers],
   seenKeys : Seq(Topics), max : [Topics -> Numbers],
   floors : [Hashes -> Numbers], highWater : Numbers,
   skipSeq : 0..Backoff, skipSeen : 0..Backoff]

\* A map has each of its keys once.
Registered(r) == r \in Registry /\ IsInjective(r.seqKeys) /\ IsInjective(r.seenKeys)

\* The topics with a counter, and those with an observed maximum.
Counted(r)  == ToSet(r.seqKeys)
Observed(r) == ToSet(r.seenKeys)

\* The number below the one the counter issues next.
Base(r, t) == IF t \in Counted(r) THEN r.seq[t] ELSE FloorOf(r, t)

\* The numbers are integers from zero on.
LEMMA SomeNumber == 0 \in Numbers /\ \A n \in Numbers : n \in Int /\ n >= 0
BY SeqBoundAssumption DEF Numbers, SeqBoundAssumption

\* The largest of some numbers is one of them.
LEMMA MaxIs ==
  ASSUME NEW S \in SUBSET Numbers, S # {}
  PROVE  Max(S) \in S /\ \A x \in S : Max(S) >= x
<1> DEFINE B == {MaxSeq - x : x \in S}
<1>1. B \in SUBSET Nat /\ B # {}
  <2>1. \A x \in S : MaxSeq - x \in Nat
    BY SeqBoundAssumption DEF Numbers
  <2> QED BY <2>1
<1>2. PICK n \in B : \A m \in B : n <= m
  <2> HIDE DEF B
  <2> QED BY <1>1, LeastNumber
<1>3. PICK x \in S : n = MaxSeq - x
  BY <1>2
<1>4. \A y \in S : x >= y
  <2> TAKE y \in S
  <2>1. MaxSeq - x <= MaxSeq - y
    BY <1>2, <1>3
  <2> QED BY <2>1, SeqBoundAssumption DEF Numbers
<1> QED BY <1>4 DEF Max

\* The least of some numbers is one of them.
LEMMA MinIs ==
  ASSUME NEW S \in SUBSET Nat, S # {}
  PROVE  Min(S) \in S /\ \A x \in S : Min(S) <= x
<1>1. PICK n \in S : \A m \in S : n <= m
  BY LeastNumber
<1> QED BY <1>1 DEF Min

\* A topic is among the keys when it is in their set.
LEMMA ContainsIs ==
  ASSUME NEW keys \in Seq(Topics), NEW t
  PROVE  Contains(keys, t) <=> t \in ToSet(keys)
BY DEF Contains, ToSet

\* The floor of a topic is the larger of its own and the high-water mark.
LEMMA FloorIs ==
  ASSUME NEW r \in Registry, NEW t \in Topics
  PROVE  /\ FloorOf(r, t) \in Numbers
         /\ FloorOf(r, t) >= r.floors[Hash[t]] /\ FloorOf(r, t) >= r.highWater
         /\ FloorOf(r, t) \in {r.floors[Hash[t]], r.highWater}
<1>1. r.floors[Hash[t]] \in Numbers /\ r.highWater \in Numbers
  BY DEF Registry, Hashes
<1> QED BY <1>1, MaxIs DEF FloorOf

\* The next number of a topic, without the choice of a maximum.
LEMMA NextIs ==
  ASSUME NEW r \in Registry, NEW t \in Topics
  PROVE  NextNumber(r, t) = Base(r, t) + 1 /\ Base(r, t) \in Numbers
<1>1. r.seqKeys \in Seq(Topics) /\ r.seq \in [Topics -> Numbers]
  BY DEF Registry
<1>2. Contains(r.seqKeys, t) <=> t \in Counted(r)
  BY <1>1, ContainsIs DEF Counted
<1>3. Base(r, t) \in Numbers
  BY <1>1, FloorIs DEF Base
<1> QED BY <1>2, <1>3, SomeNumber DEF NextNumber, Base

-----------------------------------------------------------------------------

\* Only the floors differ, and they have risen: t's to last at least.
FloorsRose(r, q, t, last) ==
  /\ q = [r EXCEPT !.floors = q.floors, !.highWater = q.highWater]
  /\ q \in Registry
  /\ \A x \in Topics : FloorOf(q, x) >= FloorOf(r, x)
  /\ FloorOf(q, t) >= last

\* A floor is recorded without lowering another, the absorbed ones included.
LEMMA FloorsOnlyRise ==
  ASSUME NEW r \in Registry, NEW t \in Topics, NEW last \in Numbers
  PROVE  FloorsRose(r, RecordFloor(r, t, last), t, last)
<1> DEFINE old    == r.floors[Hash[t]]
           floors == [r.floors EXCEPT ![Hash[t]] = Max({old, last})]
           held   == {h \in DOMAIN floors : floors[h] > 0}
           values == {r.highWater} \cup {floors[h] : h \in held}
           high   == Max(values)
           some   == [r EXCEPT !.floors = floors]
           none   == [r EXCEPT !.floors = [h \in DOMAIN floors |-> 0], !.highWater = high]
           q      == RecordFloor(r, t, last)
<1>1. /\ r.floors \in [Hashes -> Numbers] /\ r.highWater \in Numbers
      /\ Hash[t] \in Hashes /\ old \in Numbers
  BY DEF Registry, Hashes
<1>2. Max({old, last}) \in Numbers /\ Max({old, last}) >= old /\ Max({old, last}) >= last
  BY <1>1, MaxIs
<1>3. /\ floors \in [Hashes -> Numbers]
      /\ \A h \in Hashes : floors[h] >= r.floors[h]
      /\ floors[Hash[t]] >= last
  <2>1. floors \in [Hashes -> Numbers]
    BY <1>1, <1>2
  <2>2. \A h \in Hashes : floors[h] = IF h = Hash[t] THEN Max({old, last}) ELSE r.floors[h]
    BY <1>1
  <2>3. \A h \in Hashes : r.floors[h] \in Numbers
    BY <1>1
  <2> HIDE DEF floors
  <2> QED BY <2>1, <2>2, <2>3, <1>1, <1>2, SomeNumber
<1>4. q = some \/ q = none
  BY DEF RecordFloor
<1> HIDE DEF q
<1>5. ASSUME q = some PROVE FloorsRose(r, q, t, last)
  <2>1. q.floors = floors /\ q.highWater = r.highWater /\ q \in Registry
    <3> HIDE DEF floors
    <3> QED BY <1>5, <1>3 DEF Registry
  <2>2. q = [r EXCEPT !.floors = q.floors, !.highWater = q.highWater]
    <3> HIDE DEF floors
    <3> QED BY <1>5, <2>1 DEF Registry
  <2>3. ASSUME NEW x \in Topics
        PROVE  FloorOf(q, x) >= FloorOf(r, x) /\ FloorOf(q, x) >= floors[Hash[x]]
    <3>1. Hash[x] \in Hashes BY DEF Hashes
    <3>2. /\ FloorOf(q, x) \in Numbers /\ FloorOf(r, x) \in Numbers
          /\ FloorOf(q, x) >= floors[Hash[x]] /\ FloorOf(q, x) >= r.highWater
          /\ FloorOf(r, x) \in {r.floors[Hash[x]], r.highWater}
      <4> HIDE DEF floors
      <4> QED BY <2>1, FloorIs
    <3>3. floors[Hash[x]] \in Numbers /\ floors[Hash[x]] >= r.floors[Hash[x]]
          /\ r.floors[Hash[x]] \in Numbers
      BY <3>1, <1>3, <1>1
    <3> HIDE DEF floors
    <3> QED BY <3>2, <3>3, <1>1, SomeNumber
  <2>4. FloorOf(q, t) >= last
    <3>1. FloorOf(q, t) >= floors[Hash[t]] /\ FloorOf(q, t) \in Numbers
      BY <2>3, <2>1, FloorIs
    <3>2. floors[Hash[t]] \in Numbers
      BY <1>3, <1>1
    <3> HIDE DEF floors
    <3> QED BY <3>1, <3>2, <1>3, SomeNumber
  <2> HIDE DEF floors
  <2> QED BY <2>1, <2>2, <2>3, <2>4 DEF FloorsRose
<1>6. ASSUME q = none PROVE FloorsRose(r, q, t, last)
  <2>1. values \subseteq Numbers /\ r.highWater \in values
    BY <1>3, <1>1
  <2>2. high \in Numbers /\ (\A x \in values : high >= x)
    <3> HIDE DEF values
    <3> QED BY <2>1, MaxIs
  <2>3. /\ q.floors = [h \in DOMAIN floors |-> 0] /\ q.highWater = high /\ q \in Registry
    <3>1. [h \in DOMAIN floors |-> 0] \in [Hashes -> Numbers]
      BY <1>3, SomeNumber
    <3> HIDE DEF floors, high
    <3> QED BY <1>6, <3>1, <2>2 DEF Registry
  <2>4. q = [r EXCEPT !.floors = q.floors, !.highWater = q.highWater]
    <3> HIDE DEF floors, high
    <3> QED BY <1>6, <2>3 DEF Registry
  <2>5. ASSUME NEW h \in Hashes PROVE high >= floors[h]
    <3>1. floors[h] \in Numbers BY <1>3
    <3>2. CASE floors[h] > 0
      <4>1. floors[h] \in values BY <3>2, <1>3
      <4> QED BY <4>1, <2>2
    <3>3. CASE ~(floors[h] > 0)
      <4> HIDE DEF floors, high
      <4> QED BY <3>1, <3>3, <2>2, SomeNumber
    <3> QED BY <3>2, <3>3
  <2>6. ASSUME NEW x \in Topics
        PROVE  FloorOf(q, x) >= FloorOf(r, x) /\ FloorOf(q, x) >= floors[Hash[x]]
    <3>1. Hash[x] \in Hashes BY DEF Hashes
    <3>2. /\ FloorOf(q, x) \in Numbers /\ FloorOf(r, x) \in Numbers
          /\ FloorOf(q, x) >= high
          /\ FloorOf(r, x) \in {r.floors[Hash[x]], r.highWater}
      <4> HIDE DEF floors, high
      <4> QED BY <2>3, FloorIs
    <3>3. floors[Hash[x]] \in Numbers /\ floors[Hash[x]] >= r.floors[Hash[x]]
          /\ r.floors[Hash[x]] \in Numbers /\ high >= floors[Hash[x]] /\ high >= r.highWater
      BY <3>1, <1>3, <1>1, <2>5, <2>1, <2>2
    <3> HIDE DEF floors, high
    <3> QED BY <3>2, <3>3, <2>2, <1>1, SomeNumber
  <2>7. FloorOf(q, t) >= last
    <3>1. FloorOf(q, t) >= floors[Hash[t]] /\ FloorOf(q, t) \in Numbers
      BY <2>6, <2>3, FloorIs
    <3>2. floors[Hash[t]] \in Numbers
      BY <1>3, <1>1
    <3> HIDE DEF floors
    <3> QED BY <3>1, <3>2, <1>3, SomeNumber
  <2> HIDE DEF floors, high
  <2> QED BY <2>3, <2>4, <2>6, <2>7 DEF FloorsRose
<1>7. FloorsRose(r, q, t, last)
  BY <1>4, <1>5, <1>6
<1> QED BY <1>7 DEF q

-----------------------------------------------------------------------------

\* From r to q, v is gone from both maps (if v is a topic) and nothing else is.
Gone(r, q, v) ==
  /\ Registered(q)
  /\ \A x \in Topics : x \in Counted(q) <=> x \in Counted(r) /\ x # v
  /\ \A x \in Topics : x \in Observed(q) <=> x \in Observed(r) /\ x # v
  /\ \A x \in Topics : q.seq[x] = IF x = v THEN 0 ELSE r.seq[x]
  /\ \A x \in Topics : q.max[x] = IF x = v THEN 0 ELSE r.max[x]
  /\ \A x \in Topics : Base(q, x) >= Base(r, x)

\* The parts of a registry and their types.
LEMMA RegistryFields ==
  ASSUME NEW r \in Registry
  PROVE  /\ r.seqKeys \in Seq(Topics) /\ r.seenKeys \in Seq(Topics)
         /\ r.seq \in [Topics -> Numbers] /\ r.max \in [Topics -> Numbers]
         /\ r.floors \in [Hashes -> Numbers] /\ r.highWater \in Numbers
         /\ r.skipSeq \in 0..Backoff /\ r.skipSeen \in 0..Backoff
BY DEF Registry

\* A floor depends on the floors and the mark alone.
LEMMA SameFloors ==
  ASSUME NEW r, NEW q, q.floors = r.floors, q.highWater = r.highWater, NEW x
  PROVE  FloorOf(q, x) = FloorOf(r, x)
BY DEF FloorOf

\* What is evicted leaves its number behind as a floor.
LEMMA EvictIsClean ==
  ASSUME NEW r, Registered(r), NEW t \in Topics
  PROVE  Gone(r, Evict(r, t), t)
<1> DEFINE f == IF Contains(r.seqKeys, t) THEN RecordFloor(r, t, r.seq[t]) ELSE r
           q == Evict(r, t)
<1>0. r \in Registry /\ IsInjective(r.seqKeys) /\ IsInjective(r.seenKeys)
  BY DEF Registered
<1>1. /\ f \in Registry
      /\ f.seqKeys = r.seqKeys /\ f.seenKeys = r.seenKeys /\ f.seq = r.seq /\ f.max = r.max
      /\ \A x \in Topics : FloorOf(f, x) >= FloorOf(r, x)
      /\ t \in Counted(r) => FloorOf(f, t) >= r.seq[t]
  <2>1. Contains(r.seqKeys, t) <=> t \in Counted(r)
    BY <1>0, RegistryFields, ContainsIs DEF Counted
  <2>2. CASE t \in Counted(r)
    <3> DEFINE g == RecordFloor(r, t, r.seq[t])
    <3>1. r.seq[t] \in Numbers
      BY <1>0, RegistryFields
    <3>2. FloorsRose(r, g, t, r.seq[t])
      BY <1>0, <3>1, FloorsOnlyRise
    <3>3. f = g BY <2>1, <2>2
    <3> HIDE DEF f, g
    <3>4. /\ g \in Registry /\ \A x \in Topics : FloorOf(g, x) >= FloorOf(r, x)
          /\ FloorOf(g, t) >= r.seq[t]
          /\ g = [r EXCEPT !.floors = g.floors, !.highWater = g.highWater]
      BY <3>2 DEF FloorsRose
    <3>5. g.seqKeys = r.seqKeys /\ g.seenKeys = r.seenKeys /\ g.seq = r.seq /\ g.max = r.max
      BY <3>4, <1>0 DEF Registry
    <3> QED BY <3>3, <3>4, <3>5
  <2>3. CASE t \notin Counted(r)
    <3>1. f = r BY <2>1, <2>3
    <3>2. \A x \in Topics : FloorOf(r, x) \in Numbers
      BY <1>0, FloorIs
    <3> HIDE DEF f
    <3> QED BY <3>1, <3>2, <2>3, <1>0, SomeNumber
  <2> QED BY <2>2, <2>3
<1>2. q = [f EXCEPT !.seqKeys = Without(@, {t}), !.seq[t] = 0,
                    !.seenKeys = Without(@, {t}), !.max[t] = 0]
  BY DEF Evict
<1> HIDE DEF f, q
<1> DEFINE a == Without(f.seqKeys, {t})
           b == Without(f.seenKeys, {t})
           s == [f.seq EXCEPT ![t] = 0]
           m == [f.max EXCEPT ![t] = 0]
<1>3. /\ a \in Seq(Topics) /\ ToSet(a) = Counted(r) \ {t} /\ IsInjective(a)
      /\ b \in Seq(Topics) /\ ToSet(b) = Observed(r) \ {t} /\ IsInjective(b)
  BY <1>0, <1>1, RegistryFields, WithoutKeeps DEF Counted, Observed
<1>4. /\ s \in [Topics -> Numbers] /\ m \in [Topics -> Numbers]
      /\ \A x \in Topics : s[x] = IF x = t THEN 0 ELSE r.seq[x]
      /\ \A x \in Topics : m[x] = IF x = t THEN 0 ELSE r.max[x]
  <2>1. f.seq \in [Topics -> Numbers] /\ f.max \in [Topics -> Numbers]
    BY <1>1, RegistryFields
  <2>2. s \in [Topics -> Numbers] BY <2>1, SomeNumber
  <2>3. m \in [Topics -> Numbers] BY <2>1, SomeNumber
  <2> QED BY <2>1, <2>2, <2>3, <1>1
<1>5. /\ q.seqKeys = a /\ q.seenKeys = b /\ q.seq = s /\ q.max = m
      /\ q.floors = f.floors /\ q.highWater = f.highWater /\ q \in Registry
  <2> HIDE DEF a, b, s, m
  <2>1. q = [f EXCEPT !.seqKeys = a, !.seq = s, !.seenKeys = b, !.max = m]
    BY <1>2, <1>1 DEF a, b, s, m, Registry
  <2> QED BY <2>1, <1>1, <1>3, <1>4 DEF Registry
<1> HIDE DEF a, b, s, m
<1>6. Registered(q)
  BY <1>5, <1>3 DEF Registered
<1>7. Counted(q) = Counted(r) \ {t} /\ Observed(q) = Observed(r) \ {t}
  BY <1>5, <1>3 DEF Counted, Observed
<1>8. ASSUME NEW x \in Topics PROVE Base(q, x) >= Base(r, x)
  <2>1. FloorOf(q, x) = FloorOf(f, x)
    BY <1>5, SameFloors
  <2>2. /\ FloorOf(f, x) >= FloorOf(r, x) /\ Base(r, x) \in Numbers
        /\ FloorOf(f, x) \in Numbers /\ FloorOf(r, x) \in Numbers
    BY <1>0, <1>1, FloorIs, NextIs
  <2>3. CASE x = t
    BY <2>3, <2>1, <2>2, <1>1, <1>7 DEF Base
  <2>4. CASE x # t
    <3>1. x \in Counted(q) <=> x \in Counted(r)
      BY <2>4, <1>7
    <3>2. CASE x \in Counted(r)
      <4>1. Base(q, x) = r.seq[x] /\ Base(r, x) = r.seq[x]
        BY <3>1, <3>2, <2>4, <1>4, <1>5 DEF Base
      <4> QED BY <4>1, <2>2, SomeNumber
    <3>3. CASE x \notin Counted(r)
      <4>1. Base(q, x) = FloorOf(f, x) /\ Base(r, x) = FloorOf(r, x)
        BY <3>1, <3>3, <2>1 DEF Base
      <4> QED BY <4>1, <2>2
    <3> QED BY <3>2, <3>3
  <2> QED BY <2>3, <2>4
<1>9. /\ \A x \in Topics : q.seq[x] = IF x = t THEN 0 ELSE r.seq[x]
      /\ \A x \in Topics : q.max[x] = IF x = t THEN 0 ELSE r.max[x]
  BY <1>4, <1>5
<1>10. /\ \A x \in Topics : x \in Counted(q) <=> x \in Counted(r) /\ x # t
       /\ \A x \in Topics : x \in Observed(q) <=> x \in Observed(r) /\ x # t
  BY <1>7
<1>11. Gone(r, q, t)
  BY <1>6, <1>8, <1>9, <1>10 DEF Gone
<1> QED BY <1>11 DEF q

-----------------------------------------------------------------------------

\* One key after another: the two orders, back to back.
LEMMA BackToBack ==
  ASSUME NEW p \in Seq(Topics), NEW q \in Seq(Topics), IsInjective(p), IsInjective(q),
         ToSet(p) \cap ToSet(q) = {}
  PROVE  /\ p \o q \in Seq(Topics) /\ IsInjective(p \o q)
         /\ ToSet(p \o q) = ToSet(p) \cup ToSet(q)
<1> DEFINE s == p \o q
<1>1. /\ s \in Seq(Topics) /\ Len(s) = Len(p) + Len(q)
      /\ \A i \in 1..Len(p) : s[i] = p[i]
      /\ \A i \in 1..Len(q) : s[Len(p) + i] = q[i]
      /\ \A i \in 1..Len(s) : i \notin 1..Len(p) => i - Len(p) \in 1..Len(q) /\ s[i] = q[i - Len(p)]
  OBVIOUS
<1>2. Len(p) \in Nat /\ Len(q) \in Nat OBVIOUS
<1> HIDE DEF s
<1>3. /\ ToSet(s) = {s[i] : i \in 1..Len(s)}
      /\ ToSet(p) = {p[i] : i \in 1..Len(p)} /\ ToSet(q) = {q[i] : i \in 1..Len(q)}
  BY <1>1, ToSetIs
<1>4. ToSet(s) = ToSet(p) \cup ToSet(q)
  <2>1. ToSet(s) \subseteq ToSet(p) \cup ToSet(q)
    BY <1>1, <1>3
  <2>2. ASSUME NEW i \in 1..Len(p) PROVE p[i] \in ToSet(s)
    BY <1>1, <1>2, <1>3
  <2>3. ASSUME NEW i \in 1..Len(q) PROVE q[i] \in ToSet(s)
    <3>1. Len(p) + i \in 1..Len(s) BY <1>1, <1>2
    <3> QED BY <3>1, <1>1, <1>3
  <2> QED BY ZenonT(60), <2>1, <2>2, <2>3, <1>3
<1>5. ASSUME NEW i \in 1..Len(s), NEW j \in 1..Len(s), s[i] = s[j] PROVE i = j
  <2>1. \A m \in 1..Len(p), n \in 1..Len(q) : p[m] # q[n]
    BY <1>3
  <2>2. \A m, n \in 1..Len(p) : p[m] = p[n] => m = n
    BY DEF IsInjective
  <2>3. \A m, n \in 1..Len(q) : q[m] = q[n] => m = n
    BY DEF IsInjective
  <2>4. CASE i \in 1..Len(p) /\ j \in 1..Len(p)
    BY <2>4, <2>2, <1>1, <1>5
  <2>5. CASE i \notin 1..Len(p) /\ j \notin 1..Len(p)
    <3>1. i - Len(p) = j - Len(p)
      BY <2>5, <2>3, <1>1, <1>5
    <3> QED BY <3>1, <1>2
  <2>6. CASE i \in 1..Len(p) /\ j \notin 1..Len(p)
    BY <2>6, <2>1, <1>1, <1>5
  <2>7. CASE i \notin 1..Len(p) /\ j \in 1..Len(p)
    BY <2>7, <2>1, <1>1, <1>5
  <2> QED BY <2>4, <2>5, <2>6, <2>7
<1>6. s \in Seq(Topics) /\ IsInjective(s)
  BY <1>5, <1>1 DEF IsInjective
<1> QED BY <1>4, <1>6 DEF s

\* The front of a sequence of distinct keys.
LEMMA FrontOf ==
  ASSUME NEW s \in Seq(Topics), IsInjective(s), NEW n \in 0..Len(s)
  PROVE  LET w == SubSeq(s, 1, n)
         IN /\ w \in Seq(Topics) /\ IsInjective(w) /\ Len(w) = n
            /\ ToSet(w) \subseteq ToSet(s) /\ \A i \in 1..n : w[i] = s[i]
<1> DEFINE w == SubSeq(s, 1, n)
<1>1. w \in Seq(Topics) /\ Len(w) = n /\ \A i \in 1..n : w[i] = s[i]
  OBVIOUS
<1> HIDE DEF w
<1>2. ToSet(w) = {w[i] : i \in 1..n} /\ ToSet(s) = {s[i] : i \in 1..Len(s)}
  BY <1>1, ToSetIs
<1>3. ToSet(w) \subseteq ToSet(s)
  BY <1>1, <1>2
<1>4. IsInjective(w)
  BY <1>1 DEF IsInjective
<1> QED BY <1>1, <1>3, <1>4 DEF w

\* A pass keeps every key, and its victim is one of them that may go.
Passed(keys, p, admitted) ==
  /\ p.keys \in Seq(Topics) /\ IsInjective(p.keys) /\ ToSet(p.keys) = ToSet(keys)
  /\ p.victim # None => p.victim \in ToSet(keys) \ {admitted} /\ Evictable(p.victim)

\* One pass over the front of the map (evictOldest) is sound.
LEMMA PassIsSound ==
  ASSUME NEW keys \in Seq(Topics), IsInjective(keys), NEW admitted
  PROVE  Passed(keys, Pass(keys, admitted), admitted)
<1> DEFINE others == Without(keys, {admitted})
           short  == Min({ScanLimit, Len(others)})
           window == SubSeq(others, 1, short)
           at     == {i \in 1..Len(window) : Evictable(window[i])}
           passed == IF at = {} THEN window ELSE SubSeq(window, 1, Min(at) - 1)
           p      == Pass(keys, admitted)
<1>1. others \in Seq(Topics) /\ IsInjective(others) /\ ToSet(others) = ToSet(keys) \ {admitted}
  BY WithoutKeeps
<1> HIDE DEF others
<1>2. short \in 0..Len(others)
  <2>1. Len(others) \in Nat /\ ScanLimit \in Nat
    BY <1>1, SeqBoundAssumption
  <2> DEFINE n == Len(others)
  <2> HIDE DEF n
  <2>2. Min({ScanLimit, n}) \in {ScanLimit, n} /\ Min({ScanLimit, n}) <= n
    BY <2>1, MinIs DEF n
  <2> QED BY <2>1, <2>2 DEF n
<1> HIDE DEF short
<1>3. window \in Seq(Topics) /\ IsInjective(window) /\ ToSet(window) \subseteq ToSet(others)
  BY <1>1, <1>2, FrontOf
<1> HIDE DEF window
<1>4. at \subseteq 1..Len(window) /\ (at # {} => Min(at) \in at)
  <2>1. at \in SUBSET Nat OBVIOUS
  <2> HIDE DEF at
  <2>2. at # {} => Min(at) \in at BY <2>1, MinIs
  <2> QED BY <2>2 DEF at
<1>5. /\ passed \in Seq(Topics) /\ IsInjective(passed) /\ ToSet(passed) \subseteq ToSet(window)
  <2>1. CASE at = {}
    BY <2>1, <1>3
  <2>2. CASE at # {}
    <3>1. Min(at) \in 1..Len(window) BY <2>2, <1>4
    <3>2. Min(at) - 1 \in 0..Len(window) BY <3>1
    <3> HIDE DEF at
    <3>3. passed = SubSeq(window, 1, Min(at) - 1) BY <2>2
    <3> QED BY <3>2, <3>3, <1>3, FrontOf
  <2> QED BY <2>1, <2>2
<1>6. p = [keys   |-> Without(keys, ToSet(passed)) \o passed,
           victim |-> IF at = {} THEN None ELSE window[Min(at)]]
  BY DEF Pass, window, short, others
<1> HIDE DEF p, passed
<1>7. p.keys \in Seq(Topics) /\ IsInjective(p.keys) /\ ToSet(p.keys) = ToSet(keys)
  <2> DEFINE rest == Without(keys, ToSet(passed))
  <2>1. rest \in Seq(Topics) /\ IsInjective(rest) /\ ToSet(rest) = ToSet(keys) \ ToSet(passed)
    BY WithoutKeeps
  <2>2. ToSet(passed) \subseteq ToSet(keys)
    BY <1>5, <1>3, <1>1
  <2> HIDE DEF rest
  <2>3. p.keys = rest \o passed
    BY <1>6 DEF rest
  <2>4. ToSet(rest) \cap ToSet(passed) = {}
    BY <2>1
  <2>5. /\ rest \o passed \in Seq(Topics) /\ IsInjective(rest \o passed)
        /\ ToSet(rest \o passed) = ToSet(rest) \cup ToSet(passed)
    BY <2>1, <2>4, <1>5, BackToBack
  <2> QED BY <2>1, <2>2, <2>3, <2>5
<1>8. ASSUME p.victim # None
      PROVE  p.victim \in ToSet(keys) \ {admitted} /\ Evictable(p.victim)
  <2>1. p.victim = IF at = {} THEN None ELSE window[Min(at)]
    BY <1>6
  <2>2. at # {} /\ p.victim = window[Min(at)]
    BY <2>1, <1>8
  <2>3. Min(at) \in 1..Len(window) /\ Evictable(window[Min(at)])
    BY <2>2, <1>4
  <2>4. window[Min(at)] \in ToSet(window)
    BY <2>3, <1>3, ToSetIs
  <2> QED BY <2>2, <2>3, <2>4, <1>3, <1>1
<1>9. Passed(keys, p, admitted)
  BY <1>7, <1>8 DEF Passed
<1> QED BY <1>9 DEF p

\* A sweep is one pass or two.
LEMMA SweepIsSound ==
  ASSUME NEW keys \in Seq(Topics), IsInjective(keys), NEW admitted
  PROVE  Passed(keys, Sweep(keys, admitted), admitted)
<1> DEFINE one == Pass(keys, admitted)
           two == Pass(one.keys, admitted)
<1>1. Passed(keys, one, admitted)
  BY PassIsSound
<1>2. Sweep(keys, admitted) = one \/ Sweep(keys, admitted) = two
  BY DEF Sweep
<1>3. one.keys \in Seq(Topics) /\ IsInjective(one.keys) /\ ToSet(one.keys) = ToSet(keys)
  BY <1>1 DEF Passed
<1> HIDE DEF one
<1>4. Passed(one.keys, two, admitted)
  BY <1>3, PassIsSound
<1>5. Passed(keys, two, admitted)
  BY <1>3, <1>4 DEF Passed
<1> QED BY <1>1, <1>2, <1>5

-----------------------------------------------------------------------------

\* Another order of the keys, another count of inserts to wait: nothing is gone.
LEMMA NothingGone ==
  ASSUME NEW r, Registered(r), NEW q, Registered(q),
         Counted(q) = Counted(r), Observed(q) = Observed(r),
         q.seq = r.seq, q.max = r.max, q.floors = r.floors, q.highWater = r.highWater
  PROVE  Gone(r, q, None)
<1>1. r \in Registry BY DEF Registered
<1>2. \A x \in Topics : x # None
  BY SeqBoundAssumption
<1>3. ASSUME NEW x \in Topics PROVE Base(q, x) >= Base(r, x)
  <2>1. Base(q, x) = Base(r, x)
    BY SameFloors DEF Base
  <2>2. Base(r, x) \in Numbers
    BY <1>1, NextIs
  <2> QED BY <2>1, <2>2, SomeNumber
<1> QED BY <1>2, <1>3 DEF Gone

\* Two changes, the first of which takes nothing away, are one.
LEMMA GoneAfter ==
  ASSUME NEW r, Registered(r), NEW p, Gone(r, p, None), NEW q, NEW v, Gone(p, q, v)
  PROVE  Gone(r, q, v)
<1>1. r \in Registry /\ p \in Registry /\ q \in Registry
  BY DEF Gone, Registered
<1>2. \A x \in Topics : x # None
  BY SeqBoundAssumption
<1>3. ASSUME NEW x \in Topics PROVE Base(q, x) >= Base(r, x)
  <2>1. Base(q, x) >= Base(p, x) /\ Base(p, x) >= Base(r, x)
    BY DEF Gone
  <2>2. Base(q, x) \in Int /\ Base(p, x) \in Int /\ Base(r, x) \in Int
    BY <1>1, NextIs, SomeNumber
  <2> QED BY <2>1, <2>2
<1> QED BY <1>2, <1>3 DEF Gone

\* What an insert of t may cost: one other topic that may go.
Settled(r, q, t) ==
  \E v \in Topics \cup {None} :
     /\ v # t /\ (v # None => Evictable(v))
     /\ Gone(r, q, v)

\* A registry left alone is settled.
LEMMA SettledAsItWas ==
  ASSUME NEW r, Registered(r), NEW t \in Topics
  PROVE  Settled(r, r, t)
<1>1. Gone(r, r, None)
  BY NothingGone
<1> QED BY <1>1, SeqBoundAssumption DEF Settled

\* The ceiling of the counters costs one topic at most, and not the new one.
LEMMA InsertIsSound ==
  ASSUME NEW r, Registered(r), NEW t \in Topics
  PROVE  Settled(r, OnInsert(r, t), t)
<1> DEFINE s    == Sweep(r.seqKeys, t)
           q    == [r EXCEPT !.seqKeys = s.keys]
           wait == [r EXCEPT !.skipSeq = @ - 1]
           rest == [q EXCEPT !.skipSeq = Backoff]
           gone == Evict(q, s.victim)
           out  == OnInsert(r, t)
<1> SUFFICES Settled(r, out, t)
  OBVIOUS
<1>1. r \in Registry /\ r.seqKeys \in Seq(Topics) /\ IsInjective(r.seqKeys)
      /\ IsInjective(r.seenKeys) /\ r.skipSeq \in 0..Backoff
  BY RegistryFields DEF Registered
<1>2. Passed(r.seqKeys, s, t)
  BY <1>1, SweepIsSound
<1>3. \/ out = r
      \/ r.skipSeq > 0 /\ out = wait
      \/ s.victim = None /\ out = rest
      \/ s.victim # None /\ out = gone
  <2>1. out = IF Len(r.seqKeys) <= Capacity THEN r
              ELSE IF r.skipSeq > 0 THEN wait
              ELSE IF s.victim = None THEN rest ELSE gone
    BY DEF OnInsert
  <2> HIDE DEF out, wait, rest, gone, s, q
  <2> QED BY <2>1
<1> HIDE DEF s, out
<1>4. /\ s.keys \in Seq(Topics) /\ IsInjective(s.keys) /\ ToSet(s.keys) = ToSet(r.seqKeys)
      /\ s.victim # None => s.victim \in ToSet(r.seqKeys) \ {t} /\ Evictable(s.victim)
  BY <1>2 DEF Passed
<1>5. Registered(q) /\ Gone(r, q, None)
  <2>1. /\ q \in Registry /\ q.seqKeys = s.keys /\ q.seenKeys = r.seenKeys
        /\ q.seq = r.seq /\ q.max = r.max /\ q.floors = r.floors /\ q.highWater = r.highWater
    BY <1>1, <1>4 DEF Registry
  <2> HIDE DEF q
  <2>2. Registered(q)
    BY <2>1, <1>1, <1>4 DEF Registered
  <2>3. Counted(q) = Counted(r) /\ Observed(q) = Observed(r)
    BY <2>1, <1>4 DEF Counted, Observed
  <2> QED BY <2>1, <2>2, <2>3, NothingGone
<1>6. CASE out = r
  BY <1>6, SettledAsItWas
<1>7. CASE r.skipSeq > 0 /\ out = wait
  <2>1. r.skipSeq - 1 \in 0..Backoff
    BY <1>1, <1>7, SeqBoundAssumption
  <2>2. /\ wait \in Registry /\ wait.seqKeys = r.seqKeys /\ wait.seenKeys = r.seenKeys
        /\ wait.seq = r.seq /\ wait.max = r.max
        /\ wait.floors = r.floors /\ wait.highWater = r.highWater
    BY <1>1, <2>1 DEF Registry
  <2> HIDE DEF wait
  <2>3. Registered(wait)
    BY <2>2, <1>1 DEF Registered
  <2>4. Counted(wait) = Counted(r) /\ Observed(wait) = Observed(r)
    BY <2>2 DEF Counted, Observed
  <2>5. Gone(r, wait, None)
    BY <2>2, <2>3, <2>4, NothingGone
  <2> QED BY <2>5, <1>7, SeqBoundAssumption DEF Settled
<1>8. CASE s.victim = None /\ out = rest
  <2> HIDE DEF q
  <2>0. q \in Registry /\ IsInjective(q.seqKeys) /\ IsInjective(q.seenKeys)
    BY <1>5 DEF Registered
  <2>1. Backoff \in 0..Backoff
    BY SeqBoundAssumption
  <2>2. /\ rest \in Registry /\ rest.seqKeys = q.seqKeys /\ rest.seenKeys = q.seenKeys
        /\ rest.seq = q.seq /\ rest.max = q.max
        /\ rest.floors = q.floors /\ rest.highWater = q.highWater
    BY <2>0, <2>1 DEF Registry
  <2> HIDE DEF rest
  <2>3. Registered(rest)
    BY <2>2, <2>0 DEF Registered
  <2>4. Counted(rest) = Counted(q) /\ Observed(rest) = Observed(q)
    BY <2>2 DEF Counted, Observed
  <2>5. Gone(q, rest, None)
    BY <1>5, <2>2, <2>3, <2>4, NothingGone
  <2>6. Gone(r, rest, None)
    BY <1>5, <2>5, GoneAfter
  <2> QED BY <2>6, <1>8, SeqBoundAssumption DEF Settled
<1>9. CASE s.victim # None /\ out = gone
  <2>1. s.victim \in Topics /\ s.victim # t /\ Evictable(s.victim)
    BY <1>9, <1>4, <1>1, ToSetIs
  <2> HIDE DEF q
  <2>2. Gone(q, gone, s.victim)
    BY <1>5, <2>1, EvictIsClean
  <2> HIDE DEF gone
  <2>3. Gone(r, gone, s.victim)
    BY <1>5, <2>2, GoneAfter
  <2> QED BY <2>1, <2>3, <1>9 DEF Settled
<1> QED BY <1>3, <1>6, <1>7, <1>8, <1>9

\* The same of the ceiling of the observed numbers.
LEMMA SeenInsertIsSound ==
  ASSUME NEW r, Registered(r), NEW t \in Topics
  PROVE  Settled(r, OnSeenInsert(r, t), t)
<1> DEFINE s    == Sweep(r.seenKeys, t)
           q    == [r EXCEPT !.seenKeys = s.keys]
           wait == [r EXCEPT !.skipSeen = @ - 1]
           rest == [q EXCEPT !.skipSeen = Backoff]
           gone == Evict(q, s.victim)
           out  == OnSeenInsert(r, t)
<1> SUFFICES Settled(r, out, t)
  OBVIOUS
<1>1. r \in Registry /\ r.seenKeys \in Seq(Topics) /\ IsInjective(r.seqKeys)
      /\ IsInjective(r.seenKeys) /\ r.skipSeen \in 0..Backoff
  BY RegistryFields DEF Registered
<1>2. Passed(r.seenKeys, s, t)
  BY <1>1, SweepIsSound
<1>3. \/ out = r
      \/ r.skipSeen > 0 /\ out = wait
      \/ s.victim = None /\ out = rest
      \/ s.victim # None /\ out = gone
  <2>1. out = IF Len(r.seenKeys) <= Capacity THEN r
              ELSE IF r.skipSeen > 0 THEN wait
              ELSE IF s.victim = None THEN rest ELSE gone
    BY DEF OnSeenInsert
  <2> HIDE DEF out, wait, rest, gone, s, q
  <2> QED BY <2>1
<1> HIDE DEF s, out
<1>4. /\ s.keys \in Seq(Topics) /\ IsInjective(s.keys) /\ ToSet(s.keys) = ToSet(r.seenKeys)
      /\ s.victim # None => s.victim \in ToSet(r.seenKeys) \ {t} /\ Evictable(s.victim)
  BY <1>2 DEF Passed
<1>5. Registered(q) /\ Gone(r, q, None)
  <2>1. /\ q \in Registry /\ q.seqKeys = r.seqKeys /\ q.seenKeys = s.keys
        /\ q.seq = r.seq /\ q.max = r.max /\ q.floors = r.floors /\ q.highWater = r.highWater
    BY <1>1, <1>4 DEF Registry
  <2> HIDE DEF q
  <2>2. Registered(q)
    BY <2>1, <1>1, <1>4 DEF Registered
  <2>3. Counted(q) = Counted(r) /\ Observed(q) = Observed(r)
    BY <2>1, <1>4 DEF Counted, Observed
  <2> QED BY <2>1, <2>2, <2>3, NothingGone
<1>6. CASE out = r
  BY <1>6, SettledAsItWas
<1>7. CASE r.skipSeen > 0 /\ out = wait
  <2>1. r.skipSeen - 1 \in 0..Backoff
    BY <1>1, <1>7, SeqBoundAssumption
  <2>2. /\ wait \in Registry /\ wait.seqKeys = r.seqKeys /\ wait.seenKeys = r.seenKeys
        /\ wait.seq = r.seq /\ wait.max = r.max
        /\ wait.floors = r.floors /\ wait.highWater = r.highWater
    BY <1>1, <2>1 DEF Registry
  <2> HIDE DEF wait
  <2>3. Registered(wait)
    BY <2>2, <1>1 DEF Registered
  <2>4. Counted(wait) = Counted(r) /\ Observed(wait) = Observed(r)
    BY <2>2 DEF Counted, Observed
  <2>5. Gone(r, wait, None)
    BY <2>2, <2>3, <2>4, NothingGone
  <2> QED BY <2>5, <1>7, SeqBoundAssumption DEF Settled
<1>8. CASE s.victim = None /\ out = rest
  <2> HIDE DEF q
  <2>0. q \in Registry /\ IsInjective(q.seqKeys) /\ IsInjective(q.seenKeys)
    BY <1>5 DEF Registered
  <2>1. Backoff \in 0..Backoff
    BY SeqBoundAssumption
  <2>2. /\ rest \in Registry /\ rest.seqKeys = q.seqKeys /\ rest.seenKeys = q.seenKeys
        /\ rest.seq = q.seq /\ rest.max = q.max
        /\ rest.floors = q.floors /\ rest.highWater = q.highWater
    BY <2>0, <2>1 DEF Registry
  <2> HIDE DEF rest
  <2>3. Registered(rest)
    BY <2>2, <2>0 DEF Registered
  <2>4. Counted(rest) = Counted(q) /\ Observed(rest) = Observed(q)
    BY <2>2 DEF Counted, Observed
  <2>5. Gone(q, rest, None)
    BY <1>5, <2>2, <2>3, <2>4, NothingGone
  <2>6. Gone(r, rest, None)
    BY <1>5, <2>5, GoneAfter
  <2> QED BY <2>6, <1>8, SeqBoundAssumption DEF Settled
<1>9. CASE s.victim # None /\ out = gone
  <2>1. s.victim \in Topics /\ s.victim # t /\ Evictable(s.victim)
    BY <1>9, <1>4, <1>1, ToSetIs
  <2> HIDE DEF q
  <2>2. Gone(q, gone, s.victim)
    BY <1>5, <2>1, EvictIsClean
  <2> HIDE DEF gone
  <2>3. Gone(r, gone, s.victim)
    BY <1>5, <2>2, GoneAfter
  <2> QED BY <2>1, <2>3, <1>9 DEF Settled
<1> QED BY <1>3, <1>6, <1>7, <1>8, <1>9

-----------------------------------------------------------------------------

\* From r to q, t has the number n and v is gone.
StampedBut(r, q, t, n, v) ==
  /\ v \in Topics \cup {None} /\ v # t /\ (v # None => Evictable(v))
  /\ Registered(q)
  /\ \A x \in Topics : x \in Counted(q) <=> x = t \/ (x \in Counted(r) /\ x # v)
  /\ \A x \in Topics : q.seq[x] = IF x = t THEN n ELSE IF x = v THEN 0 ELSE r.seq[x]
  /\ \A x \in Topics : x \in Observed(q) <=> x \in Observed(r) /\ x # v
  /\ \A x \in Topics : q.max[x] = IF x = v THEN 0 ELSE r.max[x]
  /\ \A x \in Topics \ {t} : Base(q, x) >= Base(r, x)

\* A key new to its map goes to the end.
LEMMA KeyAppended ==
  ASSUME NEW keys \in Seq(Topics), IsInjective(keys), NEW t \in Topics, t \notin ToSet(keys)
  PROVE  /\ Append(keys, t) \in Seq(Topics) /\ IsInjective(Append(keys, t))
         /\ ToSet(Append(keys, t)) = ToSet(keys) \cup {t}
<1> DEFINE s == Append(keys, t)
<1>1. /\ s \in Seq(Topics) /\ Len(s) = Len(keys) + 1
      /\ \A i \in 1..Len(keys) : s[i] = keys[i]
      /\ s[Len(keys) + 1] = t
  OBVIOUS
<1>2. Len(keys) \in Nat OBVIOUS
<1> HIDE DEF s
<1>3. ToSet(s) = {s[i] : i \in 1..Len(s)} /\ ToSet(keys) = {keys[i] : i \in 1..Len(keys)}
  BY <1>1, ToSetIs
<1>4. ToSet(s) = ToSet(keys) \cup {t}
  BY <1>1, <1>2, <1>3
<1>5. \A i \in 1..Len(keys) : keys[i] # t
  BY <1>3
<1>6. \A i, j \in 1..Len(keys) : keys[i] = keys[j] => i = j
  BY DEF IsInjective
<1>7. \A i, j \in 1..Len(s) : s[i] = s[j] => i = j
  BY <1>1, <1>2, <1>5, <1>6
<1>8. IsInjective(s)
  BY <1>7, <1>1 DEF IsInjective
<1> QED BY <1>1, <1>4, <1>8 DEF s

\* A stamp gives t its next number, and costs another topic at most.
LEMMA StampIsSound ==
  ASSUME NEW r, Registered(r), NEW t \in Topics, NextNumber(r, t) <= MaxSeq
  PROVE  \E v : StampedBut(r, Stamp(r, t), t, NextNumber(r, t), v)
<1> DEFINE n   == NextNumber(r, t)
           s   == [r.seq EXCEPT ![t] = n]
           old == [r EXCEPT !.seq = s]
           k   == Append(r.seqKeys, t)
           new == [r EXCEPT !.seqKeys = k, !.seq = s]
           out == Stamp(r, t)
<1>0. r \in Registry /\ IsInjective(r.seqKeys) /\ IsInjective(r.seenKeys)
  BY DEF Registered
<1>1. n \in Numbers
  <2>1. n = Base(r, t) + 1 /\ Base(r, t) \in Numbers
    BY <1>0, NextIs
  <2> HIDE DEF n
  <2>2. n <= MaxSeq BY DEF n
  <2> QED BY <2>1, <2>2, SeqBoundAssumption DEF Numbers
<1>2. /\ out = IF Contains(r.seqKeys, t) THEN old ELSE OnInsert(new, t)
      /\ Contains(r.seqKeys, t) <=> t \in Counted(r)
  <2>1. out = IF Contains(r.seqKeys, t) THEN old ELSE OnInsert(new, t)
    BY <1>0 DEF Stamp, Registry
  <2>2. Contains(r.seqKeys, t) <=> t \in Counted(r)
    BY <1>0, RegistryFields, ContainsIs DEF Counted
  <2> QED BY <2>1, <2>2
<1> SUFFICES \E v : StampedBut(r, out, t, n, v)
  OBVIOUS
<1> HIDE DEF n, out
<1>3. /\ s \in [Topics -> Numbers]
      /\ \A x \in Topics : s[x] = IF x = t THEN n ELSE r.seq[x]
  BY <1>0, <1>1, RegistryFields
<1> HIDE DEF s
<1>4. CASE t \in Counted(r)
  <2>1. out = old BY <1>4, <1>2
  <2>2. /\ old \in Registry /\ old.seqKeys = r.seqKeys /\ old.seenKeys = r.seenKeys
        /\ old.seq = s /\ old.max = r.max
        /\ old.floors = r.floors /\ old.highWater = r.highWater
    BY <1>0, <1>3 DEF Registry
  <2> HIDE DEF old
  <2>3. Registered(old)
    BY <2>2, <1>0 DEF Registered
  <2>4. Counted(old) = Counted(r) /\ Observed(old) = Observed(r)
    BY <2>2 DEF Counted, Observed
  <2>5. ASSUME NEW x \in Topics \ {t} PROVE Base(old, x) >= Base(r, x)
    <3>1. Base(old, x) = Base(r, x)
      BY <2>2, <2>4, <1>3, SameFloors DEF Base
    <3>2. Base(r, x) \in Numbers
      BY <1>0, NextIs
    <3> QED BY <3>1, <3>2, SomeNumber
  <2>6. StampedBut(r, old, t, n, None)
    BY <2>2, <2>3, <2>4, <2>5, <1>3, <1>4, SeqBoundAssumption DEF StampedBut
  <2> QED BY <2>1, <2>6
<1>5. CASE t \notin Counted(r)
  <2>1. out = OnInsert(new, t) BY <1>5, <1>2
  <2>2. k \in Seq(Topics) /\ IsInjective(k) /\ ToSet(k) = Counted(r) \cup {t}
    BY <1>0, <1>5, RegistryFields, KeyAppended DEF Counted
  <2> HIDE DEF k
  <2>3. /\ new \in Registry /\ new.seqKeys = k /\ new.seenKeys = r.seenKeys
        /\ new.seq = s /\ new.max = r.max
        /\ new.floors = r.floors /\ new.highWater = r.highWater
    BY <1>0, <1>3, <2>2 DEF Registry
  <2> HIDE DEF new
  <2>4. Registered(new)
    BY <2>2, <2>3, <1>0 DEF Registered
  <2>5. Counted(new) = Counted(r) \cup {t} /\ Observed(new) = Observed(r)
    BY <2>2, <2>3 DEF Counted, Observed
  <2>6. Settled(new, out, t)
    BY <2>1, <2>4, InsertIsSound
  <2>7. PICK v \in Topics \cup {None} :
          v # t /\ (v # None => Evictable(v)) /\ Gone(new, out, v)
    BY <2>6 DEF Settled
  <2>8. /\ Registered(out)
        /\ \A x \in Topics : x \in Counted(out) <=> x \in Counted(new) /\ x # v
        /\ \A x \in Topics : x \in Observed(out) <=> x \in Observed(new) /\ x # v
        /\ \A x \in Topics : out.seq[x] = IF x = v THEN 0 ELSE new.seq[x]
        /\ \A x \in Topics : out.max[x] = IF x = v THEN 0 ELSE new.max[x]
        /\ \A x \in Topics : Base(out, x) >= Base(new, x)
    BY <2>7 DEF Gone
  <2>9. ASSUME NEW x \in Topics \ {t} PROVE Base(out, x) >= Base(r, x)
    <3>1. Base(new, x) = Base(r, x)
      BY <2>3, <2>5, <1>3, SameFloors DEF Base
    <3> QED BY <3>1, <2>8
  <2>10. StampedBut(r, out, t, n, v)
    BY <2>3, <2>5, <2>7, <2>8, <2>9, <1>3 DEF StampedBut
  <2> QED BY <2>10
<1> QED BY <1>4, <1>5

-----------------------------------------------------------------------------

\* From r to q, n was observed of t and v is gone.
RecordedBut(r, q, t, n, compare, v) ==
  /\ v \in Topics \cup {None} /\ v # t /\ (v # None => Evictable(v))
  /\ Registered(q)
  /\ \A x \in Topics : x \in Counted(q) <=> x \in Counted(r) /\ x # v
  /\ \A x \in Topics : q.seq[x] = IF x = v THEN 0 ELSE r.seq[x]
  /\ \A x \in Topics : x \in Observed(q) <=> x = t \/ (x \in Observed(r) /\ x # v)
  /\ \A x \in Topics \ {t} : q.max[x] = IF x = v THEN 0 ELSE r.max[x]
  /\ q.max[t] >= n
  /\ compare /\ t \in Observed(r) => q.max[t] >= r.max[t]
  /\ ~compare => q.max[t] = n
  /\ \A x \in Topics : Base(q, x) >= Base(r, x)

\* A record raises what is observed of t, and costs another topic at most.
LEMMA RecordIsSound ==
  ASSUME NEW r, Registered(r), NEW t \in Topics, NEW n \in Numbers, NEW compare \in BOOLEAN
  PROVE  \E v : RecordedBut(r, Record(r, t, n, compare), t, n, compare, v)
<1> DEFINE top == IF compare THEN Max({r.max[t], n}) ELSE n
           a   == [r.max EXCEPT ![t] = top]
           b   == [r.max EXCEPT ![t] = n]
           old == [r EXCEPT !.max = a]
           k   == Append(r.seenKeys, t)
           new == [r EXCEPT !.seenKeys = k, !.max = b]
           out == Record(r, t, n, compare)
<1>0. r \in Registry /\ IsInjective(r.seqKeys) /\ IsInjective(r.seenKeys)
  BY DEF Registered
<1>1. /\ top \in Numbers /\ top >= n
      /\ compare => top >= r.max[t]
      /\ ~compare => top = n
  <2>1. r.max[t] \in Numbers
    BY <1>0, RegistryFields
  <2>2. Max({r.max[t], n}) \in Numbers /\ Max({r.max[t], n}) >= r.max[t] /\ Max({r.max[t], n}) >= n
    BY <2>1, MaxIs
  <2>3. n >= n BY SomeNumber
  <2> QED BY <2>2, <2>3
<1>2. /\ out = IF Contains(r.seenKeys, t) THEN old ELSE OnSeenInsert(new, t)
      /\ Contains(r.seenKeys, t) <=> t \in Observed(r)
  <2>1. out = IF Contains(r.seenKeys, t) THEN old ELSE OnSeenInsert(new, t)
    BY <1>0 DEF Record, Registry
  <2>2. Contains(r.seenKeys, t) <=> t \in Observed(r)
    BY <1>0, RegistryFields, ContainsIs DEF Observed
  <2> QED BY <2>1, <2>2
<1> SUFFICES \E v : RecordedBut(r, out, t, n, compare, v)
  OBVIOUS
<1> HIDE DEF top, out
<1>3. /\ a \in [Topics -> Numbers] /\ b \in [Topics -> Numbers]
      /\ \A x \in Topics : a[x] = IF x = t THEN top ELSE r.max[x]
      /\ \A x \in Topics : b[x] = IF x = t THEN n ELSE r.max[x]
  <2>1. r.max \in [Topics -> Numbers]
    BY <1>0, RegistryFields
  <2>2. a \in [Topics -> Numbers] BY <2>1, <1>1
  <2>3. b \in [Topics -> Numbers] BY <2>1
  <2> QED BY <2>1, <2>2, <2>3
<1> HIDE DEF a, b
<1>4. CASE t \in Observed(r)
  <2>1. out = old BY <1>4, <1>2
  <2>2. /\ old \in Registry /\ old.seqKeys = r.seqKeys /\ old.seenKeys = r.seenKeys
        /\ old.seq = r.seq /\ old.max = a
        /\ old.floors = r.floors /\ old.highWater = r.highWater
    BY <1>0, <1>3 DEF Registry
  <2> HIDE DEF old
  <2>3. Registered(old)
    BY <2>2, <1>0 DEF Registered
  <2>4. Counted(old) = Counted(r) /\ Observed(old) = Observed(r)
    BY <2>2 DEF Counted, Observed
  <2>5. ASSUME NEW x \in Topics PROVE Base(old, x) >= Base(r, x)
    <3>1. Base(old, x) = Base(r, x)
      BY <2>2, <2>4, SameFloors DEF Base
    <3>2. Base(r, x) \in Numbers
      BY <1>0, NextIs
    <3> QED BY <3>1, <3>2, SomeNumber
  <2>6. RecordedBut(r, old, t, n, compare, None)
    BY <2>2, <2>3, <2>4, <2>5, <1>1, <1>3, <1>4, SeqBoundAssumption DEF RecordedBut
  <2> QED BY <2>1, <2>6
<1>5. CASE t \notin Observed(r)
  <2>1. out = OnSeenInsert(new, t) BY <1>5, <1>2
  <2>2. k \in Seq(Topics) /\ IsInjective(k) /\ ToSet(k) = Observed(r) \cup {t}
    BY <1>0, <1>5, RegistryFields, KeyAppended DEF Observed
  <2> HIDE DEF k
  <2>3. /\ new \in Registry /\ new.seqKeys = r.seqKeys /\ new.seenKeys = k
        /\ new.seq = r.seq /\ new.max = b
        /\ new.floors = r.floors /\ new.highWater = r.highWater
    BY <1>0, <1>3, <2>2 DEF Registry
  <2> HIDE DEF new
  <2>4. Registered(new)
    BY <2>2, <2>3, <1>0 DEF Registered
  <2>5. Counted(new) = Counted(r) /\ Observed(new) = Observed(r) \cup {t}
    BY <2>2, <2>3 DEF Counted, Observed
  <2>6. Settled(new, out, t)
    BY <2>1, <2>4, SeenInsertIsSound
  <2>7. PICK v \in Topics \cup {None} :
          v # t /\ (v # None => Evictable(v)) /\ Gone(new, out, v)
    BY <2>6 DEF Settled
  <2>8. /\ Registered(out)
        /\ \A x \in Topics : x \in Counted(out) <=> x \in Counted(new) /\ x # v
        /\ \A x \in Topics : x \in Observed(out) <=> x \in Observed(new) /\ x # v
        /\ \A x \in Topics : out.seq[x] = IF x = v THEN 0 ELSE new.seq[x]
        /\ \A x \in Topics : out.max[x] = IF x = v THEN 0 ELSE new.max[x]
        /\ \A x \in Topics : Base(out, x) >= Base(new, x)
    BY <2>7 DEF Gone
  <2>9. ASSUME NEW x \in Topics PROVE Base(out, x) >= Base(r, x)
    <3>1. Base(new, x) = Base(r, x)
      BY <2>3, <2>5, SameFloors DEF Base
    <3> QED BY <3>1, <2>8
  <2>10. out.max[t] = n /\ n >= n
    BY <2>3, <2>7, <2>8, <1>3, SomeNumber
  <2>11. RecordedBut(r, out, t, n, compare, v)
    BY <2>3, <2>5, <2>7, <2>8, <2>9, <2>10, <1>3, <1>5 DEF RecordedBut
  <2> QED BY <2>11
<1> QED BY <1>4, <1>5

-----------------------------------------------------------------------------

\* The inductive invariant: what no counter holds any more is under a floor, and until
\* another authority spoke nothing above the counter was observed.
NumbersInv ==
  /\ Registered(reg) /\ latched \in BOOLEAN /\ clustered \in BOOLEAN
  /\ prev \in [Topics -> Numbers] /\ age \in [Topics -> -1..2] /\ issued \in [Topics -> Numbers]
  /\ \A t \in Topics :
       /\ t \in Counted(reg) => t \in Observed(reg) /\ reg.max[t] >= reg.seq[t]
       /\ t \notin Observed(reg) => reg.max[t] = 0
       /\ Base(reg, t) >= issued[t]
       /\ ~latched => Base(reg, t) >= reg.max[t]

\* What leaves may leave, and what is observed of the others does not fall.
StepIsJustified ==
  \A t \in Topics :
     /\ Contains(reg.seenKeys, t) /\ ~Contains(reg'.seenKeys, t) => Evictable(t)
     /\ Contains(reg.seenKeys, t) /\ Contains(reg'.seenKeys, t) => reg'.max[t] >= reg.max[t]

\* What the registry says of a topic are numbers.
LEMMA NumbersOf ==
  ASSUME NEW r, Registered(r), NEW x \in Topics
  PROVE  /\ Base(r, x) \in Int /\ Base(r, x) >= 0
         /\ r.seq[x] \in Int /\ r.seq[x] >= 0 /\ r.max[x] \in Int /\ r.max[x] >= 0
<1>1. r \in Registry BY DEF Registered
<1>2. Base(r, x) \in Numbers /\ r.seq[x] \in Numbers /\ r.max[x] \in Numbers
  BY <1>1, NextIs, RegistryFields
<1> QED BY <1>2, SomeNumber

\* A step that leaves the registry alone moves nothing.
LEMMA StillIsJustified ==
  ASSUME NumbersInv, UNCHANGED reg
  PROVE  StepIsJustified
<1>1. \A t \in Topics : reg.max[t] \in Int
  BY NumbersOf DEF NumbersInv
<1>2. \A t \in Topics : reg.max[t] >= reg.max[t]
  BY <1>1
<1> QED BY <1>2 DEF StepIsJustified

\* A publication stamps its message, and records it once another authority spoke.
LEMMA PublishStep ==
  ASSUME NumbersInv, NEW t \in Topics, Publish(t)
  PROVE  NumbersInv' /\ StepIsJustified
<1> DEFINE n == NextNumber(reg, t)
           q == Stamp(reg, t)
           p == Record(q, t, n, latched)
<1>1. /\ Registered(reg) /\ reg \in Registry /\ latched \in BOOLEAN
      /\ issued \in [Topics -> Numbers]
  BY DEF NumbersInv, Registered
<1>2. n \in Numbers /\ n = Base(reg, t) + 1 /\ n <= MaxSeq /\ reg' = p
      /\ issued' = [issued EXCEPT ![t] = n]
      /\ UNCHANGED <<latched, protected, clustered, prev, age>>
  <2>1. n = Base(reg, t) + 1 /\ Base(reg, t) \in Numbers
    BY <1>1, NextIs
  <2>2. /\ n <= MaxSeq /\ reg' = p /\ issued' = [issued EXCEPT ![t] = n]
        /\ UNCHANGED <<latched, protected, clustered, prev, age>>
    BY DEF Publish
  <2> HIDE DEF n, p
  <2> QED BY <2>1, <2>2, SeqBoundAssumption DEF Numbers
<1>3. PICK v : StampedBut(reg, q, t, n, v)
  BY <1>1, <1>2, StampIsSound
<1> HIDE DEF n, q
<1>4. /\ v \in Topics \cup {None} /\ v # t /\ (v # None => Evictable(v))
      /\ Registered(q)
      /\ \A x \in Topics : x \in Counted(q) <=> x = t \/ (x \in Counted(reg) /\ x # v)
      /\ \A x \in Topics : q.seq[x] = IF x = t THEN n ELSE IF x = v THEN 0 ELSE reg.seq[x]
      /\ \A x \in Topics : x \in Observed(q) <=> x \in Observed(reg) /\ x # v
      /\ \A x \in Topics : q.max[x] = IF x = v THEN 0 ELSE reg.max[x]
      /\ \A x \in Topics \ {t} : Base(q, x) >= Base(reg, x)
  BY <1>3 DEF StampedBut
<1>5. PICK w : RecordedBut(q, p, t, n, latched, w)
  BY <1>1, <1>2, <1>4, RecordIsSound
<1> HIDE DEF p
<1>6. /\ w \in Topics \cup {None} /\ w # t /\ (w # None => Evictable(w))
      /\ Registered(p)
      /\ \A x \in Topics : x \in Counted(p) <=> x \in Counted(q) /\ x # w
      /\ \A x \in Topics : p.seq[x] = IF x = w THEN 0 ELSE q.seq[x]
      /\ \A x \in Topics : x \in Observed(p) <=> x = t \/ (x \in Observed(q) /\ x # w)
      /\ \A x \in Topics \ {t} : p.max[x] = IF x = w THEN 0 ELSE q.max[x]
      /\ p.max[t] >= n
      /\ latched /\ t \in Observed(q) => p.max[t] >= q.max[t]
      /\ ~latched => p.max[t] = n
      /\ \A x \in Topics : Base(p, x) >= Base(q, x)
  BY <1>5 DEF RecordedBut
<1>7. n \in Int /\ Base(p, t) = n /\ p.seq[t] = n /\ t \in Counted(p) /\ t \in Observed(p)
  BY <1>2, <1>4, <1>6, SomeNumber DEF Base
<1>8. ASSUME NEW x \in Topics
      PROVE  /\ x \in Counted(reg) => x \in Observed(reg) /\ reg.max[x] >= reg.seq[x]
             /\ x \notin Observed(reg) => reg.max[x] = 0
             /\ Base(reg, x) >= issued[x] /\ issued[x] \in Int
             /\ ~latched => Base(reg, x) >= reg.max[x]
             /\ Base(reg, x) \in Int /\ Base(q, x) \in Int /\ Base(p, x) \in Int /\ Base(p, x) >= 0
             /\ reg.max[x] \in Int /\ reg.seq[x] \in Int /\ p.max[x] \in Int
  BY <1>1, <1>4, <1>6, NumbersOf, SomeNumber DEF NumbersInv
<1>9. ASSUME NEW x \in Topics, x # t
      PROVE  /\ x \in Counted(p) => x \in Observed(p) /\ p.max[x] >= p.seq[x]
             /\ x \notin Observed(p) => p.max[x] = 0
             /\ Base(p, x) >= Base(reg, x)
             /\ ~latched => Base(p, x) >= p.max[x]
             /\ x \in Observed(reg) /\ x \notin Observed(p) => Evictable(x)
             /\ x \in Observed(reg) /\ x \in Observed(p) => p.max[x] >= reg.max[x]
  <2>1. x \in Counted(p) <=> x \in Counted(reg) /\ x # v /\ x # w
    BY <1>9, <1>4, <1>6
  <2>2. x \in Observed(p) <=> x \in Observed(reg) /\ x # v /\ x # w
    BY <1>9, <1>4, <1>6
  <2>3. /\ p.seq[x] = IF x = v \/ x = w THEN 0 ELSE reg.seq[x]
        /\ p.max[x] = IF x = v \/ x = w THEN 0 ELSE reg.max[x]
    BY <1>9, <1>4, <1>6
  <2>4. x = v \/ x = w => Evictable(x)
    BY <1>4, <1>6, SeqBoundAssumption
  <2>5. Base(p, x) >= Base(reg, x)
    BY <1>9, <1>4, <1>6, <1>8
  <2> QED BY <2>1, <2>2, <2>3, <2>4, <2>5, <1>8
<1>10. t \in Observed(reg) => p.max[t] >= reg.max[t]
  <2>1. t \in Observed(reg) => t \in Observed(q) /\ q.max[t] = reg.max[t]
    BY <1>4
  <2>2. ~latched => p.max[t] >= reg.max[t]
    BY <1>2, <1>6, <1>8
  <2> QED BY <2>1, <2>2, <1>6
<1>11. /\ \A x \in Topics : issued'[x] = IF x = t THEN n ELSE issued[x]
       /\ issued' \in [Topics -> Numbers]
  BY <1>1, <1>2
<1>12. NumbersInv'
  <2>1. /\ Registered(reg') /\ latched' \in BOOLEAN /\ clustered' \in BOOLEAN
        /\ prev' \in [Topics -> Numbers] /\ age' \in [Topics -> -1..2]
        /\ issued' \in [Topics -> Numbers]
    BY <1>2, <1>6, <1>11 DEF NumbersInv
  <2>2. ASSUME NEW x \in Topics
        PROVE  /\ x \in Counted(p) => x \in Observed(p) /\ p.max[x] >= p.seq[x]
               /\ x \notin Observed(p) => p.max[x] = 0
               /\ Base(p, x) >= issued'[x]
               /\ ~latched => Base(p, x) >= p.max[x]
    <3>1. CASE x = t
      BY <3>1, <1>6, <1>7, <1>8, <1>11
    <3>2. CASE x # t
      BY <3>2, <1>8, <1>9, <1>11
    <3> QED BY <3>1, <3>2
  <2>3. latched' = latched /\ reg' = p
    BY <1>2
  <2> QED BY <2>1, <2>2, <2>3 DEF NumbersInv, Counted, Observed, Base, FloorOf
<1>13. StepIsJustified
  <2>1. \A x \in Topics : /\ Contains(reg.seenKeys, x) <=> x \in Observed(reg)
                          /\ Contains(p.seenKeys, x) <=> x \in Observed(p)
    <3>1. reg.seenKeys \in Seq(Topics) /\ p.seenKeys \in Seq(Topics)
      BY <1>1, <1>6, RegistryFields DEF Registered
    <3> QED BY <3>1, ContainsIs DEF Observed
  <2>2. ASSUME NEW x \in Topics
        PROVE  /\ x \in Observed(reg) /\ x \notin Observed(p) => Evictable(x)
               /\ x \in Observed(reg) /\ x \in Observed(p) => p.max[x] >= reg.max[x]
    BY <1>7, <1>9, <1>10
  <2> QED BY <2>1, <2>2, <1>2 DEF StepIsJustified
<1> QED BY <1>12, <1>13

\* A number of another authority is observed.
LEMMA ObserveStep ==
  ASSUME NumbersInv, NEW t \in Topics, NEW n \in Foreign[t], Observe(t, n)
  PROVE  NumbersInv' /\ StepIsJustified
<1> DEFINE p == Record(reg, t, n, TRUE)
<1>1. /\ Registered(reg) /\ reg \in Registry /\ issued \in [Topics -> Numbers] /\ n \in Numbers
      /\ reg' = p /\ latched' = TRUE /\ UNCHANGED <<protected, clustered, prev, age, issued>>
  BY SeqBoundAssumption DEF NumbersInv, Registered, Observe
<1>2. PICK w : RecordedBut(reg, p, t, n, TRUE, w)
  BY <1>1, RecordIsSound
<1> HIDE DEF p
<1>3. /\ w \in Topics \cup {None} /\ w # t /\ (w # None => Evictable(w))
      /\ Registered(p)
      /\ \A x \in Topics : x \in Counted(p) <=> x \in Counted(reg) /\ x # w
      /\ \A x \in Topics : p.seq[x] = IF x = w THEN 0 ELSE reg.seq[x]
      /\ \A x \in Topics : x \in Observed(p) <=> x = t \/ (x \in Observed(reg) /\ x # w)
      /\ \A x \in Topics \ {t} : p.max[x] = IF x = w THEN 0 ELSE reg.max[x]
      /\ t \in Observed(reg) => p.max[t] >= reg.max[t]
      /\ \A x \in Topics : Base(p, x) >= Base(reg, x)
  BY <1>2 DEF RecordedBut
<1>4. ASSUME NEW x \in Topics
      PROVE  /\ x \in Counted(reg) => x \in Observed(reg) /\ reg.max[x] >= reg.seq[x]
             /\ x \notin Observed(reg) => reg.max[x] = 0
             /\ Base(reg, x) >= issued[x] /\ issued[x] \in Int
             /\ Base(reg, x) \in Int /\ Base(p, x) \in Int
             /\ reg.max[x] \in Int /\ reg.seq[x] \in Int /\ p.max[x] \in Int
  BY <1>1, <1>3, NumbersOf, SomeNumber DEF NumbersInv
<1>5. ASSUME NEW x \in Topics
      PROVE  /\ x \in Counted(p) => x \in Observed(p) /\ p.max[x] >= p.seq[x]
             /\ x \notin Observed(p) => p.max[x] = 0
             /\ Base(p, x) >= issued[x]
             /\ x \in Observed(reg) /\ x \notin Observed(p) => Evictable(x)
             /\ x \in Observed(reg) /\ x \in Observed(p) => p.max[x] >= reg.max[x]
  <2>1. Base(p, x) >= issued[x]
    BY <1>3, <1>4
  <2>2. x = w => Evictable(x)
    BY <1>3, SeqBoundAssumption
  <2>3. CASE x = t
    BY <2>1, <2>3, <1>3, <1>4
  <2>4. CASE x # t
    BY <2>1, <2>2, <2>4, <1>3, <1>4
  <2> QED BY <2>3, <2>4
<1>6. NumbersInv'
  <2>1. /\ Registered(reg') /\ latched' \in BOOLEAN /\ clustered' \in BOOLEAN
        /\ prev' \in [Topics -> Numbers] /\ age' \in [Topics -> -1..2]
        /\ issued' \in [Topics -> Numbers]
    BY <1>1, <1>3 DEF NumbersInv
  <2> QED BY <2>1, <1>1, <1>5 DEF NumbersInv, Counted, Observed, Base, FloorOf
<1>7. StepIsJustified
  <2>1. \A x \in Topics : /\ Contains(reg.seenKeys, x) <=> x \in Observed(reg)
                          /\ Contains(p.seenKeys, x) <=> x \in Observed(p)
    <3>1. reg.seenKeys \in Seq(Topics) /\ p.seenKeys \in Seq(Topics)
      BY <1>1, <1>3, RegistryFields DEF Registered
    <3> QED BY <3>1, ContainsIs DEF Observed
  <2> QED BY <2>1, <1>5, <1>1 DEF StepIsJustified
<1> QED BY <1>6, <1>7

\* A subscriber or a resume buffer comes or goes.
LEMMA ProtectStep ==
  ASSUME NumbersInv, NEW t, Protect(t)
  PROVE  NumbersInv' /\ StepIsJustified
<1>1. UNCHANGED <<reg, latched, clustered, prev, age, issued>>
  BY DEF Protect
<1>2. NumbersInv'
  BY <1>1 DEF NumbersInv, Registered, Counted, Observed, Base, FloorOf
<1> QED BY <1>1, <1>2, StillIsJustified

\* The worker reports its observed numbers.
LEMMA ReportStep ==
  ASSUME NumbersInv, Report
  PROVE  NumbersInv' /\ StepIsJustified
<1>1. UNCHANGED <<reg, latched, clustered, issued>> /\ prev' = reg.max
  BY DEF Report
<1>2. prev' \in [Topics -> Numbers]
  BY <1>1, RegistryFields DEF NumbersInv, Registered
<1>3. age' \in [Topics -> -1..2]
  <2>1. ASSUME NEW k \in -1..2 PROVE Min({k + 1, 2}) \in -1..2
    <3>1. k + 1 \in Nat BY <2>1
    <3>2. Min({k + 1, 2}) \in {k + 1, 2} /\ Min({k + 1, 2}) <= 2
      BY <3>1, MinIs
    <3> QED BY <3>1, <3>2
  <2>2. \A t \in Topics : age[t] \in -1..2
    BY DEF NumbersInv
  <2> DEFINE new(t) == IF ~Contains(reg.seenKeys, t) THEN -1
                       ELSE IF prev[t] # reg.max[t] THEN 0
                       ELSE Min({age[t] + 1, 2})
  <2>3. \A t \in Topics : new(t) \in -1..2
    BY <2>1, <2>2
  <2>4. age' = [t \in Topics |-> new(t)]
    BY DEF Report
  <2> HIDE DEF new
  <2> QED BY <2>3, <2>4
<1>4. NumbersInv'
  BY <1>1, <1>2, <1>3 DEF NumbersInv, Registered, Counted, Observed, Base, FloorOf
<1> QED BY <1>1, <1>4, StillIsJustified

\* Every step keeps the invariant, and evicts only what may go.
LEMMA NumbersStep ==
  ASSUME NumbersInv, [Next]_vars
  PROVE  NumbersInv' /\ StepIsJustified
<1>1. CASE \E t \in Topics : Publish(t)
  BY <1>1, PublishStep
<1>2. CASE \E t \in Topics : \E n \in Foreign[t] : Observe(t, n)
  BY <1>2, ObserveStep
<1>3. CASE \E t \in Watched : Protect(t)
  BY <1>3, ProtectStep
<1>4. CASE Report
  BY <1>4, ReportStep
<1>5. CASE UNCHANGED vars
  <2>1. NumbersInv'
    BY <1>5 DEF vars, NumbersInv, Registered, Counted, Observed, Base, FloorOf
  <2> QED BY <1>5, <2>1, StillIsJustified DEF vars
<1> QED BY <1>1, <1>2, <1>3, <1>4, <1>5 DEF Next

\* The invariant holds at first.
LEMMA NumbersInit ==
  ASSUME Init
  PROVE  NumbersInv
<1>1. /\ <<>> \in Seq(Topics) /\ IsInjective(<<>>) /\ ToSet(<<>>) = {}
  BY DEF IsInjective, ToSet
<1>2. 0 \in Numbers /\ 0 \in 0..Backoff
  BY SomeNumber, SeqBoundAssumption
<1>3. /\ reg.seqKeys = <<>> /\ reg.seenKeys = <<>> /\ reg \in Registry
      /\ \A t \in Topics : reg.seq[t] = 0 /\ reg.max[t] = 0
  BY <1>1, <1>2 DEF Init, Registry, Hashes
<1>4. Registered(reg)
  BY <1>1, <1>3 DEF Registered
<1>5. Counted(reg) = {} /\ Observed(reg) = {}
  BY <1>1, <1>3 DEF Counted, Observed
<1>6. latched = FALSE /\ clustered \in BOOLEAN /\ prev \in [Topics -> Numbers]
      /\ age \in [Topics -> -1..2] /\ issued \in [Topics -> Numbers]
      /\ \A t \in Topics : issued[t] = 0
  BY <1>2 DEF Init
<1>7. \A t \in Topics : Base(reg, t) >= 0
  BY <1>4, NumbersOf
<1> QED BY <1>3, <1>4, <1>5, <1>6, <1>7 DEF NumbersInv

\* So it holds at all times.
LEMMA NumbersInvHolds == Spec => []NumbersInv
<1>1. Init => NumbersInv BY NumbersInit
<1>2. NumbersInv /\ [Next]_vars => NumbersInv' BY NumbersStep
<1> QED BY <1>1, <1>2, PTL DEF Spec

\* A number of a topic is not issued twice, whatever was evicted in between, whatever
\* names collide and whatever floors were absorbed: the worker's counter promises it to
\* every client that holds an offset (stampSeqValue, evict, recordFloor, floorOf).
THEOREM NumbersNeverRepeat == Spec => []NeverRepeats
<1>1. ASSUME NumbersInv PROVE NeverRepeats
  <2>1. Registered(reg) /\ reg \in Registry /\ IsInjective(reg.seqKeys) /\ IsInjective(reg.seenKeys)
    BY <1>1 DEF NumbersInv, Registered
  <2>2. /\ reg.seqKeys \in Seq(Topics) /\ reg.seenKeys \in Seq(Topics)
        /\ reg.seq \in [Topics -> Numbers] /\ reg.max \in [Topics -> Numbers]
        /\ reg.highWater \in Numbers
        /\ reg.skipSeq \in 0..Backoff /\ reg.skipSeen \in 0..Backoff
    BY <2>1, RegistryFields
  <2>3. TypeOK
    <3>1. \A keys \in Seq(Topics) : ToSet(keys) \subseteq Topics
      BY ToSetIs
    <3> QED BY <1>1, <2>1, <2>2, <3>1 DEF TypeOK, NumbersInv
  <2>4. RegistriesAgree
    <3>1. \A t \in Topics : /\ Contains(reg.seqKeys, t) <=> t \in Counted(reg)
                            /\ Contains(reg.seenKeys, t) <=> t \in Observed(reg)
      BY <2>2, ContainsIs DEF Counted, Observed
    <3> QED BY <1>1, <3>1 DEF RegistriesAgree, NumbersInv
  <2>5. ASSUME NEW t \in Topics PROVE NextNumber(reg, t) > issued[t]
    <3>1. NextNumber(reg, t) = Base(reg, t) + 1 /\ Base(reg, t) \in Int
      BY <2>1, NextIs, SomeNumber
    <3>2. Base(reg, t) >= issued[t] /\ issued[t] \in Int
      BY <1>1, SomeNumber DEF NumbersInv
    <3> QED BY <3>1, <3>2
  <2> QED BY <2>3, <2>4, <2>5 DEF NeverRepeats
<1> QED BY <1>1, NumbersInvHolds, PTL

\* A topic with a listener, or one the reporter has not judged quiet, is not evicted, and
\* what is observed of a topic that stays does not fall (evictOldestUnprotected, recordSeen,
\* recordStampedSeen with its latch).
THEOREM OnlyTheQuietLeave == Spec => EvictionIsJustified
<1>1. NumbersInv /\ [Next]_vars => [StepIsJustified]_vars
  BY NumbersStep
<1> QED BY <1>1, NumbersInvHolds, PTL DEF Spec, EvictionIsJustified, StepIsJustified

(***************************************************************************)
(* The cut-over of a recovering client                                     *)
(***************************************************************************)
\* The capture holds every frame published since it was opened, up to its cap;
\* what the hook reported lies in the window.
CaptureInv(b, newest) ==
    /\ \E m \in b.before..newest : b.frames = (b.before + 1)..m /\ (b.overflow \/ m = newest)
    /\ b.overflow => Cardinality(b.frames) >= MaxFrames
    /\ b.covered >= 0 => b.covered \in b.before..newest

\* How far a client has got whose landing is awaited, and which nothing raced.
RecoveryInv(b, n) ==
    /\ b.hook = "awaited" => n = b.offset
    /\ b.hook = "read" => b.covered >= 0
    /\ b.hook \in {"read", "returned"} => n >= b.before /\ (b.covered >= 0 => n = b.covered)

ClientInv(c) ==
    /\ seen[c] <= log
    /\ phase[c] = "resuming" <=> buffer[c].hook # "none"
    /\ joined[c] => phase[c] \in {"resuming", "live"}
    /\ phase[c] = "live" => joined[c]
    /\ phase[c] = "resuming" => CaptureInv(buffer[c], log)
    /\ waived[c] = {} =>
          /\ missed[c] = {} /\ ~again[c]
          /\ phase[c] = "live" => seen[c] = log
          /\ phase[c] = "resuming" => ~joined[c] /\ RecoveryInv(buffer[c], seen[c])

ResumeInv == ResumeTypeOK /\ \A c \in Clients : ClientInv(c)

\* One client's part of the types.
ClientTypes(c) ==
    /\ phase[c] \in {"away", "resuming", "live", "closed"} /\ joined[c] \in BOOLEAN
    /\ buffer[c].frames \subseteq 1..MaxLogged /\ buffer[c].overflow \in BOOLEAN
    /\ buffer[c].before \in 0..MaxLogged /\ buffer[c].offset \in 0..MaxLogged
    /\ buffer[c].covered \in -1..MaxLogged
    /\ buffer[c].hook \in {"none", "awaited", "read", "returned"}
    /\ seen[c] \in 0..MaxLogged /\ missed[c] \subseteq 1..MaxLogged
    /\ again[c] \in BOOLEAN /\ waived[c] \subseteq {"raced", "threw"}
    /\ log \in 0..MaxLogged /\ MaxLogged \in Nat /\ MaxFrames \in Nat

\* The types of what one client holds.
LEMMA TypesOfOne ==
  ASSUME ResumeTypeOK, NEW c \in Clients
  PROVE  ClientTypes(c) /\ buffer[c] \in Entries
<1>1. /\ phase[c] \in {"away", "resuming", "live", "closed"} /\ joined[c] \in BOOLEAN
      /\ seen[c] \in 0..MaxLogged /\ missed[c] \subseteq 1..MaxLogged
      /\ again[c] \in BOOLEAN /\ waived[c] \subseteq {"raced", "threw"}
      /\ log \in 0..MaxLogged
  BY DEF ResumeTypeOK
<1>2. buffer[c] \in Entries
  BY DEF ResumeTypeOK
<1> QED
  BY <1>1, <1>2, ResumeAssumption DEF ResumeAssumption, ClientTypes, Entries

\* A client whose own state rests keeps its part while nothing is published.
LEMMA ClientRests ==
  ASSUME NEW c \in Clients, ClientInv(c), log' = log,
         phase'[c] = phase[c], joined'[c] = joined[c], buffer'[c] = buffer[c],
         seen'[c] = seen[c], missed'[c] = missed[c], again'[c] = again[c],
         waived'[c] = waived[c]
  PROVE  ClientInv(c)'
  BY DEF ClientInv, CaptureInv, RecoveryInv

\* A client that is handed a run of frames: how far it gets, what it skips, and
\* what it sees twice.
LEMMA ReceiveRun ==
  ASSUME NEW v, v.seen \in 0..MaxLogged, v.missed \subseteq 1..MaxLogged, v.again \in BOOLEAN,
         MaxLogged \in Nat, NEW a \in 1..(MaxLogged + 1), NEW z \in 0..MaxLogged
  PROVE  LET w == Res!Receive(v, a..z) IN
         /\ w.seen = IF a <= z /\ z > v.seen THEN z ELSE v.seen
         /\ w.missed \subseteq 1..MaxLogged /\ w.again \in BOOLEAN
         /\ v.missed = {} /\ a <= v.seen + 1 => w.missed = {}
         /\ ~v.again /\ a > v.seen => ~w.again
<1> DEFINE S == (a..z) \cup {v.seen}
           top == IF a <= z /\ z > v.seen THEN z ELSE v.seen
           w == Res!Receive(v, a..z)
<1>1. top \in S /\ \A y \in S : top >= y
  OBVIOUS
<1>2. \A x \in S : (\A y \in S : x >= y) => x = top
  BY <1>1
<1>3. Res!Max(S) = top
  BY <1>1, <1>2 DEF Res!Max
<1>4. /\ w.seen = top
      /\ w.missed = (v.missed \cup (v.seen + 1)..top) \ (a..z)
      /\ w.again = (v.again \/ \E s \in a..z : s <= v.seen /\ s \notin v.missed)
  BY <1>3 DEF Res!Receive
<1> HIDE DEF w, S
<1>5. w.missed \subseteq 1..MaxLogged
  BY <1>4
<1>6. v.missed = {} /\ a <= v.seen + 1 => w.missed = {}
  BY <1>4
<1>7. w.again \in BOOLEAN /\ (~v.again /\ a > v.seen => ~w.again)
  BY <1>4
<1> QED
  BY <1>4, <1>5, <1>6, <1>7 DEF w

\* All that a step of one client leaves alone.
OthersRest(c) ==
    /\ log' = log
    /\ \A d \in Clients \ {c} :
          /\ phase'[d] = phase[d] /\ joined'[d] = joined[d] /\ buffer'[d] = buffer[d]
          /\ seen'[d] = seen[d] /\ missed'[d] = missed[d] /\ again'[d] = again[d]
          /\ waived'[d] = waived[d]

\* A step of one client that leaves the others where they are.
LEMMA OneMoves ==
  ASSUME ResumeInv, NEW c \in Clients, ResumeTypeOK', OthersRest(c), ClientInv(c)'
  PROVE  ResumeInv'
  BY ClientRests DEF ResumeInv, OthersRest

\* An entry without frames fits.
LEMMA EmptyFits ==
  /\ Res!NoBuffer \in Entries /\ Cardinality(Res!NoBuffer.frames) <= MaxFrames
  /\ Res!NoBuffer.hook = "none"
  /\ Cardinality({}) <= MaxFrames
<1>1. Cardinality({}) = 0
  BY FS_EmptySet
<1>2. Res!NoBuffer \in Entries /\ Res!NoBuffer.hook = "none" /\ Res!NoBuffer.frames = {}
  BY ResumeAssumption DEF Res!NoBuffer, ResumeAssumption, Entries
<1> QED
  BY <1>1, <1>2, ResumeAssumption DEF ResumeAssumption

\* The invariant holds at first.
LEMMA ResumeStarts ==
  ASSUME Res!Init
  PROVE  ResumeInv
<1>1. ResumeTypeOK
  BY EmptyFits, ResumeAssumption DEF Res!Init, ResumeTypeOK, ResumeAssumption
<1>2. \A c \in Clients : ClientInv(c)
  BY EmptyFits DEF Res!Init, ClientInv
<1> QED
  BY <1>1, <1>2 DEF ResumeInv

\* A recovery begins.
LEMMA BeginKeeps ==
  ASSUME ResumeInv, NEW c \in Clients, Res!Begin(c)
  PROVE  ResumeInv'
<1> DEFINE b == [frames |-> {}, overflow |-> FALSE, before |-> log,
                 offset |-> seen[c], covered |-> -1, hook |-> "awaited"]
<1>1. ClientTypes(c) /\ ClientInv(c) /\ phase[c] = "away"
  BY TypesOfOne DEF ResumeInv, Res!Begin
<1>2. b \in Entries /\ Cardinality(b.frames) <= MaxFrames
  BY <1>1, EmptyFits DEF ClientTypes, Entries
<1>3. /\ phase' = [phase EXCEPT ![c] = "resuming"] /\ buffer' = [buffer EXCEPT ![c] = b]
      /\ UNCHANGED <<log, joined, seen, missed, again, waived>>
  BY DEF Res!Begin
<1>4. CaptureInv(b, log') /\ RecoveryInv(b, seen[c])
  <2>1. (log + 1)..log = {}
    BY <1>1 DEF ClientTypes
  <2> QED
    BY <1>1, <1>3, <2>1 DEF CaptureInv, RecoveryInv, ClientTypes
<1> HIDE DEF b
<1>5. ResumeTypeOK' /\ OthersRest(c) /\ buffer'[c] = b /\ phase'[c] = "resuming"
  BY <1>2, <1>3 DEF ResumeInv, ResumeTypeOK, OthersRest
<1>6. b.hook # "none"
  BY DEF b
<1>7. ClientInv(c)'
  BY <1>1, <1>3, <1>4, <1>5, <1>6 DEF ClientInv
<1> QED
  BY <1>5, <1>7, OneMoves

\* The hook returns.
LEMMA HookReturnsKeeps ==
  ASSUME ResumeInv, NEW c \in Clients, Res!HookReturns(c)
  PROVE  ResumeInv'
<1>1. ClientTypes(c) /\ buffer[c] \in Entries /\ ClientInv(c) /\ buffer[c].hook = "read"
  BY TypesOfOne DEF ResumeInv, Res!HookReturns
<1>2. PICK n \in {-1, buffer[c].covered} :
        buffer' = [buffer EXCEPT ![c] = Res!HookAt(@, "returned", n)]
  BY DEF Res!HookReturns
<1> DEFINE b == Res!HookAt(buffer[c], "returned", n)
<1>3. /\ b \in Entries /\ b.frames = buffer[c].frames /\ b.overflow = buffer[c].overflow
      /\ b.before = buffer[c].before /\ b.offset = buffer[c].offset
      /\ b.covered = n /\ b.hook = "returned"
  BY <1>1 DEF ClientTypes, Entries, Res!HookAt
<1>4. buffer' = [buffer EXCEPT ![c] = b]
  BY <1>2
<1> HIDE DEF b
<1>5. UNCHANGED <<log, phase, joined, seen, missed, again, waived>>
  BY DEF Res!HookReturns
<1>6. ResumeTypeOK' /\ OthersRest(c) /\ buffer'[c] = b
  BY <1>3, <1>4, <1>5 DEF ResumeInv, ResumeTypeOK, OthersRest
<1>7. CaptureInv(b, log')
  BY <1>1, <1>3, <1>5 DEF ClientInv, CaptureInv, ClientTypes
<1>8. waived[c] = {} => RecoveryInv(b, seen[c])
  BY <1>1, <1>3 DEF ClientInv, RecoveryInv
<1>9. ClientInv(c)'
  BY <1>1, <1>3, <1>5, <1>6, <1>7, <1>8 DEF ClientInv
<1> QED
  BY <1>6, <1>9, OneMoves

\* The hook throws.
LEMMA HookThrowsKeeps ==
  ASSUME ResumeInv, NEW c \in Clients, Res!HookThrows(c)
  PROVE  ResumeInv'
<1> DEFINE b == Res!HookAt(buffer[c], "returned", buffer[c].covered)
<1>1. ClientTypes(c) /\ buffer[c] \in Entries /\ ClientInv(c) /\ buffer[c].hook = "awaited"
  BY TypesOfOne DEF ResumeInv, Res!HookThrows
<1>2. /\ b \in Entries /\ b.frames = buffer[c].frames /\ b.overflow = buffer[c].overflow
      /\ b.before = buffer[c].before /\ b.covered = buffer[c].covered /\ b.hook = "returned"
  BY <1>1 DEF ClientTypes, Entries, Res!HookAt
<1>3. /\ buffer' = [buffer EXCEPT ![c] = b]
      /\ waived' = [waived EXCEPT ![c] = @ \cup {"threw"}]
      /\ UNCHANGED <<log, phase, joined, seen, missed, again>>
  BY DEF Res!HookThrows
<1> HIDE DEF b
<1>4. /\ ResumeTypeOK' /\ OthersRest(c) /\ buffer'[c] = b
      /\ waived'[c] # {}
  BY <1>2, <1>3 DEF ResumeInv, ResumeTypeOK, OthersRest
<1>5. CaptureInv(b, log')
  BY <1>1, <1>2, <1>3 DEF ClientInv, CaptureInv, ClientTypes
<1>6. ClientInv(c)'
  BY <1>1, <1>2, <1>3, <1>4, <1>5 DEF ClientInv
<1> QED
  BY <1>4, <1>6, OneMoves

\* Another install takes the recovery over.
LEMMA OtherInstallKeeps ==
  ASSUME ResumeInv, NEW c \in Clients, Res!OtherInstall(c)
  PROVE  ResumeInv'
<1>1. ClientInv(c) /\ phase[c] = "resuming"
  BY DEF ResumeInv, Res!OtherInstall
<1>2. /\ joined' = [joined EXCEPT ![c] = TRUE]
      /\ waived' = [waived EXCEPT ![c] = @ \cup {"raced"}]
      /\ UNCHANGED <<log, phase, buffer, seen, missed, again>>
  BY DEF Res!OtherInstall
<1>3. ResumeTypeOK' /\ OthersRest(c) /\ joined'[c] /\ waived'[c] # {}
  BY <1>2 DEF ResumeInv, ResumeTypeOK, OthersRest
<1>4. ClientInv(c)'
  BY <1>1, <1>2, <1>3 DEF ClientInv, CaptureInv
<1> QED
  BY <1>3, <1>4, OneMoves

\* The landings that do not flush, the close and the new connection: none of
\* them hands the client a frame.
LEMMA QuietMoveKeeps ==
  ASSUME ResumeInv, NEW c \in Clients,
         Res!LandHeld(c) \/ Res!LandRefused(c) \/ Res!Close(c) \/ Res!Reconnect(c)
  PROVE  ResumeInv'
<1>1. ClientTypes(c) /\ ClientInv(c) /\ Res!NoBuffer \in Entries
      /\ Cardinality(Res!NoBuffer.frames) <= MaxFrames /\ Res!NoBuffer.hook = "none"
  BY TypesOfOne, EmptyFits DEF ResumeInv
<1>2. UNCHANGED <<log, seen, missed, again, waived>>
  BY DEF Res!LandHeld, Res!LandRefused, Res!Close, Res!Reconnect
<1>3. CASE Res!LandHeld(c)
  <2>1. /\ buffer[c].hook = "returned" /\ joined[c] /\ joined' = joined
        /\ phase' = [phase EXCEPT ![c] = "live"]
        /\ buffer' = [buffer EXCEPT ![c] = Res!NoBuffer]
    BY <1>3 DEF Res!LandHeld
  <2>2. /\ ResumeTypeOK' /\ OthersRest(c)
        /\ phase'[c] = "live" /\ buffer'[c] = Res!NoBuffer
    BY <1>1, <1>2, <2>1 DEF ResumeInv, ResumeTypeOK, OthersRest
  <2>3. ClientInv(c)'
    BY <1>1, <1>2, <2>1, <2>2 DEF ClientInv
  <2> QED
    BY <2>2, <2>3, OneMoves
<1>4. CASE Res!LandRefused(c)
  <2>1. /\ ~joined[c] /\ joined' = joined
        /\ phase' = [phase EXCEPT ![c] = "away"]
        /\ buffer' = [buffer EXCEPT ![c] = Res!NoBuffer]
    BY <1>4 DEF Res!LandRefused
  <2>2. /\ ResumeTypeOK' /\ OthersRest(c)
        /\ phase'[c] = "away" /\ buffer'[c] = Res!NoBuffer
    BY <1>1, <1>2, <2>1 DEF ResumeInv, ResumeTypeOK, OthersRest
  <2>3. ClientInv(c)'
    BY <1>1, <1>2, <2>1, <2>2 DEF ClientInv
  <2> QED
    BY <2>2, <2>3, OneMoves
<1>5. CASE Res!Close(c)
  <2>1. /\ joined' = [joined EXCEPT ![c] = FALSE]
        /\ phase' = [phase EXCEPT ![c] = "closed"]
        /\ buffer' = [buffer EXCEPT ![c] = Res!NoBuffer]
    BY <1>5 DEF Res!Close
  <2>2. /\ ResumeTypeOK' /\ OthersRest(c)
        /\ phase'[c] = "closed" /\ buffer'[c] = Res!NoBuffer /\ ~joined'[c]
    BY <1>1, <1>2, <2>1 DEF ResumeInv, ResumeTypeOK, OthersRest
  <2>3. ClientInv(c)'
    BY <1>1, <1>2, <2>2 DEF ClientInv
  <2> QED
    BY <2>2, <2>3, OneMoves
<1>6. CASE Res!Reconnect(c)
  <2>1. /\ phase[c] = "closed" /\ joined' = joined /\ buffer' = buffer
        /\ phase' = [phase EXCEPT ![c] = "away"]
    BY <1>6 DEF Res!Reconnect
  <2>2. ResumeTypeOK' /\ OthersRest(c) /\ phase'[c] = "away"
    BY <1>1, <1>2, <2>1 DEF ResumeInv, ResumeTypeOK, OthersRest
  <2>3. ClientInv(c)'
    BY <1>1, <1>2, <2>1, <2>2 DEF ClientInv
  <2> QED
    BY <2>2, <2>3, OneMoves
<1> QED
  BY <1>3, <1>4, <1>5, <1>6

\* The client's view as a record, and what a step that sets it leaves.
LEMMA ViewOfOne ==
  ASSUME ResumeTypeOK, NEW c \in Clients
  PROVE  /\ Res!View(c).seen = seen[c] /\ Res!View(c).missed = missed[c]
         /\ Res!View(c).again = again[c]
  BY DEF Res!View

\* The hook reads what it is to replay.
LEMMA HookReadsKeeps ==
  ASSUME ResumeInv, NEW c \in Clients, Res!HookReads(c)
  PROVE  ResumeInv'
<1> DEFINE b == Res!HookAt(buffer[c], "read", log)
           w == Res!Receive(Res!View(c), (buffer[c].offset + 1)..log)
<1>1. ClientTypes(c) /\ buffer[c] \in Entries /\ ClientInv(c) /\ buffer[c].hook = "awaited"
  BY TypesOfOne DEF ResumeInv, Res!HookReads
<1>2. /\ b \in Entries /\ b.frames = buffer[c].frames /\ b.overflow = buffer[c].overflow
      /\ b.before = buffer[c].before /\ b.covered = log /\ b.hook = "read"
  BY <1>1 DEF ClientTypes, Entries, Res!HookAt
<1>3. /\ buffer' = [buffer EXCEPT ![c] = b]
      /\ seen' = [seen EXCEPT ![c] = w.seen]
      /\ missed' = [missed EXCEPT ![c] = w.missed]
      /\ again' = [again EXCEPT ![c] = w.again]
      /\ UNCHANGED <<log, phase, joined, waived>>
  BY DEF Res!HookReads, Res!SetView
<1>4. /\ buffer[c].offset + 1 \in 1..(MaxLogged + 1) /\ log \in 0..MaxLogged
      /\ MaxLogged \in Nat
  BY <1>1 DEF ClientTypes
<1>5. /\ w.seen = IF buffer[c].offset + 1 <= log /\ log > seen[c] THEN log ELSE seen[c]
      /\ w.missed \subseteq 1..MaxLogged /\ w.again \in BOOLEAN
      /\ missed[c] = {} /\ buffer[c].offset + 1 <= seen[c] + 1 => w.missed = {}
      /\ ~again[c] /\ buffer[c].offset + 1 > seen[c] => ~w.again
  <2>1. /\ Res!View(c).seen = seen[c] /\ Res!View(c).missed = missed[c]
        /\ Res!View(c).again = again[c]
    BY ViewOfOne DEF ResumeInv
  <2>2. /\ Res!View(c).seen \in 0..MaxLogged /\ Res!View(c).missed \subseteq 1..MaxLogged
        /\ Res!View(c).again \in BOOLEAN
    BY <1>1, <2>1 DEF ClientTypes
  <2> QED
    BY <1>4, <2>1, <2>2, ReceiveRun
<1> HIDE DEF b, w
<1>6. w.seen \in 0..MaxLogged /\ w.seen <= log
  BY <1>1, <1>5 DEF ClientTypes, ClientInv
<1>7. /\ ResumeTypeOK' /\ OthersRest(c) /\ buffer'[c] = b
      /\ seen'[c] = w.seen /\ missed'[c] = w.missed /\ again'[c] = w.again
  <2>1. Cardinality(b.frames) <= MaxFrames
    BY <1>2 DEF ResumeInv, ResumeTypeOK
  <2> QED
    BY <1>2, <1>3, <1>5, <1>6, <2>1 DEF ResumeInv, ResumeTypeOK, OthersRest
<1>8. CaptureInv(b, log')
  BY <1>1, <1>2, <1>3 DEF ClientInv, CaptureInv, ClientTypes
<1>9. ASSUME waived[c] = {}
      PROVE  w.missed = {} /\ ~w.again /\ ~joined[c] /\ RecoveryInv(b, w.seen)
  <2>1. /\ missed[c] = {} /\ ~again[c] /\ ~joined[c] /\ seen[c] = buffer[c].offset
        /\ seen[c] <= log /\ buffer[c].before <= log
    BY <1>1, <1>9 DEF ClientInv, RecoveryInv, CaptureInv, ClientTypes
  <2>2. w.seen = log
    BY <1>1, <1>5, <2>1 DEF ClientTypes
  <2>3. /\ buffer[c].offset + 1 <= seen[c] + 1 /\ buffer[c].offset + 1 > seen[c]
    BY <1>1, <2>1 DEF ClientTypes
  <2>4. w.missed = {} /\ ~w.again
    BY <1>5, <2>1, <2>3
  <2> QED
    BY <1>1, <1>2, <2>1, <2>2, <2>4 DEF RecoveryInv, ClientTypes
<1>10. ClientInv(c)'
  BY <1>1, <1>2, <1>3, <1>6, <1>7, <1>8, <1>9 DEF ClientInv
<1> QED
  BY <1>7, <1>10, OneMoves

\* A run of numbers grows at its end.
LEMMA RunGrows ==
  ASSUME NEW i \in Int, NEW j \in Int, i <= j + 1
  PROVE  (i..j) \cup {j + 1} = i..(j + 1) /\ j + 1 \notin i..j
  OBVIOUS

\* The instance counts as the module does.
LEMMA SameCount == \A S : Res!Cardinality(S) = Cardinality(S)
  BY DEF Res!Cardinality, Cardinality

\* A captured frame fits, or marks the overflow.
LEMMA CaptureFits ==
  ASSUME ResumeTypeOK, log < MaxLogged, NEW b \in Entries, CaptureInv(b, log),
         Cardinality(b.frames) <= MaxFrames
  PROVE  /\ Res!Capture(b, log + 1) \in Entries
         /\ Cardinality(Res!Capture(b, log + 1).frames) <= MaxFrames
         /\ CaptureInv(Res!Capture(b, log + 1), log + 1)
         /\ Res!Capture(b, log + 1).hook = b.hook
         /\ \A n : RecoveryInv(b, n) => RecoveryInv(Res!Capture(b, log + 1), n)
<1> DEFINE e == Res!Capture(b, log + 1)
<1>1. /\ log \in 0..MaxLogged /\ MaxLogged \in Nat /\ MaxFrames \in Nat
      /\ b.frames \subseteq 1..MaxLogged /\ b.before \in 0..MaxLogged
      /\ b.covered \in -1..MaxLogged
  BY ResumeAssumption DEF ResumeTypeOK, ResumeAssumption, Entries
<1>2. PICK m \in b.before..log :
        b.frames = (b.before + 1)..m /\ (b.overflow \/ m = log)
  BY DEF CaptureInv
<1>3. IsFiniteSet(b.frames) /\ Cardinality(b.frames) \in Nat
  <2>1. b.before + 1 \in Int /\ m \in Int
    BY <1>1
  <2>2. IsFiniteSet((b.before + 1)..m)
    BY <2>1, FS_Interval
  <2> QED
    BY <1>2, <2>2, FS_CardinalityType
<1>4. /\ e.before = b.before /\ e.offset = b.offset /\ e.covered = b.covered
      /\ e.hook = b.hook
  BY DEF Res!Capture, Res!Holding
<1>5. CASE Cardinality(b.frames) >= MaxFrames
  <2>1. e = Res!Holding(b, b.frames, TRUE)
    BY <1>5, SameCount DEF Res!Capture
  <2>4. e.frames = b.frames /\ e.overflow = TRUE
    BY <2>1 DEF Res!Holding
  <2>5. Res!Holding(b, b.frames, TRUE) \in Entries
    BY DEF Res!Holding, Entries
  <2>3. e.frames = b.frames /\ e.overflow /\ e \in Entries
    BY <2>1, <2>4, <2>5
  <2>2. CaptureInv(e, log + 1)
    BY <1>1, <1>2, <1>4, <1>5, <2>3 DEF CaptureInv
  <2> HIDE DEF e
  <2> QED
    BY <1>4, <1>5, <2>2, <2>3 DEF e, RecoveryInv
<1>6. CASE ~(Cardinality(b.frames) >= MaxFrames)
  <2>8. e = Res!Holding(b, b.frames \cup {log + 1}, b.overflow)
    BY <1>6, SameCount DEF Res!Capture
  <2>1. e.frames = b.frames \cup {log + 1} /\ e.overflow = b.overflow
    BY <2>8 DEF Res!Holding
  <2>2. e \in Entries
    BY <1>1, <1>6 DEF Res!Capture, Res!Holding, Entries
  <2>3. ~b.overflow /\ m = log
    BY <1>2, <1>6 DEF CaptureInv
  <2>9. b.frames = (b.before + 1)..log /\ b.before <= log
    BY <1>1, <1>2, <2>3
  <2>4. e.frames = (b.before + 1)..(log + 1) /\ log + 1 \notin b.frames
    <3>1. b.before + 1 \in Int /\ log \in Int /\ b.before + 1 <= log + 1
      BY <1>1, <2>9
    <3> QED
      BY <2>1, <2>9, <3>1, RunGrows
  <2>5. Cardinality(e.frames) = Cardinality(b.frames) + 1
    BY <1>3, <2>1, <2>4, FS_AddElement
  <2>6. Cardinality(e.frames) <= MaxFrames
    BY <1>1, <1>3, <1>6, <2>5
  <2>7. CaptureInv(e, log + 1)
    <3>1. log + 1 \in e.before..(log + 1)
      BY <1>1, <1>2, <1>4
    <3>2. e.covered >= 0 => e.covered \in e.before..(log + 1)
      BY <1>1, <1>4 DEF CaptureInv
    <3> QED
      BY <1>4, <2>1, <2>3, <2>4, <3>1, <3>2 DEF CaptureInv
  <2> HIDE DEF e
  <2> QED
    BY <1>4, <2>2, <2>6, <2>7 DEF e, RecoveryInv
<1> QED
  BY <1>5, <1>6

\* A frame is published.
LEMMA PublishKeeps ==
  ASSUME ResumeInv, Res!Publish
  PROVE  ResumeInv'
<1> DEFINE to == {c \in Clients : joined[c] /\ phase[c] \in {"resuming", "live"}}
           v(c) == IF c \in to THEN Res!Receive(Res!View(c), {log + 1}) ELSE Res!View(c)
           b(c) == IF phase[c] = "resuming" THEN Res!Capture(buffer[c], log + 1) ELSE buffer[c]
<1>1. /\ log < MaxLogged /\ log' = log + 1
      /\ seen' = [c \in Clients |-> v(c).seen]
      /\ missed' = [c \in Clients |-> v(c).missed]
      /\ again' = [c \in Clients |-> v(c).again]
      /\ buffer' = [c \in Clients |-> b(c)]
      /\ UNCHANGED <<phase, joined, waived>>
  BY DEF Res!Publish
<1>2. ASSUME NEW c \in Clients
      PROVE  /\ v(c).seen \in 0..MaxLogged /\ v(c).missed \in SUBSET (1..MaxLogged)
             /\ v(c).again \in BOOLEAN /\ v(c).seen <= log + 1
             /\ waived[c] = {} =>
                   /\ v(c).missed = {} /\ ~v(c).again
                   /\ phase[c] = "live" => v(c).seen = log + 1
                   /\ phase[c] = "resuming" => v(c).seen = seen[c]
  <2>1. ClientTypes(c) /\ ClientInv(c)
    BY TypesOfOne DEF ResumeInv
  <2>2. /\ Res!View(c).seen = seen[c] /\ Res!View(c).missed = missed[c]
        /\ Res!View(c).again = again[c]
    BY ViewOfOne DEF ResumeInv
  <2>3. CASE c \notin to
    BY <2>1, <2>2, <2>3 DEF ClientTypes, ClientInv
  <2>4. CASE c \in to
    <3> DEFINE w == Res!Receive(Res!View(c), (log + 1)..(log + 1))
    <3>1. /\ log + 1 \in 1..(MaxLogged + 1) /\ log + 1 \in 0..MaxLogged
          /\ (log + 1)..(log + 1) = {log + 1}
      BY <1>1, <2>1 DEF ClientTypes
    <3>2. v(c) = w
      BY <2>4, <3>1
    <3>3. /\ Res!View(c).seen \in 0..MaxLogged /\ Res!View(c).missed \subseteq 1..MaxLogged
          /\ Res!View(c).again \in BOOLEAN /\ MaxLogged \in Nat
      BY <2>1, <2>2 DEF ClientTypes
    <3>4. /\ w.seen = IF log + 1 <= log + 1 /\ log + 1 > seen[c] THEN log + 1 ELSE seen[c]
          /\ w.missed \subseteq 1..MaxLogged /\ w.again \in BOOLEAN
          /\ missed[c] = {} /\ log + 1 <= seen[c] + 1 => w.missed = {}
          /\ ~again[c] /\ log + 1 > seen[c] => ~w.again
      BY ZenonT(60), <2>2, <3>1, <3>3, ReceiveRun
    <3> HIDE DEF w, v
    <3>5. w.seen = log + 1 /\ w.seen \in 0..MaxLogged
      BY <1>1, <2>1, <3>4 DEF ClientTypes, ClientInv
    <3>6. ASSUME waived[c] = {}
          PROVE  w.missed = {} /\ ~w.again /\ phase[c] = "live"
      BY <2>1, <2>4, <3>4, <3>6 DEF ClientTypes, ClientInv
    <3> QED
      BY <2>1, <3>2, <3>4, <3>5, <3>6 DEF ClientTypes
  <2> QED
    BY <2>3, <2>4
<1>3. ASSUME NEW c \in Clients
      PROVE  /\ b(c) \in Entries /\ Cardinality(b(c).frames) <= MaxFrames
             /\ b(c).hook = buffer[c].hook
             /\ phase[c] = "resuming" => CaptureInv(b(c), log + 1)
             /\ \A n : phase[c] = "resuming" /\ RecoveryInv(buffer[c], n) => RecoveryInv(b(c), n)
  <2>1. ResumeTypeOK /\ ClientInv(c) /\ buffer[c] \in Entries
        /\ Cardinality(buffer[c].frames) <= MaxFrames
    BY DEF ResumeInv, ResumeTypeOK
  <2> QED
    BY <1>1, <2>1, CaptureFits DEF ClientInv
<1> HIDE DEF v, b
<1>4. ResumeTypeOK'
  <2>1. log' \in 0..MaxLogged
    BY <1>1, ResumeAssumption DEF ResumeInv, ResumeTypeOK, ResumeAssumption
  <2>2. /\ seen' \in [Clients -> 0..MaxLogged] /\ missed' \in [Clients -> SUBSET (1..MaxLogged)]
        /\ again' \in [Clients -> BOOLEAN]
    BY <1>1, <1>2
  <2>3. /\ buffer' \in [Clients -> Entries]
        /\ \A c \in Clients : Cardinality(buffer'[c].frames) <= MaxFrames
    BY <1>1, <1>3
  <2> QED
    BY <1>1, <2>1, <2>2, <2>3 DEF ResumeInv, ResumeTypeOK
<1>5. ASSUME NEW c \in Clients
      PROVE  ClientInv(c)'
  <2>1. ClientInv(c)
    BY DEF ResumeInv
  <2>2. /\ seen'[c] = v(c).seen /\ missed'[c] = v(c).missed /\ again'[c] = v(c).again
        /\ buffer'[c] = b(c)
    BY <1>1
  <2> QED
    BY <1>1, <1>2, <1>3, <2>1, <2>2 DEF ClientInv
<1> QED
  BY <1>4, <1>5 DEF ResumeInv

\* The frames a socket takes of a flush are a run that starts above the floor,
\* which the client has reached; all of them reach the newest frame.
LEMMA TakenIsARun ==
  ASSUME ResumeInv, NEW c \in Clients, phase[c] = "resuming", NEW upto \in Nat
  PROVE  \E z \in 0..log :
            /\ {s \in Res!Held(buffer[c]) : s <= upto} = (Res!Floor(buffer[c]) + 1)..z
            /\ ~buffer[c].overflow /\ {s \in Res!Held(buffer[c]) : s <= upto} = Res!Held(buffer[c])
                  => z = log
<1> DEFINE b == buffer[c]
           f == Res!Floor(b)
<1>1. ClientTypes(c) /\ CaptureInv(b, log)
  BY TypesOfOne DEF ResumeInv, ClientInv
<1>2. /\ log \in Nat /\ b.before \in Nat /\ b.covered \in Int /\ b.overflow \in BOOLEAN
  BY <1>1 DEF ClientTypes
<1>3. f = IF b.covered >= 0 THEN b.covered ELSE b.before
  BY DEF Res!Floor
<1>4. PICK m \in b.before..log : b.frames = (b.before + 1)..m /\ (b.overflow \/ m = log)
  BY <1>1 DEF CaptureInv
<1>5. f \in b.before..log
  BY <1>1, <1>2, <1>3, <1>4 DEF CaptureInv
<1>6. Res!Held(b) = {s \in b.frames : s > f}
  BY DEF Res!Held
<1> HIDE DEF f, b
<1>7. Res!Held(b) = (f + 1)..m
  BY <1>2, <1>4, <1>5, <1>6
<1>8. CASE upto >= m
  <2>1. {s \in Res!Held(b) : s <= upto} = (f + 1)..m
    BY <1>2, <1>4, <1>5, <1>7, <1>8
  <2>2. m \in 0..log
    BY <1>2, <1>4
  <2> QED
    BY <1>4, <2>1, <2>2 DEF b, f
<1>9. CASE upto < m /\ upto >= f
  <2>1. {s \in Res!Held(b) : s <= upto} = (f + 1)..upto
    BY <1>2, <1>4, <1>5, <1>7, <1>9
  <2>2. upto \in 0..log /\ m \in Res!Held(b) /\ m \notin {s \in Res!Held(b) : s <= upto}
    BY <1>2, <1>4, <1>5, <1>7, <1>9
  <2> QED
    BY <2>1, <2>2 DEF b, f
<1>10. CASE upto < f
  <2>1. {s \in Res!Held(b) : s <= upto} = {} /\ (f + 1)..f = {}
    BY <1>2, <1>5, <1>7, <1>10
  <2>2. Res!Held(b) = {} => m <= f
    BY <1>2, <1>4, <1>5, <1>7
  <2>3. ~b.overflow /\ Res!Held(b) = {} => f = log
    BY <1>2, <1>4, <1>5, <2>2
  <2>4. f \in 0..log
    BY <1>2, <1>5
  <2> DEFINE T == {s \in Res!Held(b) : s <= upto}
  <2>5. T = (f + 1)..f
    BY <2>1
  <2>6. ~b.overflow /\ T = Res!Held(b) => f = log
    BY <2>1, <2>3
  <2> HIDE DEF T
  <2> QED
    BY <2>4, <2>5, <2>6 DEF b, f, T
<1>11. upto >= m \/ (upto < m /\ upto >= f) \/ upto < f
  BY <1>2, <1>4, <1>5
<1> QED
  BY <1>8, <1>9, <1>10, <1>11

\* What was captured is flushed.
LEMMA FlushKeeps ==
  ASSUME ResumeInv, NEW c \in Clients, Res!FlushResume(c)
  PROVE  ResumeInv'
<1>1. PICK first \in {"taken", "refused", "throws"}, last \in {"taken", "refused", "throws"},
           upto \in Res!Held(buffer[c]) \cup {0} :
        Res!Flush(c, first, {s \in Res!Held(buffer[c]) : s <= upto}, last)
  BY DEF Res!FlushResume
<1> DEFINE b == buffer[c]
           T == {s \in Res!Held(b) : s <= upto}
           w == Res!Receive(Res!View(c), T)
           signalled == b.overflow /\ first = "taken"
           corpse == b.overflow /\ first = "throws"
           retry == Res!NeedsSignal(b, T) /\ ~signalled /\ ~corpse
           left == corpse \/ (retry /\ last # "taken")
           reset == signalled \/ (retry /\ last = "taken")
           n == IF reset THEN Res!Resynced
                ELSE [seen |-> w.seen, missed |-> w.missed,
                      again |-> IF b.covered < 0 THEN again[c] ELSE w.again]
<1>2. /\ b.hook = "returned" /\ ~joined[c]
      /\ joined' = [joined EXCEPT ![c] = ~left]
      /\ phase' = [phase EXCEPT ![c] = IF left THEN "closed" ELSE "live"]
      /\ buffer' = [buffer EXCEPT ![c] = Res!NoBuffer]
      /\ seen' = [seen EXCEPT ![c] = n.seen]
      /\ missed' = [missed EXCEPT ![c] = n.missed]
      /\ again' = [again EXCEPT ![c] = n.again]
      /\ waived' = [waived EXCEPT ![c] = IF reset THEN {} ELSE @]
      /\ log' = log
  BY <1>1 DEF Res!Flush, Res!SetView
<1>3. ClientTypes(c) /\ ClientInv(c) /\ phase[c] = "resuming"
  BY <1>2, TypesOfOne DEF ResumeInv, ClientInv
<1>4. PICK z \in 0..log :
        T = (Res!Floor(b) + 1)..z /\ (~b.overflow /\ T = Res!Held(b) => z = log)
  <2>1. upto \in Nat
    BY <1>3 DEF Res!Held, ClientTypes
  <2> QED
    BY <1>3, <2>1, TakenIsARun
<1>5. /\ Res!Floor(b) = IF b.covered >= 0 THEN b.covered ELSE b.before
      /\ Res!Floor(b) \in 0..log
  BY <1>3 DEF Res!Floor, ClientInv, CaptureInv, ClientTypes
<1>6. /\ w.seen = IF Res!Floor(b) + 1 <= z /\ z > seen[c] THEN z ELSE seen[c]
      /\ w.missed \subseteq 1..MaxLogged /\ w.again \in BOOLEAN
      /\ missed[c] = {} /\ Res!Floor(b) + 1 <= seen[c] + 1 => w.missed = {}
      /\ ~again[c] /\ Res!Floor(b) + 1 > seen[c] => ~w.again
  <2>1. /\ Res!View(c).seen = seen[c] /\ Res!View(c).missed = missed[c]
        /\ Res!View(c).again = again[c]
    BY ViewOfOne DEF ResumeInv
  <2>2. /\ Res!View(c).seen \in 0..MaxLogged /\ Res!View(c).missed \subseteq 1..MaxLogged
        /\ Res!View(c).again \in BOOLEAN /\ MaxLogged \in Nat
    BY <1>3, <2>1 DEF ClientTypes
  <2>3. Res!Floor(b) + 1 \in 1..(MaxLogged + 1) /\ z \in 0..MaxLogged
    BY <1>3, <1>5 DEF ClientTypes
  <2>4. w = Res!Receive(Res!View(c), (Res!Floor(b) + 1)..z)
    BY <1>4
  <2> HIDE DEF w, T, b
  <2> QED
    BY <2>1, <2>2, <2>3, <2>4, ReceiveRun
<1>7. reset => n.seen = log /\ n.missed = {} /\ n.again = FALSE
  BY DEF Res!Resynced
<1>8. ~reset => /\ n.seen = w.seen /\ n.missed = w.missed
                /\ b.covered < 0 => n.again = again[c]
                /\ ~(b.covered < 0) => n.again = w.again
  OBVIOUS
<1>9. ~reset /\ ~left => ~b.overflow /\ T = Res!Held(b)
  BY <1>3 DEF Res!NeedsSignal, ClientTypes
<1>10. left \in BOOLEAN /\ reset \in BOOLEAN
  BY <1>3 DEF ClientTypes, Res!NeedsSignal
<1> HIDE DEF n, w, T, left, reset, retry, corpse, signalled
<1>11. ~reset => n.seen \in 0..log
  BY <1>3, <1>4, <1>5, <1>6, <1>8 DEF ClientTypes, ClientInv
<1>12. /\ n.seen \in 0..MaxLogged /\ n.missed \subseteq 1..MaxLogged /\ n.again \in BOOLEAN
       /\ n.seen <= log
  <2>1. n.seen \in 0..log /\ log \in 0..MaxLogged /\ MaxLogged \in Nat
    BY <1>3, <1>7, <1>11 DEF ClientTypes
  <2>2. n.seen \in 0..MaxLogged /\ n.seen <= log
    BY <2>1
  <2>3. n.missed \subseteq 1..MaxLogged
    BY <1>6, <1>7, <1>8
  <2>4. again[c] \in BOOLEAN /\ w.again \in BOOLEAN
    BY <1>3, <1>6 DEF ClientTypes
  <2>5. n.again \in BOOLEAN
    BY <1>7, <1>8, <2>4, Zenon
  <2> QED
    BY <2>2, <2>3, <2>5
<1>13. ASSUME ~reset, waived[c] = {}
       PROVE  n.missed = {} /\ ~n.again /\ (~left => n.seen = log)
  <2>1. /\ missed[c] = {} /\ ~again[c] /\ seen[c] <= log
        /\ seen[c] >= b.before /\ (b.covered >= 0 => seen[c] = b.covered)
    BY <1>2, <1>3, <1>13 DEF ClientInv, RecoveryInv
  <2>2. Res!Floor(b) <= seen[c] /\ (b.covered >= 0 => Res!Floor(b) = seen[c])
    BY <1>5, <2>1
  <2>3. /\ Res!Floor(b) + 1 <= seen[c] + 1
        /\ b.covered >= 0 => Res!Floor(b) + 1 > seen[c]
    BY <1>3, <1>5, <2>2 DEF ClientTypes
  <2>4. n.missed = {}
    BY <1>6, <1>8, <1>13, <2>1, <2>3
  <2>7. ~n.again
    <3>1. CASE b.covered < 0
      BY <1>8, <1>13, <2>1, <3>1, Zenon
    <3>2. CASE ~(b.covered < 0)
      <4>1. b.covered >= 0
        BY <1>3, <3>2 DEF ClientTypes
      <4>2. ~w.again
        BY <1>6, <2>1, <2>3, <4>1, Zenon
      <4> QED
        BY <1>8, <1>13, <3>2, <4>2, Zenon
    <3> QED
      BY <3>1, <3>2
  <2>8. ASSUME ~left PROVE n.seen = log
    <3>1. z = log
      BY <1>4, <1>9, <1>13, <2>8
    <3>2. w.seen = log
      BY <1>3, <1>5, <1>6, <2>1, <2>2, <3>1 DEF ClientTypes
    <3> QED
      BY <1>8, <1>13, <3>2
  <2> QED
    BY <2>4, <2>7, <2>8
<1>14. /\ ResumeTypeOK' /\ OthersRest(c)
       /\ buffer'[c] = Res!NoBuffer /\ joined'[c] = ~left
       /\ phase'[c] = IF left THEN "closed" ELSE "live"
       /\ seen'[c] = n.seen /\ missed'[c] = n.missed /\ again'[c] = n.again
       /\ waived'[c] = IF reset THEN {} ELSE waived[c]
  BY <1>2, <1>10, <1>12, EmptyFits DEF ResumeInv, ResumeTypeOK, OthersRest
<1>15. ClientInv(c)'
  <2>1. waived'[c] = {} => /\ n.missed = {} /\ ~n.again /\ (~left => n.seen = log)
    BY <1>7, <1>13, <1>14, Zenon
  <2>2. /\ log' = log /\ seen'[c] <= log' /\ phase'[c] # "resuming"
        /\ buffer'[c].hook = "none"
    BY <1>2, <1>12, <1>14, EmptyFits
  <2>3. CASE left
    <3>1. joined'[c] = FALSE /\ phase'[c] = "closed"
      BY <1>14, <2>3
    <3> QED
      BY <1>14, <2>1, <2>2, <3>1 DEF ClientInv
  <2>4. CASE ~left
    <3>1. joined'[c] = TRUE /\ phase'[c] = "live"
      BY <1>14, <2>4
    <3> QED
      BY <1>14, <2>1, <2>2, <2>4, <3>1 DEF ClientInv
  <2> QED
    BY <2>3, <2>4
<1> QED
  BY <1>14, <1>15, OneMoves

\* Every step keeps it.
LEMMA ResumeInvIsKept ==
  ASSUME ResumeInv, [Res!Next]_(Res!vars)
  PROVE  ResumeInv'
<1>1. CASE Res!Publish
  BY <1>1, PublishKeeps
<1>2. ASSUME NEW c \in Clients,
             \/ Res!Begin(c) \/ Res!HookReads(c) \/ Res!HookReturns(c) \/ Res!HookThrows(c)
             \/ Res!OtherInstall(c)
      PROVE  ResumeInv'
  BY <1>2, BeginKeeps, HookReadsKeeps, HookReturnsKeeps, HookThrowsKeeps, OtherInstallKeeps
<1>3. ASSUME NEW c \in Clients,
             \/ Res!LandHeld(c) \/ Res!LandRefused(c) \/ Res!FlushResume(c)
             \/ Res!Close(c) \/ Res!Reconnect(c)
      PROVE  ResumeInv'
  BY <1>3, QuietMoveKeeps, FlushKeeps
<1>4. CASE UNCHANGED Res!vars
  BY <1>4 DEF Res!vars, ResumeInv, ResumeTypeOK, ClientInv, CaptureInv, RecoveryInv
<1> QED
  BY <1>1, <1>2, <1>3, <1>4 DEF Res!Next

\* A client that is live after its recovery holds every frame up to the newest,
\* and was handed none twice by a hook that reports what it covered: for every
\* number of clients, every cap on the capture and every interleaving of the
\* publishes with the hook, the flush and the socket (flushResumeTopic).
THEOREM NoGapIsSilent == Res!Spec => []NoSilentGap
<1>1. Res!Init => ResumeInv
  BY ResumeStarts
<1>2. ResumeInv /\ [Res!Next]_(Res!vars) => ResumeInv'
  BY ResumeInvIsKept
<1>3. ResumeInv => NoSilentGap
  BY DEF ResumeInv, ClientInv, NoSilentGap, NoRepeat, Trusting
<1> QED
  BY <1>1, <1>2, <1>3, PTL DEF Res!Spec

-----------------------------------------------------------------------------
(***************************************************************************)
(* The audit of a relayed stream.  The retention above a hole forgets from *)
(* the far end only, so that the first arrival above the hole, or the      *)
(* lowest one forgotten, still bounds the ordinals that may be missing.    *)
(***************************************************************************)
Ordinal == 1..MaxOrd

\* An entry of the tracker, and what it retains above its hole.
Entry == [w : 0..MaxOrd, hi : 0..MaxOrd, above : SUBSET Ordinal, aboveMax : 0..MaxOrd,
          ranged : SUBSET Ordinal, floor : 1..Infinity]
Retained(s) == s.above \cup s.ranged

\* What an entry says of the ordinals A that have arrived: the highest of them; those it
\* retains, beyond the missing one; and that the others are below its watermark, or
\* at or above the lowest ordinal it forgot.
Audited(s, A) ==
  /\ s \in Entry
  /\ s.w <= s.hi /\ A \subseteq 1..s.hi /\ (s.hi = 0 \/ s.hi \in A)
  /\ Cardinality(s.above) <= MaxPendingAbove
  /\ Cardinality(RunStarts(s.ranged)) <= MaxPendingAbove
  /\ s.above \cap s.ranged = {} /\ Retained(s) \subseteq A
  /\ \A o \in Retained(s) : o > s.w + 1
  /\ s.aboveMax = Highest(s.above)
  /\ Open(s) \/ s.w = s.hi
  /\ \A o \in A : o <= s.w \/ o \in Retained(s) \/ o >= s.floor

\* The assumption on the stream's bounds, taken apart.
LEMMA StreamConstants ==
  /\ MaxPendingAbove \in Nat /\ MaxPendingAbove > 0 /\ Grace \in Nat /\ Grace >= 2
  /\ MaxOrd \in Nat /\ MaxQueue \in Nat /\ MaxUnderWay \in Nat
  /\ Infinity \in Nat /\ Infinity = MaxOrd + 1 /\ Infinity \in 1..Infinity
BY RelayStreamAssumption DEF RelayStreamAssumption, Infinity

\* Ordinals are finitely many.
LEMMA SomeOrdinals ==
  ASSUME NEW S \in SUBSET Ordinal
  PROVE  /\ IsFiniteSet(S) /\ Cardinality(S) \in Nat /\ Cardinality(S) <= MaxOrd
         /\ S \in SUBSET Nat /\ RunStarts(S) \in SUBSET S /\ RunStarts(S) \in SUBSET Ordinal
<1>1. IsFiniteSet(Ordinal) /\ Cardinality(Ordinal) = MaxOrd
  BY StreamConstants, FS_Interval DEF Ordinal
<1>2. IsFiniteSet(S) /\ Cardinality(S) <= Cardinality(Ordinal)
  <2> HIDE DEF Ordinal
  <2> QED BY <1>1, FS_Subset
<1>3. S \in SUBSET Nat /\ RunStarts(S) \in SUBSET S
  BY DEF RunStarts, Ordinal
<1> HIDE DEF Ordinal
<1> QED BY <1>1, <1>2, <1>3, FS_CardinalityType

\* The smaller and the larger of two numbers.
LEMMA OfTwo ==
  ASSUME NEW a \in Int, NEW b \in Int
  PROVE  /\ Min({a, b}) = IF a <= b THEN a ELSE b
         /\ Max({a, b}) = IF a <= b THEN b ELSE a
BY DEF Min, Max

\* The highest and the lowest of some ordinals.
LEMMA HighestIs ==
  ASSUME NEW S \in SUBSET Ordinal
  PROVE  /\ Highest(S) \in 0..MaxOrd /\ Lowest(S) \in 1..Infinity
         /\ S # {} => /\ Highest(S) \in S /\ \A x \in S : Highest(S) >= x
                      /\ Highest(S) = Max(S)
                      /\ Lowest(S) \in S /\ \A x \in S : Lowest(S) <= x
                      /\ Lowest(S) = Min(S)
         /\ S = {} => Highest(S) = 0 /\ Lowest(S) = Infinity
<1>1. CASE S = {}
  BY <1>1, StreamConstants DEF Highest, Lowest
<1>2. CASE S # {}
  <2> DEFINE B == {MaxOrd - x : x \in S}
  <2>0. \A x \in S : x \in Nat /\ x <= MaxOrd /\ MaxOrd - x \in Nat
    BY StreamConstants DEF Ordinal
  <2>1. B \in SUBSET Nat /\ B # {}
    BY <1>2, <2>0
  <2>2. PICK n \in B : \A m \in B : n <= m
    <3> HIDE DEF B
    <3> QED BY <2>1, LeastNumber
  <2>3. PICK x \in S : n = MaxOrd - x
    BY <2>2
  <2>4. \A y \in S : x >= y
    <3> TAKE y \in S
    <3>1. MaxOrd - x <= MaxOrd - y
      BY <2>2, <2>3
    <3> QED BY <3>1, StreamConstants DEF Ordinal
  <2>5. Max(S) \in S /\ \A y \in S : Max(S) >= y
    BY <2>4 DEF Max
  <2>6. Min(S) \in S /\ \A y \in S : Min(S) <= y
    <3> HIDE DEF B
    <3>1. S \in SUBSET Nat
      BY DEF Ordinal
    <3> QED BY <1>2, <3>1, MinIs
  <2>7. Highest(S) = Max(S) /\ Lowest(S) = Min(S)
    BY <1>2 DEF Highest, Lowest
  <2>8. \A y \in S : y \in 0..MaxOrd /\ y \in 1..Infinity
    BY StreamConstants DEF Ordinal
  <2> HIDE DEF Ordinal
  <2> QED BY <1>2, <2>5, <2>6, <2>7, <2>8
<1> QED BY <1>1, <1>2

\* A run of ordinals has an end.
LEMMA RunEndIs ==
  ASSUME NEW S \in SUBSET Ordinal, NEW o \in S, NEW e, e = RunEnd(S, o)
  PROVE  e \in S /\ o <= e /\ (o..e) \subseteq S /\ e + 1 \notin S
<1> DEFINE B == {n \in Nat : o <= n /\ n + 1 \notin S}
<1>1. o \in Nat /\ MaxOrd \in B
  BY StreamConstants DEF Ordinal
<1>2. PICK n \in B : \A m \in B : n <= m
  <2>1. B \in SUBSET Nat
    OBVIOUS
  <2> HIDE DEF B
  <2> QED BY <1>1, <2>1, LeastNumber
<1>3. \A x \in o..n : x \in S
  <2> SUFFICES ASSUME NEW x \in o..n, x # o PROVE x \in S
    OBVIOUS
  <2>1. x - 1 \in Nat /\ x - 1 >= o /\ ~(n <= x - 1) /\ (x - 1) + 1 = x
    BY <1>1, <1>2
  <2> QED BY <1>2, <2>1
<1>4. n \in S /\ o <= n /\ (o..n) \subseteq S /\ n + 1 \notin S
  BY <1>1, <1>2, <1>3
<1> QED BY <1>4 DEF RunEnd

\* The parts of an entry, each of its type.
LEMMA EntryParts ==
  ASSUME NEW s \in Entry
  PROVE  /\ s = [w |-> s.w, hi |-> s.hi, above |-> s.above, aboveMax |-> s.aboveMax,
                 ranged |-> s.ranged, floor |-> s.floor]
         /\ s.w \in 0..MaxOrd /\ s.hi \in 0..MaxOrd /\ s.above \in SUBSET Ordinal
         /\ s.aboveMax \in 0..MaxOrd /\ s.ranged \in SUBSET Ordinal /\ s.floor \in 1..Infinity
         /\ Retained(s) \in SUBSET Ordinal /\ Retained(s) = s.above \cup s.ranged
BY DEF Entry, Retained

\* An entry with some of its fields changed.
LEMMA EntryRaised ==
  ASSUME NEW s \in Entry, NEW hi, NEW v, v = [s EXCEPT !.hi = hi]
  PROVE  v = [w |-> s.w, hi |-> hi, above |-> s.above, aboveMax |-> s.aboveMax,
              ranged |-> s.ranged, floor |-> s.floor]
<1>1. s = [w |-> s.w, hi |-> s.hi, above |-> s.above, aboveMax |-> s.aboveMax,
           ranged |-> s.ranged, floor |-> s.floor]
  BY EntryParts
<1> QED BY <1>1

\* The same, of the ordinals it keeps exactly.
LEMMA EntryBuffered ==
  ASSUME NEW s \in Entry, NEW a, NEW m, NEW v, v = [s EXCEPT !.above = a, !.aboveMax = m]
  PROVE  v = [w |-> s.w, hi |-> s.hi, above |-> a, aboveMax |-> m,
              ranged |-> s.ranged, floor |-> s.floor]
<1>1. s = [w |-> s.w, hi |-> s.hi, above |-> s.above, aboveMax |-> s.aboveMax,
           ranged |-> s.ranged, floor |-> s.floor]
  BY EntryParts
<1> QED BY <1>1

\* The same, of the ranges and the floor.
LEMMA EntryRanged ==
  ASSUME NEW s \in Entry, NEW r, NEW f, NEW v, v = [s EXCEPT !.ranged = r, !.floor = f]
  PROVE  v = [w |-> s.w, hi |-> s.hi, above |-> s.above, aboveMax |-> s.aboveMax,
              ranged |-> r, floor |-> f]
<1>1. s = [w |-> s.w, hi |-> s.hi, above |-> s.above, aboveMax |-> s.aboveMax,
           ranged |-> s.ranged, floor |-> s.floor]
  BY EntryParts
<1> QED BY <1>1

\* The same, of what is left above a watermark.
LEMMA EntryMoved ==
  ASSUME NEW s \in Entry, NEW w, NEW a, NEW r, NEW m, NEW v, v = [s EXCEPT !.w = w, !.above = a, !.ranged = r, !.aboveMax = m]
  PROVE  v = [w |-> w, hi |-> s.hi, above |-> a, aboveMax |-> m,
              ranged |-> r, floor |-> s.floor]
<1>1. s = [w |-> s.w, hi |-> s.hi, above |-> s.above, aboveMax |-> s.aboveMax,
           ranged |-> s.ranged, floor |-> s.floor]
  BY EntryParts
<1> QED BY <1>1

\* The first arrival above the hole, or the lowest forgotten.
LEMMA BoundaryIs ==
  ASSUME NEW s \in Entry
  PROVE  /\ Boundary(s) \in Retained(s) \cup {s.floor} \cup {Infinity} /\ Boundary(s) \in 1..Infinity
         /\ Boundary(s) <= s.floor /\ \A o \in Retained(s) : Boundary(s) <= o
         /\ Open(s) => Boundary(s) \in Retained(s) \cup {s.floor}
         /\ ~Saturated(s) /\ Open(s) => Boundary(s) = Min(Retained(s)) /\ Boundary(s) \in Retained(s)
         /\ Open(s) <=> Retained(s) # {}
<1>1. Open(s) <=> Retained(s) # {}
  BY DEF Open, Retained
<1>2. /\ Lowest(Retained(s)) \in 1..Infinity
      /\ Retained(s) # {} => Lowest(Retained(s)) \in Retained(s) /\ Lowest(Retained(s)) = Min(Retained(s))
      /\ Retained(s) = {} => Lowest(Retained(s)) = Infinity
      /\ \A o \in Retained(s) : Lowest(Retained(s)) <= o
  BY HighestIs, EntryParts
<1>3. Boundary(s) = IF Lowest(Retained(s)) <= s.floor THEN Lowest(Retained(s)) ELSE s.floor
  <2>1. Lowest(Retained(s)) \in Int /\ s.floor \in Int
    BY <1>2, EntryParts, StreamConstants
  <2>2. Boundary(s) = Min({Lowest(Retained(s)), s.floor})
    BY DEF Boundary, Retained
  <2> QED BY <2>1, <2>2, OfTwo
<1>4. /\ s.floor \in Nat /\ s.floor <= Infinity /\ \A o \in Retained(s) : o \in Nat
  BY EntryParts, StreamConstants DEF Ordinal
<1>5. /\ Boundary(s) \in Retained(s) \cup {s.floor} \cup {Infinity} /\ Boundary(s) \in 1..Infinity
      /\ Boundary(s) <= s.floor /\ \A o \in Retained(s) : Boundary(s) <= o
      /\ Retained(s) # {} => Boundary(s) \in Retained(s) \cup {s.floor}
  BY <1>2, <1>3, <1>4, EntryParts, StreamConstants
<1>6. ASSUME ~Saturated(s), Open(s)
      PROVE  Boundary(s) = Min(Retained(s)) /\ Boundary(s) \in Retained(s)
  BY <1>1, <1>2, <1>3, <1>4, <1>6, StreamConstants DEF Saturated
<1> QED BY <1>1, <1>5, <1>6

\* One range more, or the furthest of them forgotten with its floor recorded.
RetainMakes(s, o, v) ==
  /\ v \in Entry
  /\ v.w = s.w /\ v.hi = s.hi /\ v.above = s.above /\ v.aboveMax = s.aboveMax
  /\ v.ranged \subseteq s.ranged \cup {o}
  /\ Cardinality(RunStarts(v.ranged)) <= MaxPendingAbove
  /\ v.floor <= s.floor
  /\ \A x \in s.ranged \cup {o} : x \in v.ranged \/ x >= v.floor
  /\ ~Saturated(v) => v.ranged = s.ranged \cup {o}

\* It does: the bound on the ranges holds, and what is forgotten is at or above the floor.
LEMMA RetainIs ==
  ASSUME NEW s \in Entry, NEW o \in Ordinal, Cardinality(RunStarts(s.ranged)) <= MaxPendingAbove
  PROVE  RetainMakes(s, o, Retain(s, o))
<1> DEFINE all == s.ranged \cup {o}
           v == Retain(s, o)
           m == Highest(RunStarts(all))
<1>1. /\ all \in SUBSET Ordinal /\ all # {} /\ RunStarts(all) \in SUBSET all
      /\ RunStarts(all) \in SUBSET Ordinal /\ \A x \in all : x \in Nat /\ x > 0
      /\ s.ranged \in SUBSET Ordinal
  BY EntryParts, SomeOrdinals DEF Ordinal
<1>2. /\ IsFiniteSet(RunStarts(all)) /\ Cardinality(RunStarts(all)) \in Nat
      /\ IsFiniteSet(RunStarts(s.ranged)) /\ Cardinality(RunStarts(s.ranged)) \in Nat
  BY <1>1, SomeOrdinals
<1>3. CASE Cardinality(RunStarts(all)) <= MaxPendingAbove
  <2>1. v = [s EXCEPT !.ranged = all]
    BY <1>3 DEF Retain
  <2>2. v = [w |-> s.w, hi |-> s.hi, above |-> s.above, aboveMax |-> s.aboveMax,
             ranged |-> all, floor |-> s.floor]
    BY <2>1, EntryParts
  <2>3. v \in Entry
    BY <1>1, <2>2, EntryParts DEF Entry
  <2>4. s.floor <= s.floor
    BY EntryParts, StreamConstants
  <2> QED BY <1>3, <2>2, <2>3, <2>4 DEF RetainMakes
<1>4. CASE ~(Cardinality(RunStarts(all)) <= MaxPendingAbove)
  <2>1. Min(all) \in RunStarts(all)
    <3>1. Min(all) \in all /\ \A x \in all : Min(all) <= x
      BY <1>1, MinIs, SomeOrdinals
    <3>2. Min(all) - 1 \notin all
      <4>1. Min(all) \in Nat /\ ~(Min(all) <= Min(all) - 1)
        BY <1>1, <3>1
      <4> QED BY <3>1, <4>1
    <3> QED BY <3>1, <3>2 DEF RunStarts
  <2>2. m \in RunStarts(all) /\ m \in all /\ \A x \in RunStarts(all) : m >= x
    BY <1>1, <2>1, HighestIs
  <2>3. TopRun(all) = {x \in all : x >= m} /\ m \in TopRun(all) /\ TopRun(all) \in SUBSET Ordinal
    BY <1>1, <2>2 DEF TopRun
  <2>4. Min(TopRun(all)) \in TopRun(all) /\ \A x \in TopRun(all) : Min(TopRun(all)) <= x
    BY SMTT(30), <2>3, MinIs, SomeOrdinals
  <2> DEFINE low == Min(TopRun(all))
             floor == Min({s.floor, low})
  <2>5. low \in Ordinal /\ low \in 1..Infinity /\ s.floor \in 1..Infinity
    BY <2>3, <2>4, EntryParts, StreamConstants DEF Ordinal
  <2>6. floor = IF s.floor <= low THEN s.floor ELSE low
    <3>1. low \in Int /\ s.floor \in Int
      BY <2>5
    <3> HIDE DEF low
    <3> QED BY <3>1, OfTwo
  <2>7. floor \in 1..Infinity /\ floor <= s.floor /\ floor <= low /\ floor # Infinity
    BY <2>5, <2>6, StreamConstants DEF Ordinal
  <2>8. v = [w |-> s.w, hi |-> s.hi, above |-> s.above, aboveMax |-> s.aboveMax,
             ranged |-> all \ TopRun(all), floor |-> floor]
    <3>1. v = [s EXCEPT !.ranged = all \ TopRun(all), !.floor = floor]
      BY <1>4 DEF Retain
    <3> HIDE DEF floor, all, v
    <3> QED BY <3>1, EntryRanged
  <2>9. v \in Entry
    BY <1>1, <2>7, <2>8, EntryParts DEF Entry
  <2>10. RunStarts(all \ TopRun(all)) = RunStarts(all) \ {m}
    <3>1. \A x \in all : x \in all \ TopRun(all) <=> x < m
      BY <1>1, <2>2, <2>3
    <3>0. m \in Nat
      BY <1>1, <2>2
    <3>2. \A x \in all : x < m => (x - 1 \in all \ TopRun(all) <=> x - 1 \in all)
      <4> SUFFICES ASSUME NEW x \in all, x < m, x - 1 \in all PROVE x - 1 < m
        BY <3>1
      <4> QED BY <1>1, <3>0
    <3>3. \A x \in RunStarts(all) \ {m} : x \in all /\ x < m
      <4> TAKE x \in RunStarts(all) \ {m}
      <4>0. x \in RunStarts(all) /\ x # m
        OBVIOUS
      <4>1. x \in all /\ x \in Nat /\ m >= x /\ x # m
        <5>1. x \in all
          BY <1>1, <4>0
        <5> HIDE DEF m, all
        <5>2. m >= x
          BY <2>2, <4>0
        <5> QED BY <1>1, <4>0, <5>1, <5>2
      <4> HIDE DEF m
      <4> QED BY <3>0, <4>1
    <3>4. /\ m \in RunStarts(all) /\ RunStarts(all) = {x \in all : x - 1 \notin all}
          /\ RunStarts(all \ TopRun(all))
               = {x \in all \ TopRun(all) : x - 1 \notin all \ TopRun(all)}
      BY <2>2 DEF RunStarts
    <3>5. ASSUME NEW x \in RunStarts(all \ TopRun(all)) PROVE x \in RunStarts(all) \ {m}
      <4>1. x \in all /\ x \notin TopRun(all) /\ x - 1 \notin all \ TopRun(all)
        BY <3>4
      <4>2. x < m
        BY <3>1, <4>1
      <4>3. x - 1 \notin all
        BY <3>2, <4>1, <4>2
      <4> QED BY <2>3, <3>4, <4>1, <4>3
    <3>6. ASSUME NEW x \in RunStarts(all) \ {m} PROVE x \in RunStarts(all \ TopRun(all))
      <4>1. x \in all /\ x < m /\ x - 1 \notin all
        BY <3>3, <3>4
      <4> QED BY <3>1, <3>4, <4>1
    <3> QED BY <3>5, <3>6
  <2>11. Cardinality(RunStarts(all)) <= Cardinality(RunStarts(s.ranged)) + 1
    <3>1. RunStarts(all) \subseteq RunStarts(s.ranged) \cup {o}
      BY DEF RunStarts
    <3>2. /\ IsFiniteSet(RunStarts(s.ranged) \cup {o})
          /\ Cardinality(RunStarts(s.ranged) \cup {o}) <= Cardinality(RunStarts(s.ranged)) + 1
      BY <1>2, FS_AddElement
    <3>3. Cardinality(RunStarts(all)) <= Cardinality(RunStarts(s.ranged) \cup {o})
      BY <3>1, <3>2, FS_Subset
    <3>4. Cardinality(RunStarts(s.ranged) \cup {o}) \in Nat
      BY <3>2, FS_CardinalityType
    <3> QED BY <1>2, <3>2, <3>3, <3>4
  <2>12. Cardinality(RunStarts(all) \ {m}) = Cardinality(RunStarts(all)) - 1
    <3> HIDE DEF m, all
    <3> QED BY <1>2, <2>2, FS_RemoveElement
  <2>13. Cardinality(RunStarts(v.ranged)) <= MaxPendingAbove
    <3>1. v.ranged = all \ TopRun(all)
      BY <2>8
    <3>2. Cardinality(RunStarts(v.ranged)) = Cardinality(RunStarts(all)) - 1
      BY <2>10, <2>12, <3>1
    <3> HIDE DEF m, all, v
    <3> QED BY <1>2, <2>11, <3>2, StreamConstants
  <2>14. \A x \in all : x \in v.ranged \/ x >= v.floor
    <3> SUFFICES ASSUME NEW x \in TopRun(all) PROVE x >= floor
      BY <2>8
    <3>1. low <= x
      BY <2>4
    <3> QED BY <1>1, <2>3, <2>5, <2>7, <3>1
  <2> QED BY SMTT(30), <2>7, <2>8, <2>9, <2>13, <2>14 DEF RetainMakes, Saturated
<1> QED BY <1>3, <1>4

\* A sighting above an open hole, of an entry that has seen up to hi.
LEMMA BufferIs ==
  ASSUME NEW A, NEW s \in Entry, NEW o \in Ordinal, NEW v, v = Buffer(s, o),
         Cardinality(s.above) <= MaxPendingAbove,
         Cardinality(RunStarts(s.ranged)) <= MaxPendingAbove,
         s.above \cap s.ranged = {}, s.aboveMax = Highest(s.above)
  PROVE  /\ v \in Entry /\ v.w = s.w /\ v.hi = s.hi /\ Open(v)
         /\ Cardinality(v.above) <= MaxPendingAbove
         /\ Cardinality(RunStarts(v.ranged)) <= MaxPendingAbove
         /\ v.above \cap v.ranged = {} /\ v.aboveMax = Highest(v.above)
         /\ Retained(v) \subseteq Retained(s) \cup {o} /\ v.floor <= s.floor
         /\ \A x \in Retained(s) \cup {o} : x \in Retained(v) \/ x >= v.floor
<1>1. /\ s.above \in SUBSET Ordinal /\ s.ranged \in SUBSET Ordinal /\ s.floor \in 1..Infinity
      /\ Retained(s) = s.above \cup s.ranged /\ s.aboveMax \in 0..MaxOrd /\ o \in 1..MaxOrd
      /\ IsFiniteSet(s.above) /\ Cardinality(s.above) \in Nat /\ s.floor <= s.floor
  BY EntryParts, SomeOrdinals, StreamConstants DEF Ordinal
<1>2. CASE o \in s.above \cup s.ranged
  <2>1. v = s
    BY <1>2 DEF Buffer
  <2> QED BY <1>1, <1>2, <2>1 DEF Open
<1>3. CASE o \notin s.above \cup s.ranged /\ Cardinality(s.above) < MaxPendingAbove
  <2> DEFINE a == s.above \cup {o}
             m == Max({s.aboveMax, o})
  <2>1. v = [s EXCEPT !.above = a, !.aboveMax = m]
    BY <1>3 DEF Buffer
  <2>2. /\ a \in SUBSET Ordinal /\ a # {} /\ m \in 0..MaxOrd
        /\ m = IF s.aboveMax <= o THEN o ELSE s.aboveMax
    <3>1. m = IF s.aboveMax <= o THEN o ELSE s.aboveMax
      BY <1>1, OfTwo
    <3> QED BY <1>1, <3>1
  <2>3. v = [w |-> s.w, hi |-> s.hi, above |-> a, aboveMax |-> m,
             ranged |-> s.ranged, floor |-> s.floor]
    <3> HIDE DEF a, m
    <3> QED BY <2>1, EntryBuffered
  <2>4. v \in Entry /\ v.above = a /\ v.ranged = s.ranged /\ v.aboveMax = m
    BY <2>2, <2>3, EntryParts DEF Entry
  <2>5. Cardinality(a) <= MaxPendingAbove
    <3>1. Cardinality(a) = Cardinality(s.above) + 1
      BY <1>1, <1>3, FS_AddElement
    <3> QED BY <1>1, <1>3, <3>1, StreamConstants
  <2>6. m = Highest(a)
    <3>1. Highest(a) \in a /\ \A x \in a : Highest(a) >= x
      BY <2>2, HighestIs
    <3>2. /\ s.above # {} => s.aboveMax \in s.above /\ \A x \in s.above : s.aboveMax >= x
          /\ s.above = {} => s.aboveMax = 0
      <4>1. s.above \in SUBSET Ordinal
        BY <1>1
      <4> QED BY <4>1, HighestIs
    <3>3. m \in a /\ \A x \in a : m >= x
      BY <1>1, <2>2, <3>2 DEF Ordinal
    <3>4. m >= Highest(a) /\ Highest(a) >= m
      BY <3>1, <3>3
    <3>5. m \in Int /\ Highest(a) \in Int
      BY <2>2, <3>1 DEF Ordinal
    <3> HIDE DEF m, a
    <3> QED BY <3>4, <3>5
  <2> QED BY <1>1, <1>3, <2>2, <2>3, <2>4, <2>5, <2>6 DEF Open, Retained
<1>4. CASE o \notin s.above \cup s.ranged /\ ~(Cardinality(s.above) < MaxPendingAbove)
  <2>1. s.above # {}
    BY <1>1, <1>4, FS_EmptySet, StreamConstants
  <2>2. /\ s.aboveMax \in s.above /\ \A x \in s.above : s.aboveMax >= x
        /\ s.aboveMax \in Ordinal
    BY <1>1, <2>1, HighestIs
  <2>3. CASE o < s.aboveMax
    <3> DEFINE a == (s.above \ {s.aboveMax}) \cup {o}
               u == [s EXCEPT !.above = a, !.aboveMax = Max(a)]
    <3>1. v = Retain(u, s.aboveMax)
      BY <1>4, <2>3 DEF Buffer
    <3>2. /\ a \in SUBSET Ordinal /\ a # {} /\ Max(a) = Highest(a) /\ Highest(a) \in 0..MaxOrd
      BY <1>1, HighestIs
    <3>3. u = [w |-> s.w, hi |-> s.hi, above |-> a, aboveMax |-> Max(a),
               ranged |-> s.ranged, floor |-> s.floor]
      <4> HIDE DEF a
      <4> QED BY EntryBuffered
    <3>4. /\ u \in Entry /\ u.above = a /\ u.ranged = s.ranged /\ u.aboveMax = Highest(a)
          /\ u.w = s.w /\ u.hi = s.hi /\ u.floor = s.floor
      BY <3>2, <3>3, EntryParts DEF Entry
    <3>5. Cardinality(a) <= MaxPendingAbove
      <4>1. /\ IsFiniteSet(s.above \ {s.aboveMax})
            /\ Cardinality(s.above \ {s.aboveMax}) = Cardinality(s.above) - 1
        BY SMTT(30), <1>1, <2>2, FS_RemoveElement
      <4>2. Cardinality(a) = Cardinality(s.above \ {s.aboveMax}) + 1
        BY <1>4, <4>1, FS_AddElement
      <4> QED BY <1>1, <4>1, <4>2, StreamConstants
    <3> HIDE DEF u
    <3>6. RetainMakes(u, s.aboveMax, v)
      BY <2>2, <3>1, <3>4, RetainIs
    <3>7. /\ v \in Entry /\ v.w = s.w /\ v.hi = s.hi /\ v.above = a /\ v.aboveMax = Highest(a)
          /\ v.ranged \subseteq s.ranged \cup {s.aboveMax}
          /\ Cardinality(RunStarts(v.ranged)) <= MaxPendingAbove /\ v.floor <= s.floor
          /\ \A x \in s.ranged \cup {s.aboveMax} : x \in v.ranged \/ x >= v.floor
      BY <3>4, <3>6 DEF RetainMakes
    <3>8. a \cap v.ranged = {}
      BY <1>1, <1>4, <2>2, <2>3, <3>7
    <3> QED BY <1>1, <2>2, <3>2, <3>5, <3>7, <3>8 DEF Open, Retained
  <2>4. CASE ~(o < s.aboveMax)
    <3>1. v = Retain(s, o)
      BY <1>4, <2>4 DEF Buffer
    <3>2. RetainMakes(s, o, v)
      BY <3>1, RetainIs
    <3>3. /\ v \in Entry /\ v.w = s.w /\ v.hi = s.hi /\ v.above = s.above
          /\ v.aboveMax = Highest(s.above)
          /\ v.ranged \subseteq s.ranged \cup {o}
          /\ Cardinality(RunStarts(v.ranged)) <= MaxPendingAbove /\ v.floor <= s.floor
          /\ \A x \in s.ranged \cup {o} : x \in v.ranged \/ x >= v.floor
      BY <3>2 DEF RetainMakes
    <3> QED BY <1>1, <1>4, <2>1, <3>3 DEF Open, Retained
  <2> QED BY <2>3, <2>4
<1> QED BY <1>2, <1>3, <1>4

\* Nothing outstanding: the watermark is the highest sighting.
LEMMA CleanIs ==
  ASSUME NEW s \in Entry, NEW v, v = Clean(s)
  PROVE  /\ v \in Entry /\ v.w = s.hi /\ v.hi = s.hi /\ v.above = {} /\ v.ranged = {}
         /\ v.aboveMax = 0 /\ v.floor = Infinity /\ ~Open(v)
<1>1. v = [w |-> s.hi, hi |-> s.hi, above |-> {}, aboveMax |-> 0, ranged |-> {}, floor |-> Infinity]
  BY DEF Clean, NoStream
<1>2. v \in Entry
  BY <1>1, EntryParts, StreamConstants DEF Entry
<1> QED BY <1>1, <1>2 DEF Open

\* What is retained above an ordinal that ends a run.
LEMMA AboveIs ==
  ASSUME NEW s \in Entry, NEW e \in Ordinal, e + 1 \notin s.ranged, NEW v, v = Above(s, e),
         Cardinality(s.above) <= MaxPendingAbove,
         Cardinality(RunStarts(s.ranged)) <= MaxPendingAbove,
         s.aboveMax = Highest(s.above)
  PROVE  /\ v \in Entry /\ v.w = e /\ v.hi = s.hi /\ v.floor = s.floor
         /\ v.above = {x \in s.above : x > e} /\ v.ranged = {x \in s.ranged : x > e}
         /\ Cardinality(v.above) <= MaxPendingAbove
         /\ Cardinality(RunStarts(v.ranged)) <= MaxPendingAbove
         /\ v.aboveMax = Highest(v.above)
<1> DEFINE a == {x \in s.above : x > e}
           r == {x \in s.ranged : x > e}
           m == IF a = {} THEN 0 ELSE s.aboveMax
<1>1. /\ s.above \in SUBSET Ordinal /\ s.ranged \in SUBSET Ordinal /\ s.aboveMax \in 0..MaxOrd
      /\ a \in SUBSET Ordinal /\ r \in SUBSET Ordinal /\ m \in 0..MaxOrd
  BY EntryParts, StreamConstants
<1>2. v = [s EXCEPT !.w = e, !.above = a, !.ranged = r, !.aboveMax = m]
  BY DEF Above
<1>3. v = [w |-> e, hi |-> s.hi, above |-> a, aboveMax |-> m, ranged |-> r, floor |-> s.floor]
  <2>1. s = [w |-> s.w, hi |-> s.hi, above |-> s.above, aboveMax |-> s.aboveMax,
             ranged |-> s.ranged, floor |-> s.floor]
    BY EntryParts
  <2> HIDE DEF a, r, m
  <2> QED BY <1>2, <2>1
<1>4. v \in Entry
  BY <1>1, <1>3, EntryParts, StreamConstants DEF Entry, Ordinal
<1>5. Cardinality(a) <= MaxPendingAbove
  <2>1. IsFiniteSet(s.above) /\ Cardinality(s.above) \in Nat /\ Cardinality(a) \in Nat
    BY <1>1, SomeOrdinals
  <2>2. Cardinality(a) <= Cardinality(s.above)
    BY <2>1, FS_Subset
  <2> QED BY <2>1, <2>2, StreamConstants
<1>6. Cardinality(RunStarts(r)) <= MaxPendingAbove
  <2>1. RunStarts(r) \subseteq RunStarts(s.ranged)
    <3> SUFFICES ASSUME NEW x \in RunStarts(r) PROVE x \in RunStarts(s.ranged)
      OBVIOUS
    <3>1. x \in s.ranged /\ x > e /\ x - 1 \notin r
      BY DEF RunStarts
    <3>2. x \in Nat /\ e \in Nat /\ x # e + 1
      BY <1>1, <3>1 DEF Ordinal
    <3>3. x - 1 > e
      BY <3>1, <3>2
    <3>4. x - 1 \notin s.ranged
      BY <3>1, <3>3
    <3> QED BY <3>1, <3>4 DEF RunStarts
  <2>2. /\ IsFiniteSet(RunStarts(s.ranged)) /\ Cardinality(RunStarts(s.ranged)) \in Nat
        /\ Cardinality(RunStarts(r)) \in Nat
    BY <1>1, SomeOrdinals
  <2>3. Cardinality(RunStarts(r)) <= Cardinality(RunStarts(s.ranged))
    BY <2>1, <2>2, FS_Subset
  <2> HIDE DEF r
  <2> QED BY <2>2, <2>3, StreamConstants
<1>7. m = Highest(a)
  <2>1. CASE a = {}
    BY <2>1, HighestIs
  <2>2. CASE a # {}
    <3>1. Highest(a) \in a /\ \A x \in a : Highest(a) >= x
      BY <1>1, <2>2, HighestIs
    <3>2. s.above \in SUBSET Ordinal /\ s.above # {}
      BY <1>1, <2>2
    <3>3. s.aboveMax \in s.above /\ \A x \in s.above : s.aboveMax >= x
      BY <3>2, HighestIs
    <3>4. s.aboveMax \in a
      BY <3>1, <3>3, <1>1 DEF Ordinal
    <3>5. Highest(a) >= s.aboveMax /\ s.aboveMax >= Highest(a)
      BY <3>1, <3>3, <3>4
    <3>6. s.aboveMax \in Int /\ Highest(a) \in Int /\ m = s.aboveMax
      BY <1>1, <2>2, <3>1 DEF Ordinal
    <3> HIDE DEF a, m
    <3> QED BY <3>5, <3>6
  <2> QED BY <2>1, <2>2
<1> HIDE DEF m
<1> QED BY <1>3, <1>4, <1>5, <1>6, <1>7

\* Entry u is what is left of s above ordinal e, below which no arrival of A is outstanding.
LeftAbove(A, s, e, u) ==
  /\ s \in Entry /\ u \in Entry /\ e \in Ordinal
  /\ u.w = e /\ u.hi = s.hi /\ u.floor = s.floor
  /\ u.above = {x \in s.above : x > e} /\ u.ranged = {x \in s.ranged : x > e}
  /\ Cardinality(u.above) <= MaxPendingAbove
  /\ Cardinality(RunStarts(u.ranged)) <= MaxPendingAbove
  /\ u.aboveMax = Highest(u.above)
  /\ e <= s.hi /\ e + 1 \notin Retained(s)
  /\ A \subseteq 1..s.hi /\ (s.hi = 0 \/ s.hi \in A)
  /\ s.above \cap s.ranged = {} /\ Retained(s) \subseteq A
  /\ \A o \in A : o <= e \/ o \in Retained(s) \/ o >= s.floor

\* Once more the watermark is the highest sighting, if nothing is left above it.
LEMMA ResumedIs ==
  ASSUME NEW A, NEW s, NEW e, NEW u, LeftAbove(A, s, e, u), NEW v, v = Resumed(u)
  PROVE  /\ Audited(v, A) /\ v.w >= e /\ v.hi = s.hi
         /\ ~Saturated(s) => v.w = e
         /\ v.floor = s.floor \/ ~Saturated(v)
<1>0. /\ s \in Entry /\ u \in Entry /\ e \in Ordinal
      /\ u.w = e /\ u.hi = s.hi /\ u.floor = s.floor
      /\ u.above = {x \in s.above : x > e} /\ u.ranged = {x \in s.ranged : x > e}
      /\ Cardinality(u.above) <= MaxPendingAbove
      /\ Cardinality(RunStarts(u.ranged)) <= MaxPendingAbove
      /\ u.aboveMax = Highest(u.above)
      /\ e <= s.hi /\ e + 1 \notin Retained(s)
      /\ A \subseteq 1..s.hi /\ (s.hi = 0 \/ s.hi \in A)
      /\ s.above \cap s.ranged = {} /\ Retained(s) \subseteq A
      /\ \A o \in A : o <= e \/ o \in Retained(s) \/ o >= s.floor
  BY DEF LeftAbove
<1>1. /\ Retained(u) = {x \in Retained(s) : x > e} /\ Retained(s) \in SUBSET Ordinal
      /\ s.hi \in 0..MaxOrd /\ e \in 0..MaxOrd /\ s.floor \in 1..Infinity /\ e \in Nat
      /\ \A x \in Ordinal : x \in Nat /\ x <= MaxOrd /\ x > 0
  BY <1>0, EntryParts, StreamConstants DEF Retained, Ordinal
<1>2. CASE Open(u)
  <2>1. v = u
    BY <1>2 DEF Resumed
  <2>2. \A o \in Retained(u) : o > u.w + 1
    <3> TAKE o \in Retained(u)
    <3>1. o \in Retained(s) /\ o > e /\ o \in Nat
      BY <1>0, <1>1
    <3>2. o # e + 1
      BY <1>0, <3>1
    <3> QED BY <1>0, <1>1, <3>1, <3>2
  <2>3. \A o \in A : o <= u.w \/ o \in Retained(u) \/ o >= u.floor
    <3> TAKE o \in A
    <3>1. o \in Nat
      <4>1. o \in 1..s.hi
        BY <1>0
      <4> QED BY <1>0, <1>1, <4>1
    <3>2. CASE o <= e
      BY <1>0, <3>2
    <3>3. CASE o \in Retained(s) /\ ~(o <= e)
      BY <1>0, <1>1, <3>1, <3>3
    <3>4. CASE o >= s.floor
      BY <1>0, <3>4
    <3> QED BY <1>0, <3>2, <3>3, <3>4
  <2>4. u.above \cap u.ranged = {} /\ Retained(u) \subseteq A /\ u.w <= u.hi
    BY <1>0, <1>1
  <2>5. e >= e
    BY <1>0, <1>1
  <2> QED BY <1>0, <1>2, <2>1, <2>2, <2>3, <2>4, <2>5 DEF Audited
<1>3. CASE ~Open(u)
  <2>1. v = Clean(u)
    BY <1>3 DEF Resumed
  <2>2. /\ v \in Entry /\ v.w = s.hi /\ v.hi = s.hi /\ v.above = {} /\ v.ranged = {}
        /\ v.aboveMax = 0 /\ v.floor = Infinity /\ ~Open(v)
    BY <1>0, <2>1, CleanIs
  <2>3. Retained(v) = {} /\ RunStarts(v.ranged) = {} /\ Highest(v.above) = 0
    BY <2>2 DEF Retained, RunStarts, Highest
  <2>4. Cardinality(v.above) = 0 /\ Cardinality(RunStarts(v.ranged)) = 0
    BY <2>2, <2>3, FS_EmptySet
  <2>5. \A o \in A : o <= v.w
    BY <1>0, <1>1, <2>2
  <2>6. Audited(v, A)
    <3>1. /\ v.w <= v.hi /\ A \subseteq 1..v.hi /\ (v.hi = 0 \/ v.hi \in A)
          /\ v.above \cap v.ranged = {} /\ Retained(v) \subseteq A
          /\ \A o \in Retained(v) : o > v.w + 1
      BY <1>0, <1>1, <2>2, <2>3
    <3>2. /\ Cardinality(v.above) <= MaxPendingAbove
          /\ Cardinality(RunStarts(v.ranged)) <= MaxPendingAbove
      BY <2>4, StreamConstants
    <3> QED BY <2>2, <2>3, <2>5, <3>1, <3>2 DEF Audited
  <2>7. ASSUME ~Saturated(s) PROVE v.w = e
    <3>1. s.floor = Infinity
      BY <2>7 DEF Saturated
    <3>2. Retained(u) = {}
      BY <1>0, <1>3, EntryParts, BoundaryIs
    <3>3. \A o \in Retained(s) : o <= e
      <4> TAKE o \in Retained(s)
      <4>1. o \in Nat /\ ~(o > e)
        BY <1>0, <1>1, <3>2
      <4> QED BY <1>0, <1>1, <4>1
    <3>4. CASE s.hi = 0
      BY <1>0, <1>1, <2>2, <3>4 DEF Ordinal
    <3>5. CASE s.hi \in A
      <4>1. s.hi <= e \/ s.hi \in Retained(s) \/ s.hi >= s.floor
        BY <1>0, <3>5
      <4>2. s.hi <= e
        BY <1>0, <1>1, <3>1, <3>3, <4>1, StreamConstants
      <4> QED BY <1>0, <1>1, <2>2, <4>2
    <3> QED BY <1>0, <3>4, <3>5
  <2>8. ~Saturated(v)
    BY <2>2 DEF Saturated
  <2> QED BY <1>0, <1>1, <2>2, <2>6, <2>7, <2>8
<1> QED BY <1>2, <1>3

\* An ordinal recorded: the entry says of one arrival more what it has to.
RecordMakes(s, A, o, v) ==
  /\ Audited(v, A \cup {o}) /\ v.w >= s.w /\ v.hi >= s.hi /\ v.hi >= o
  /\ v.hi \in {s.hi, o}
  /\ Open(s) /\ v.w = s.w => Open(v) /\ Boundary(v) <= Boundary(s)
  /\ owed /\ ~Saturated(s) /\ ~Saturated(v) => \A x \in (s.w + 1)..v.w : x \in A \cup {o}

\* An entry whose highest sighting is o, if that is higher.
Raised(s, o) == [s EXCEPT !.hi = Max({@, o})]

\* It says of the sightings what it said before.
LEMMA RaisedIs ==
  ASSUME NEW A, NEW s, Audited(s, A), NEW o \in Ordinal, NEW v, v = Raised(s, o)
  PROVE  /\ v \in Entry /\ v.w = s.w /\ v.above = s.above /\ v.ranged = s.ranged
         /\ v.aboveMax = s.aboveMax /\ v.floor = s.floor
         /\ v.hi \in {s.hi, o} /\ v.hi >= s.hi /\ v.hi >= o
         /\ Retained(v) = Retained(s) /\ Boundary(v) = Boundary(s)
         /\ Open(v) <=> Open(s)
         /\ Saturated(v) <=> Saturated(s)
         /\ A \cup {o} \subseteq 1..v.hi /\ v.hi \in A \cup {o} /\ v.w <= v.hi
<1> DEFINE h == Max({s.hi, o})
<1>1. s \in Entry /\ s.hi \in 0..MaxOrd /\ s.w \in 0..MaxOrd /\ o \in 1..MaxOrd
  BY EntryParts DEF Audited, Ordinal
<1>2. h = IF s.hi <= o THEN o ELSE s.hi
  <2>1. s.hi \in Int /\ o \in Int
    BY <1>1, StreamConstants
  <2> QED BY <2>1, OfTwo
<1>3. h \in 0..MaxOrd /\ h \in {s.hi, o} /\ h >= s.hi /\ h >= o
  <2> HIDE DEF h
  <2> QED BY <1>1, <1>2, StreamConstants
<1>4. v = [w |-> s.w, hi |-> h, above |-> s.above, aboveMax |-> s.aboveMax,
           ranged |-> s.ranged, floor |-> s.floor]
  <2>1. v = [s EXCEPT !.hi = h]
    BY DEF Raised
  <2> HIDE DEF h
  <2> QED BY <1>1, <2>1, EntryRaised
<1> HIDE DEF h
<1>5. v \in Entry
  BY <1>1, <1>3, <1>4, EntryParts DEF Entry
<1>6. A \subseteq 1..s.hi /\ (s.hi = 0 \/ s.hi \in A) /\ s.w <= s.hi
  BY DEF Audited
<1>7. A \cup {o} \subseteq 1..h
  BY <1>1, <1>3, <1>6, StreamConstants
<1>8. h \in A \cup {o} /\ s.w <= h
  BY <1>1, <1>2, <1>6, StreamConstants
<1> QED BY <1>3, <1>4, <1>5, <1>7, <1>8 DEF Retained, Boundary, Open, Saturated

\* The first sighting.
LEMMA FirstIs ==
  ASSUME NEW o \in Ordinal, NEW A, Audited(NoStream, A)
  PROVE  RecordMakes(NoStream, A, o, First(o))
<1> DEFINE v == First(o)
<1>1. /\ NoStream.w = 0 /\ NoStream.hi = 0 /\ NoStream.above = {} /\ NoStream.ranged = {}
      /\ NoStream.aboveMax = 0 /\ NoStream.floor = Infinity
      /\ ~Open(NoStream) /\ ~Saturated(NoStream)
  BY DEF NoStream, Open, Saturated
<1>2. A = {} /\ o \in 1..MaxOrd /\ o \in Nat /\ o > 0
  BY <1>1, StreamConstants DEF Audited, Ordinal
<1>3. RunStarts({}) = {} /\ Cardinality({}) = 0 /\ Highest({}) = 0
  BY FS_EmptySet DEF RunStarts, Highest
<1>4. CASE o > 1 /\ owed
  <2>1. v = [w |-> 0, hi |-> o, above |-> {o}, aboveMax |-> o, ranged |-> {}, floor |-> Infinity]
    BY <1>4 DEF First, NoStream
  <2>2. v \in Entry
    BY <1>2, <2>1, StreamConstants DEF Entry, Ordinal
  <2>3. Cardinality({o}) = 1 /\ Highest({o}) = o
    <3>1. Highest({o}) \in {o}
      BY HighestIs
    <3> QED BY <3>1, FS_Singleton
  <2>4. Retained(v) = {o} /\ Open(v) /\ ~Saturated(v)
    BY <2>1 DEF Retained, Open, Saturated
  <2>5. Audited(v, {o})
    <3>1. v.w <= v.hi /\ {o} \subseteq 1..v.hi /\ v.hi \in {o} /\ o > v.w + 1
      BY <1>2, <1>4, <2>1
    <3>2. Cardinality(v.above) <= MaxPendingAbove /\ Cardinality(RunStarts(v.ranged)) <= MaxPendingAbove
      BY <1>3, <2>1, <2>3, StreamConstants
    <3>3. v.above \cap v.ranged = {} /\ v.aboveMax = Highest(v.above) /\ Retained(v) \subseteq {o}
      BY <2>1, <2>3, <2>4
    <3>4. \A x \in Retained(v) : x > v.w + 1
      BY <2>4, <3>1
    <3> QED BY <2>2, <2>4, <3>1, <3>2, <3>3, <3>4 DEF Audited
  <2>6. \A x \in 1..0 : FALSE
    OBVIOUS
  <2> QED BY <1>1, <1>2, <2>1, <2>5, <2>6 DEF RecordMakes
<1>5. CASE ~(o > 1 /\ owed)
  <2>1. v = [w |-> o, hi |-> o, above |-> {}, aboveMax |-> 0, ranged |-> {}, floor |-> Infinity]
    BY <1>5 DEF First, NoStream
  <2>2. v \in Entry
    BY <1>2, <2>1, StreamConstants DEF Entry
  <2>3. Retained(v) = {} /\ ~Saturated(v)
    BY <2>1 DEF Retained, Saturated
  <2>4. Audited(v, {o})
    <3>1. v.w <= v.hi /\ {o} \subseteq 1..v.hi /\ v.hi \in {o} /\ o <= v.w
      BY <1>2, <2>1
    <3>2. Cardinality(v.above) <= MaxPendingAbove /\ Cardinality(RunStarts(v.ranged)) <= MaxPendingAbove
      BY <1>3, <2>1, StreamConstants
    <3>3. v.above \cap v.ranged = {} /\ v.aboveMax = Highest(v.above) /\ v.w = v.hi
      BY <1>3, <2>1
    <3> QED BY <2>2, <2>3, <3>1, <3>2, <3>3 DEF Audited
  <2>5. owed => \A x \in 1..o : x \in {o}
    BY <1>2, <1>5
  <2> QED BY <1>1, <1>2, <2>1, <2>4, <2>5 DEF RecordMakes
<1> QED BY <1>4, <1>5

\* The next ordinal: the entry drains what it retains right above it.
LEMMA PlugIs ==
  ASSUME NEW A, NEW s, Audited(s, A), NEW o \in Ordinal, o = s.w + 1, NEW q,
         q = Raised(s, o), NEW v, v = Plug(q, o)
  PROVE  RecordMakes(s, A, o, v)
<1>0. /\ q \in Entry /\ q.w = s.w /\ q.above = s.above /\ q.ranged = s.ranged
      /\ q.aboveMax = s.aboveMax /\ q.floor = s.floor
      /\ q.hi \in {s.hi, o} /\ q.hi >= s.hi /\ q.hi >= o
      /\ Retained(q) = Retained(s)
      /\ Saturated(q) <=> Saturated(s)
      /\ A \cup {o} \subseteq 1..q.hi /\ q.hi \in A \cup {o}
  BY RaisedIs
<1> DEFINE all == q.above \cup q.ranged \cup {o}
           e == RunEnd(all, o)
           u == Above(q, e)
           B == A \cup {o}
<1>1. /\ q \in Entry /\ q.w = s.w /\ q.above = s.above /\ q.ranged = s.ranged
      /\ q.aboveMax = s.aboveMax /\ q.floor = s.floor
      /\ q.hi \in {s.hi, o} /\ q.hi >= s.hi /\ q.hi >= o
      /\ Retained(q) = Retained(s)
      /\ Saturated(q) <=> Saturated(s)
      /\ B \subseteq 1..q.hi /\ q.hi \in B
  BY <1>0
<1>2. /\ s \in Entry /\ s.w \in 0..MaxOrd /\ s.hi \in 0..MaxOrd /\ q.hi \in 0..MaxOrd
      /\ Retained(s) \in SUBSET Ordinal /\ all = Retained(s) \cup {o} /\ all \in SUBSET Ordinal
      /\ Retained(s) \subseteq A
      /\ Cardinality(s.above) <= MaxPendingAbove
      /\ Cardinality(RunStarts(s.ranged)) <= MaxPendingAbove
      /\ s.above \cap s.ranged = {} /\ s.aboveMax = Highest(s.above)
      /\ \A x \in A : x <= s.w \/ x \in Retained(s) \/ x >= s.floor
  BY <1>1, EntryParts DEF Audited, Retained
<1>3. e \in all /\ o <= e /\ (o..e) \subseteq all /\ e + 1 \notin all
  <2> HIDE DEF all
  <2> QED BY <1>2, RunEndIs
<1>4. e \in Ordinal /\ e \in B /\ e <= q.hi /\ e + 1 \notin Retained(q) /\ e + 1 \notin q.ranged
  <2>1. e \in Ordinal /\ e \in B /\ e + 1 \notin Retained(s)
    BY <1>2, <1>3
  <2>2. e \in 1..q.hi
    BY <1>1, <2>1
  <2> QED BY <1>1, <2>1, <2>2 DEF Retained
<1>5. v = Resumed(u)
  BY DEF Plug
<1> HIDE DEF e, u
<1>6. /\ u \in Entry /\ u.w = e /\ u.hi = q.hi /\ u.floor = q.floor
      /\ u.above = {x \in q.above : x > e} /\ u.ranged = {x \in q.ranged : x > e}
      /\ Cardinality(u.above) <= MaxPendingAbove
      /\ Cardinality(RunStarts(u.ranged)) <= MaxPendingAbove
      /\ u.aboveMax = Highest(u.above)
  <2>1. /\ Cardinality(q.above) <= MaxPendingAbove
        /\ Cardinality(RunStarts(q.ranged)) <= MaxPendingAbove
        /\ q.aboveMax = Highest(q.above)
    BY <1>1, <1>2
  <2>2. u = Above(q, e)
    BY DEF u
  <2> QED BY <1>1, <1>4, <2>1, <2>2, AboveIs
<1>7. /\ s.w \in Nat /\ e \in Nat /\ o \in Nat /\ s.w < e
      /\ \A x \in A : x \in Nat
  BY <1>1, <1>2, <1>3, <1>4 DEF Ordinal
<1>8. \A x \in B : x <= e \/ x \in Retained(q) \/ x >= q.floor
  <2> TAKE x \in B
  <2>1. CASE x = o
    BY <1>3, <2>1
  <2>2. CASE x \in A
    <3>1. x <= s.w \/ x \in Retained(s) \/ x >= s.floor
      BY <1>2, <2>2
    <3>2. x <= s.w => x <= e
      BY <1>7, <2>2
    <3> QED BY <1>1, <3>1, <3>2
  <2> QED BY <2>1, <2>2
<1>9. /\ Audited(v, B) /\ v.w >= e /\ v.hi = q.hi
      /\ ~Saturated(q) => v.w = e
  <2>1. /\ q.above \cap q.ranged = {} /\ Retained(q) \subseteq B
        /\ q.hi = 0 \/ q.hi \in B
    BY <1>1, <1>2
  <2> HIDE DEF B
  <2>2. LeftAbove(B, q, e, u)
    BY <1>1, <1>4, <1>6, <1>8, <2>1 DEF LeftAbove
  <2> QED BY <1>5, <2>2, ResumedIs
<1>10. v.w \in Nat /\ v.w > s.w
  <2>1. v.w \in 0..MaxOrd
    BY <1>9, EntryParts DEF Audited
  <2> QED BY <1>7, <1>9, <2>1
<1>11. ~Saturated(s) => \A x \in (s.w + 1)..v.w : x \in B
  BY <1>1, <1>2, <1>3, <1>9
<1> QED BY <1>1, <1>2, <1>7, <1>9, <1>10, <1>11 DEF RecordMakes

\* recordOriginStream keeps the entry sound.
LEMMA RecordIs ==
  ASSUME NEW A, NEW s, Audited(s, A), NEW o \in Ordinal, NEW v, v = RecordOrdinal(s, o)
  PROVE  RecordMakes(s, A, o, v)
<1> DEFINE q == Raised(s, o)
           B == A \cup {o}
<1>1. CASE s = NoStream
  BY <1>1, FirstIs DEF RecordOrdinal
<1>2. CASE s # NoStream
  <2>1. /\ q \in Entry /\ q.w = s.w /\ q.above = s.above /\ q.ranged = s.ranged
        /\ q.aboveMax = s.aboveMax /\ q.floor = s.floor
        /\ q.hi \in {s.hi, o} /\ q.hi >= s.hi /\ q.hi >= o
        /\ Retained(q) = Retained(s) /\ Boundary(q) = Boundary(s)
        /\ Open(q) <=> Open(s)
        /\ Saturated(q) <=> Saturated(s)
        /\ B \subseteq 1..q.hi /\ q.hi \in B /\ q.w <= q.hi
    BY RaisedIs
  <2>2. /\ s \in Entry /\ s.w \in 0..MaxOrd /\ s.w <= s.hi /\ s.hi \in 0..MaxOrd /\ o \in Nat
        /\ Retained(s) \in SUBSET Ordinal /\ Retained(s) \subseteq A
        /\ Cardinality(s.above) <= MaxPendingAbove
        /\ Cardinality(RunStarts(s.ranged)) <= MaxPendingAbove
        /\ s.above \cap s.ranged = {} /\ s.aboveMax = Highest(s.above)
        /\ Open(s) \/ s.w = s.hi
        /\ \A x \in Retained(s) : x > s.w + 1
        /\ \A x \in A : x <= s.w \/ x \in Retained(s) \/ x >= s.floor
    BY EntryParts DEF Audited, Ordinal
  <2>3. v = IF o <= s.w THEN q ELSE IF o = s.w + 1 THEN Plug(q, o) ELSE Buffer(q, o)
    BY <1>2 DEF RecordOrdinal, Raised
  <2>4. CASE o <= s.w
    <3>1. v = q
      BY <2>3, <2>4
    <3>2. Open(q) \/ q.w = q.hi
      BY <2>1, <2>2, <2>4
    <3>3. \A x \in B : x <= q.w \/ x \in Retained(q) \/ x >= q.floor
      BY <2>1, <2>2, <2>4
    <3> HIDE DEF q
    <3>4. Audited(q, B)
      BY <2>1, <2>2, <3>2, <3>3 DEF Audited
    <3>5. Boundary(q) <= Boundary(s) /\ s.w >= s.w /\ \A x \in (s.w + 1)..s.w : FALSE
      <4>1. Boundary(s) \in 1..Infinity
        BY <2>2, BoundaryIs
      <4> QED BY <2>1, <2>2, <4>1, StreamConstants
    <3> QED BY <2>1, <3>1, <3>4, <3>5 DEF RecordMakes
  <2>5. CASE o = s.w + 1
    <3>1. v = Plug(q, o)
      BY <2>2, <2>3, <2>5
    <3> QED BY <2>5, <3>1, PlugIs
  <2>6. CASE ~(o <= s.w) /\ o # s.w + 1
    <3>1. v = Buffer(q, o)
      BY <2>3, <2>6
    <3> HIDE DEF q
    <3>2. /\ v \in Entry /\ v.w = q.w /\ v.hi = q.hi /\ Open(v)
          /\ Cardinality(v.above) <= MaxPendingAbove
          /\ Cardinality(RunStarts(v.ranged)) <= MaxPendingAbove
          /\ v.above \cap v.ranged = {} /\ v.aboveMax = Highest(v.above)
          /\ Retained(v) \subseteq Retained(q) \cup {o} /\ v.floor <= q.floor
          /\ \A x \in Retained(q) \cup {o} : x \in Retained(v) \/ x >= v.floor
      BY <2>1, <2>2, <3>1, BufferIs
    <3>3. o > s.w + 1
      BY <2>2, <2>6
    <3>4. /\ Retained(v) \subseteq B /\ \A x \in Retained(v) : x > v.w + 1
      BY <2>1, <2>2, <3>2, <3>3
    <3>5. v.floor \in Nat /\ s.floor \in Nat /\ \A x \in B : x \in Nat
      BY <2>1, <2>2, <3>2, EntryParts, StreamConstants
    <3>6. \A x \in B : x <= v.w \/ x \in Retained(v) \/ x >= v.floor
      <4> TAKE x \in B
      <4>1. x <= s.w \/ x \in Retained(s) \cup {o} \/ x >= s.floor
        BY <2>2
      <4>2. x >= s.floor => x >= v.floor
        BY <2>1, <3>2, <3>5
      <4> QED BY <2>1, <3>2, <4>1, <4>2
    <3>7. Audited(v, B)
      BY <2>1, <3>2, <3>4, <3>6 DEF Audited
    <3>8. ASSUME Open(s) PROVE Boundary(v) <= Boundary(s)
      <4>1. Boundary(s) \in Retained(s) \cup {s.floor} /\ Boundary(s) \in 1..Infinity
        BY <2>2, <3>8, BoundaryIs
      <4>2. /\ Boundary(v) <= v.floor /\ \A x \in Retained(v) : Boundary(v) <= x
            /\ Boundary(v) \in 1..Infinity
        BY <3>2, BoundaryIs
      <4>3. CASE Boundary(s) \in Retained(v)
        BY <4>2, <4>3
      <4>4. CASE Boundary(s) >= v.floor
        BY <3>5, <4>1, <4>2, <4>4, StreamConstants
      <4>5. Boundary(s) \in Retained(v) \/ Boundary(s) >= v.floor
        BY <2>1, <3>2, <3>5, <4>1
      <4> QED BY <4>3, <4>4, <4>5
    <3>9. s.w >= s.w /\ \A x \in (s.w + 1)..s.w : FALSE
      BY <2>2
    <3> QED BY <2>1, <3>2, <3>7, <3>8, <3>9 DEF RecordMakes
  <2> QED BY <2>4, <2>5, <2>6
<1> QED BY <1>1, <1>2

\* The entries of Folded(s, ords), up to the k-th ordinal.
FoldedUpTo(s, ords, k, f) ==
  f = [i \in 0..k |-> IF i = 0 THEN s ELSE RecordOrdinal(f[i - 1], ords[i])]

\* There is such a function, for every length.
LEMMA FoldedExists ==
  ASSUME NEW s, NEW ords, NEW k \in Nat
  PROVE  \E f : FoldedUpTo(s, ords, k, f)
<1> DEFINE B == {m \in Nat : ~ \E f : FoldedUpTo(s, ords, m, f)}
<1>1. SUFFICES ASSUME B # {} PROVE FALSE
  OBVIOUS
<1>2. PICK m \in B : \A j \in B : m <= j
  <2>1. B \in SUBSET Nat OBVIOUS
  <2> HIDE DEF B
  <2> QED BY <1>1, <2>1, LeastNumber
<1>3. m # 0
  <2>1. FoldedUpTo(s, ords, 0, [i \in 0..0 |-> s])
    BY DEF FoldedUpTo
  <2> QED BY <2>1
<1>4. m - 1 \in Nat /\ ~(m <= m - 1)
  BY <1>3
<1>5. PICK f : FoldedUpTo(s, ords, m - 1, f)
  BY <1>2, <1>4
<1> DEFINE v == RecordOrdinal(f[m - 1], ords[m])
           g == [i \in 0..m |-> IF i = m THEN v ELSE f[i]]
<1>6. FoldedUpTo(s, ords, m, g)
  <2> SUFFICES ASSUME NEW i \in 0..m
               PROVE  g[i] = IF i = 0 THEN s ELSE RecordOrdinal(g[i - 1], ords[i])
    BY DEF FoldedUpTo
  <2>1. CASE i = m
    BY <2>1, <1>3, <1>4
  <2>2. CASE i # m
    <3>1. i \in 0..m-1 /\ g[i] = f[i] /\ (i # 0 => g[i - 1] = f[i - 1])
      BY <2>2, <1>4
    <3>2. f[i] = IF i = 0 THEN s ELSE RecordOrdinal(f[i - 1], ords[i])
      BY <3>1, <1>5 DEF FoldedUpTo
    <3> QED BY <3>1, <3>2
  <2> QED BY <2>1, <2>2
<1> QED BY <1>6, <1>2

\* Folded is that function.
LEMMA FoldedUnfolds ==
  ASSUME NEW s, NEW ords, Len(ords) \in Nat
  PROVE  FoldedUpTo(s, ords, Len(ords), Folded(s, ords))
<1> DEFINE f == CHOOSE g : FoldedUpTo(s, ords, Len(ords), g)
<1>1. FoldedUpTo(s, ords, Len(ords), f)
  BY FoldedExists
<1>2. Folded(s, ords) = f
  BY DEF Folded, FoldedUpTo
<1> QED BY <1>1, <1>2

\* What the first k of some ordinals, recorded in turn, make of an entry.
FoldMakes(s, A, ords, f, k) ==
  LET B == A \cup {ords[i] : i \in 1..k}
  IN /\ Audited(f[k], B) /\ f[k].w >= s.w /\ f[k].hi >= s.hi
     /\ f[k].hi \in {s.hi} \cup {ords[i] : i \in 1..k}
     /\ Open(s) /\ f[k].w = s.w => Open(f[k]) /\ Boundary(f[k]) <= Boundary(s)
     /\ owed /\ ~Saturated(s) /\ (\A i \in 1..k : ~Saturated(f[i]))
          => \A x \in (s.w + 1)..f[k].w : x \in B

\* One step of it.
LEMMA FoldStep ==
  ASSUME NEW s, NEW A, Audited(s, A), NEW ords \in Seq(Ordinal), NEW f, NEW k \in 1..Len(ords),
         f[0] = s, FoldMakes(s, A, ords, f, k - 1), f[k] = RecordOrdinal(f[k - 1], ords[k])
  PROVE  FoldMakes(s, A, ords, f, k)
<1> DEFINE B == A \cup {ords[i] : i \in 1..(k - 1)}
           C == A \cup {ords[i] : i \in 1..k}
           t == f[k - 1]
           v == f[k]
<1>1. ords[k] \in Ordinal /\ C = B \cup {ords[k]} /\ k - 1 \in Nat /\ k \in 1..k
      /\ \A i \in 1..(k - 1) : i \in 1..k
  OBVIOUS
<1>2. /\ Audited(t, B) /\ t.w >= s.w /\ t.hi >= s.hi
      /\ t.hi \in {s.hi} \cup {ords[i] : i \in 1..(k - 1)}
      /\ Open(s) /\ t.w = s.w => Open(t) /\ Boundary(t) <= Boundary(s)
      /\ owed /\ ~Saturated(s) /\ (\A i \in 1..(k - 1) : ~Saturated(f[i]))
           => \A x \in (s.w + 1)..t.w : x \in B
  BY DEF FoldMakes
<1>3. RecordMakes(t, B, ords[k], v)
  <2> HIDE DEF B, t, v
  <2>1. v = RecordOrdinal(t, ords[k])
    BY DEF t, v
  <2> QED BY <1>1, <1>2, <2>1, RecordIs
<1>4. /\ Audited(v, C) /\ v.w >= t.w /\ v.hi >= t.hi /\ v.hi \in {t.hi, ords[k]}
      /\ Open(t) /\ v.w = t.w => Open(v) /\ Boundary(v) <= Boundary(t)
      /\ owed /\ ~Saturated(t) /\ ~Saturated(v) => \A x \in (t.w + 1)..v.w : x \in C
  BY <1>1, <1>3 DEF RecordMakes
<1>5. /\ s \in Entry /\ t \in Entry /\ v \in Entry
      /\ s.w \in Nat /\ t.w \in Nat /\ v.w \in Nat /\ s.hi \in Nat /\ t.hi \in Nat /\ v.hi \in Nat
      /\ Boundary(s) \in Nat /\ Boundary(t) \in Nat /\ Boundary(v) \in Nat
  <2>1. s \in Entry /\ t \in Entry /\ v \in Entry
    BY <1>2, <1>4 DEF Audited
  <2>2. \A u \in Entry : u.w \in Nat /\ u.hi \in Nat /\ Boundary(u) \in Nat
    <3> TAKE u \in Entry
    <3>1. u.w \in 0..MaxOrd /\ u.hi \in 0..MaxOrd /\ Boundary(u) \in 1..Infinity
      BY EntryParts, BoundaryIs
    <3> QED BY <3>1, StreamConstants
  <2> HIDE DEF t, v
  <2> QED BY <2>1, <2>2
<1>6. v.w >= s.w /\ v.hi >= s.hi /\ v.hi \in {s.hi} \cup {ords[i] : i \in 1..k}
  <2>1. v.hi \in {s.hi} \cup {ords[i] : i \in 1..k}
    BY <1>1, <1>2, <1>4
  <2>2. v.w >= s.w /\ v.hi >= s.hi
    <3> HIDE DEF t, v, B, C
    <3> QED BY SMTT(30), <1>2, <1>4, <1>5
  <2> QED BY <2>1, <2>2
<1>7. ASSUME Open(s), v.w = s.w PROVE Open(v) /\ Boundary(v) <= Boundary(s)
  <2> HIDE DEF t, v
  <2>1. t.w = s.w /\ v.w = t.w
    BY <1>2, <1>4, <1>5, <1>7
  <2> QED BY <1>2, <1>4, <1>5, <1>7, <2>1
<1>8. ASSUME owed, ~Saturated(s), \A i \in 1..k : ~Saturated(f[i])
      PROVE  \A x \in (s.w + 1)..v.w : x \in C
  <2>1. ~Saturated(t)
    <3>1. CASE k = 1
      <4>1. t = s
        BY <3>1
      <4> QED BY <1>8, <4>1
    <3>2. CASE k # 1
      <4>1. k - 1 \in 1..k
        BY <3>2
      <4> QED BY <1>8, <4>1
    <3> QED BY <3>1, <3>2
  <2>2. \A x \in (s.w + 1)..t.w : x \in B
    BY <1>1, <1>2, <1>8
  <2>3. \A x \in (t.w + 1)..v.w : x \in C
    BY <1>1, <1>4, <1>8, <2>1
  <2> HIDE DEF t, v
  <2> SUFFICES ASSUME NEW x \in (s.w + 1)..v.w PROVE x \in C
    OBVIOUS
  <2>4. x \in (s.w + 1)..t.w \/ x \in (t.w + 1)..v.w
    BY <1>5
  <2> QED BY <1>1, <2>2, <2>3, <2>4
<1> QED BY <1>4, <1>6, <1>7, <1>8 DEF FoldMakes


\* Folding some ordinals in leaves an entry that says of them what it has to.
LEMMA FoldedIs ==
  ASSUME NEW s, NEW A, Audited(s, A), NEW ords \in Seq(Ordinal), NEW f, f = Folded(s, ords)
  PROVE  f[0] = s /\ \A k \in 0..Len(ords) : FoldMakes(s, A, ords, f, k)
<1>1. Len(ords) \in Nat /\ FoldedUpTo(s, ords, Len(ords), f)
  BY FoldedUnfolds
<1>2. \A k \in 0..Len(ords) : f[k] = IF k = 0 THEN s ELSE RecordOrdinal(f[k - 1], ords[k])
  BY <1>1 DEF FoldedUpTo
<1>3. f[0] = s
  BY <1>1, <1>2
<1> DEFINE B == {k \in Nat : k <= Len(ords) /\ ~FoldMakes(s, A, ords, f, k)}
<1>4. B = {}
  <2>1. SUFFICES ASSUME B # {} PROVE FALSE
    OBVIOUS
  <2>2. PICK k \in B : \A j \in B : k <= j
    <3>1. B \in SUBSET Nat OBVIOUS
    <3> HIDE DEF B
    <3> QED BY <2>1, <3>1, LeastNumber
  <2>3. CASE k = 0
    <3>1. s \in Entry
      BY DEF Audited
    <3>2. s.w \in Nat /\ s.hi \in Nat /\ Boundary(s) \in Nat
      BY <3>1, EntryParts, BoundaryIs, StreamConstants
    <3>3. {ords[i] : i \in 1..0} = {}
      OBVIOUS
    <3>4. A \cup {} = A /\ s.w >= s.w /\ s.hi >= s.hi /\ Boundary(s) <= Boundary(s)
      BY <3>2
    <3>5. \A x \in (s.w + 1)..s.w : FALSE
      BY <3>2
    <3>6. FoldMakes(s, A, ords, f, 0)
      BY <1>3, <3>3, <3>4, <3>5 DEF FoldMakes
    <3> QED BY <2>2, <2>3, <3>6
  <2>4. CASE k # 0
    <3>1. k \in 1..Len(ords) /\ k \in 0..Len(ords) /\ k - 1 \in Nat /\ k - 1 <= Len(ords) /\ ~(k <= k - 1)
      BY <1>1, <2>2, <2>4
    <3>2. FoldMakes(s, A, ords, f, k - 1)
      BY <2>2, <3>1
    <3>3. f[k] = RecordOrdinal(f[k - 1], ords[k])
      BY <1>2, <2>4, <3>1
    <3>4. FoldMakes(s, A, ords, f, k)
      <4> HIDE DEF B
      <4> QED BY <1>3, <3>1, <3>2, <3>3, FoldStep
    <3> QED BY <2>2, <3>4
  <2> QED BY <2>3, <2>4
<1>5. \A k \in 0..Len(ords) : FoldMakes(s, A, ords, f, k)
  <2> TAKE k \in 0..Len(ords)
  <2>1. k \in Nat /\ k <= Len(ords)
    BY <1>1
  <2> QED BY <1>4, <2>1
<1> QED BY <1>3, <1>5

-----------------------------------------------------------------------------
\* The frames of the lanes, and the ordinals they carry: a fresh frame, or an old one.
Framed == [ords : Seq(Ordinal), old : BOOLEAN]
Carries(f, o, b) == f.old = b /\ \E j \in 1..Len(f.ords) : f.ords[j] = o
Aboard(q, o, b) == \E i \in 1..Len(q) : Carries(q[i], o, b)
Fresh == {o \in Ordinal : \E l \in Lane : Aboard(lanes[l], o, FALSE)}
Stale == {o \in Ordinal : \E l \in Lane : Aboard(lanes[l], o, TRUE)}

(***************************************************************************)
(* The inductive invariant.                                                *)
(***************************************************************************)
StreamParts ==
  /\ queued \in 0..MaxQueue /\ ord \in 0..MaxOrd /\ ord + queued <= MaxOrd
  /\ attached \in BOOLEAN /\ owed \in BOOLEAN /\ forgot \in BOOLEAN
  /\ lanes \in [Lane -> Seq(Framed)]
  /\ holeAge \in 0..Grace

\* Every ordinal stamped has arrived, is lost, or is carried; none beyond is.
Accounted ==
  /\ Audited(st, arrived) /\ st.hi <= ord /\ lost \subseteq 1..ord
  /\ Fresh \cup Stale \subseteq 1..ord
  /\ \A o \in 1..ord : o \in arrived \cup lost \cup Fresh \cup Stale

\* What a hole's age tells: nothing fresh is carried that could still fill a hole
\* one tick old, nothing at all one of two.
Timed ==
  /\ ~Open(st) => holeAge = 0
  /\ \A o \in Ordinal : o < Boundary(st) =>
       /\ holeAge >= 1 => o \notin Fresh
       /\ holeAge >= 2 => o \notin Stale

\* What was reported was lost, and is behind the watermark.
Told ==
  /\ reported \subseteq lost /\ reported \subseteq 1..st.w /\ count = Cardinality(reported)
  /\ owed /\ ~forgot => \A o \in 1..st.w : o \in arrived \cup reported
  /\ Saturated(st) => forgot

StreamInv == StreamParts /\ Accounted /\ Timed /\ Told

\* A function on 1..n is a sequence.
LEMMA AsSequence ==
  ASSUME NEW S, NEW n \in Nat, NEW r, r = [i \in 1..n |-> r[i]], \A i \in 1..n : r[i] \in S
  PROVE  r \in Seq(S) /\ Len(r) = n
<1>1. r \in [1..n -> S]
  OBVIOUS
<1> QED BY <1>1

\* What a frame carries.
LEMMA CarriesIs ==
  ASSUME NEW f \in Framed
  PROVE  /\ f.ords \in Seq(Ordinal) /\ f.old \in BOOLEAN /\ f = [ords |-> f.ords, old |-> f.old]
         /\ \A o, b : Carries(f, o, b) <=> f.old = b /\ o \in ToSet(f.ords)
<1>1. f.ords \in Seq(Ordinal) /\ f.old \in BOOLEAN /\ f = [ords |-> f.ords, old |-> f.old]
  BY DEF Framed
<1>2. ToSet(f.ords) = {f.ords[i] : i \in 1..Len(f.ords)}
  BY <1>1, ToSetIs
<1> QED BY <1>1, <1>2 DEF Carries

\* A frame is made of its ordinals and its age.
LEMMA FramedIs ==
  ASSUME NEW o \in Seq(Ordinal), NEW b \in BOOLEAN, NEW f, f = [ords |-> o, old |-> b]
  PROVE  f \in Framed /\ f.ords = o /\ f.old = b
<1> HIDE DEF Ordinal
<1>1. f.ords = o /\ f.old = b
  OBVIOUS
<1> QED BY <1>1, Zenon DEF Framed

\* q holds what s has beyond T.
Remains(q, s, T, S) ==
    /\ Len(q) \in Nat /\ DOMAIN q = 1..Len(q) /\ \A k \in 1..Len(q) : q[k] \in S
    /\ \A x : (\E k \in 1..Len(q) : q[k] = x) <=> (\E i \in 1..Len(s) : s[i] = x) /\ x \notin T

\* What is kept of a sequence.
LEMMA KeptMembers ==
  ASSUME NEW S, NEW s \in Seq(S), NEW T, NEW q, q = Without(s, T)
  PROVE  Remains(q, s, T, S)
<1>1. q \in Seq(S) /\ ToSet(q) = ToSet(s) \ T
  BY WithoutKeeps
<1>2. ToSet(q) = {q[k] : k \in 1..Len(q)} /\ ToSet(s) = {s[i] : i \in 1..Len(s)}
  BY <1>1, ToSetIs
<1>3. Len(q) \in Nat /\ DOMAIN q = 1..Len(q) /\ \A k \in 1..Len(q) : q[k] \in S
  BY <1>1
<1>4. \A x : (\E k \in 1..Len(q) : q[k] = x) <=> x \in ToSet(q)
  BY <1>2
<1>5. \A x : (\E i \in 1..Len(s) : s[i] = x) <=> x \in ToSet(s)
  BY <1>2
<1> QED BY <1>1, <1>3, <1>4, <1>5 DEF Remains

\* Those of the first n numbers that are not in T, in a sequence.
Numbered(q, n, T) ==
    /\ Len(q) \in Nat /\ DOMAIN q = 1..Len(q) /\ \A k \in 1..Len(q) : q[k] \in 1..n
    /\ \A i : (\E k \in 1..Len(q) : q[k] = i) <=> i \in 1..n /\ i \notin T

\* The numbers up to n that are left.
LEMMA TakenIs ==
  ASSUME NEW n \in Nat, NEW id, id = [i \in 1..n |-> i], NEW T, NEW q, q = Without(id, T)
  PROVE  Numbered(q, n, T)
<1>1. id \in Seq(1..n) /\ Len(id) = n
  OBVIOUS
<1>2. \A x : (\E i \in 1..Len(id) : id[i] = x) <=> x \in 1..n
  BY <1>1
<1>3. Remains(q, id, T, 1..n)
  BY ONLY q = Without(id, T), <1>1, KeptMembers, ZenonT(60)
<1>4. Len(q) \in Nat /\ DOMAIN q = 1..Len(q) /\ \A k \in 1..Len(q) : q[k] \in 1..n
  BY <1>3 DEF Remains
<1>5. \A x : (\E k \in 1..Len(q) : q[k] = x) <=> (\E i \in 1..Len(id) : id[i] = x) /\ x \notin T
  BY <1>3 DEF Remains
<1>6. \A i : (\E k \in 1..Len(q) : q[k] = i) <=> i \in 1..n /\ i \notin T
  BY ONLY <1>2, <1>5, ZenonT(60)
<1> QED BY <1>4, <1>6 DEF Numbered

\* A frame handed to a lane.
LEMMA LaneAppend ==
  ASSUME NEW q \in Seq(Framed), NEW f \in Framed
  PROVE  /\ Append(q, f) \in Seq(Framed)
         /\ \A o, b : Aboard(Append(q, f), o, b) <=> Aboard(q, o, b) \/ Carries(f, o, b)
<1> DEFINE r == Append(q, f)
<1>1. /\ Len(q) \in Nat /\ Len(r) = Len(q) + 1 /\ r \in Seq(Framed)
      /\ \A i \in 1..Len(q) : r[i] = q[i]
      /\ r[Len(q) + 1] = f
  OBVIOUS
<1>3. ASSUME NEW o, NEW b
      PROVE  Aboard(r, o, b) <=> Aboard(q, o, b) \/ Carries(f, o, b)
  <2>1. \A i : i \in 1..(Len(q) + 1) <=> i \in 1..Len(q) \/ i = Len(q) + 1
    BY <1>1
  <2> HIDE DEF r
  <2> QED BY <1>1, <2>1 DEF Aboard
<1> QED BY <1>1, <1>3

\* Some frames handed to a lane.
LEMMA LaneConcat ==
  ASSUME NEW q \in Seq(Framed), NEW t \in Seq(Framed)
  PROVE  /\ q \o t \in Seq(Framed)
         /\ \A o, b : Aboard(q \o t, o, b) <=> Aboard(q, o, b) \/ Aboard(t, o, b)
<1> DEFINE r == q \o t
<1>1. /\ Len(q) \in Nat /\ Len(t) \in Nat /\ Len(r) = Len(q) + Len(t) /\ r \in Seq(Framed)
      /\ \A i \in 1..Len(q) : r[i] = q[i]
      /\ \A i \in 1..Len(t) : r[Len(q) + i] = t[i]
  OBVIOUS
<1>2. ASSUME NEW o, NEW b
      PROVE  Aboard(r, o, b) <=> Aboard(q, o, b) \/ Aboard(t, o, b)
  <2>1. /\ \A i \in 1..Len(q) : i \in 1..Len(r)
        /\ \A i \in 1..Len(t) : Len(q) + i \in 1..Len(r)
        /\ \A i \in 1..Len(r) : i \in 1..Len(q) \/ (i - Len(q) \in 1..Len(t) /\ Len(q) + (i - Len(q)) = i)
    BY <1>1
  <2> HIDE DEF r
  <2>2. Aboard(r, o, b) => Aboard(q, o, b) \/ Aboard(t, o, b)
    <3>1. SUFFICES ASSUME NEW i \in 1..Len(r), Carries(r[i], o, b)
                   PROVE  Aboard(q, o, b) \/ Aboard(t, o, b)
      BY DEF Aboard
    <3>2. CASE i \in 1..Len(q)
      BY <1>1, <3>1, <3>2 DEF Aboard
    <3>3. CASE i - Len(q) \in 1..Len(t) /\ Len(q) + (i - Len(q)) = i
      <4>1. r[i] = t[i - Len(q)]
        BY <1>1, <3>3
      <4> QED BY <3>1, <3>3, <4>1 DEF Aboard
    <3> QED BY <2>1, <3>2, <3>3
  <2>3. Aboard(q, o, b) => Aboard(r, o, b)
    BY <1>1, <2>1 DEF Aboard
  <2>4. Aboard(t, o, b) => Aboard(r, o, b)
    <3>1. SUFFICES ASSUME NEW i \in 1..Len(t), Carries(t[i], o, b)
                   PROVE  Aboard(r, o, b)
      BY DEF Aboard
    <3>2. Len(q) + i \in 1..Len(r) /\ r[Len(q) + i] = t[i]
      BY <1>1, <2>1
    <3> QED BY <3>1, <3>2 DEF Aboard
  <2> QED BY <2>2, <2>3, <2>4
<1> QED BY <1>1, <1>2

\* The frame that leaves a lane.
LEMMA LaneTail ==
  ASSUME NEW q \in Seq(Framed), q # <<>>
  PROVE  /\ Tail(q) \in Seq(Framed) /\ Head(q) \in Framed
         /\ \A o, b : Aboard(q, o, b) <=>
              Carries(Head(q), o, b) \/ Aboard(Tail(q), o, b)
<1> DEFINE t == Tail(q)
           f == Head(q)
<1>1. /\ Len(q) \in Nat /\ Len(q) > 0 /\ Len(t) = Len(q) - 1 /\ t \in Seq(Framed)
      /\ f = q[1] /\ f \in Framed
      /\ \A i \in 1..Len(t) : t[i] = q[i + 1]
  OBVIOUS
<1>3. ASSUME NEW o, NEW b
      PROVE  Aboard(q, o, b) <=> Carries(f, o, b) \/ Aboard(t, o, b)
  <2>1. /\ 1 \in 1..Len(q)
        /\ \A i \in 1..Len(t) : i + 1 \in 1..Len(q)
        /\ \A i \in 1..Len(q) : i = 1 \/ (i - 1 \in 1..Len(t) /\ (i - 1) + 1 = i)
    BY <1>1
  <2> HIDE DEF t, f
  <2>2. Aboard(q, o, b) => Carries(f, o, b) \/ Aboard(t, o, b)
    <3>1. SUFFICES ASSUME NEW i \in 1..Len(q), Carries(q[i], o, b)
                   PROVE  Carries(f, o, b) \/ Aboard(t, o, b)
      BY DEF Aboard
    <3>2. CASE i = 1
      BY <1>1, <3>1, <3>2
    <3>3. CASE i - 1 \in 1..Len(t) /\ (i - 1) + 1 = i
      <4>1. t[i - 1] = q[i]
        BY <1>1, <3>3
      <4> QED BY <3>1, <3>3, <4>1 DEF Aboard
    <3> QED BY <2>1, <3>2, <3>3
  <2>3. Carries(f, o, b) => Aboard(q, o, b)
    BY <1>1, <2>1 DEF Aboard
  <2>4. Aboard(t, o, b) => Aboard(q, o, b)
    BY <1>1, <2>1 DEF Aboard
  <2> QED BY <2>2, <2>3, <2>4
<1> QED BY <1>1, <1>3

\* The frames of a lane, a tick later.
LEMMA LaneAged ==
  ASSUME NEW q \in Seq(Framed), NEW r, r = [i \in DOMAIN q |-> [q[i] EXCEPT !.old = TRUE]],
         \A i \in DOMAIN q : ~q[i].old
  PROVE  /\ r \in Seq(Framed)
         /\ \A o : ~Aboard(r, o, FALSE) /\ ~Aboard(q, o, TRUE)
         /\ \A o : Aboard(r, o, TRUE) <=> Aboard(q, o, FALSE)
<1>1. /\ Len(q) \in Nat /\ DOMAIN q = 1..Len(q) /\ \A i \in 1..Len(q) : q[i] \in Framed
  OBVIOUS
<1>2. r = [i \in 1..Len(q) |-> [q[i] EXCEPT !.old = TRUE]]
  BY <1>1
<1>3. \A i \in 1..Len(q) : r[i] = [ords |-> q[i].ords, old |-> TRUE] /\ q[i].old = FALSE
  <2> TAKE i \in 1..Len(q)
  <2>1. /\ q[i] = [ords |-> q[i].ords, old |-> q[i].old] /\ q[i].old \in BOOLEAN
        /\ r[i] = [q[i] EXCEPT !.old = TRUE]
    BY <1>1, <1>2, CarriesIs
  <2> QED BY <1>1, <2>1
<1>4. \A i \in 1..Len(q) : /\ r[i] \in Framed /\ q[i].old = FALSE
                           /\ \A o : ~Carries(r[i], o, FALSE) /\ ~Carries(q[i], o, TRUE)
                           /\ \A o : Carries(r[i], o, TRUE) <=> Carries(q[i], o, FALSE)
  <2> TAKE i \in 1..Len(q)
  <2>1. q[i].ords \in Seq(Ordinal)
    BY <1>1, CarriesIs
  <2>2. r[i] \in Framed
    <3>1. r[i] = [ords |-> q[i].ords, old |-> TRUE]
      BY <1>3
    <3> QED BY <2>1, <3>1, FramedIs
  <2>3. r[i].ords = q[i].ords /\ r[i].old = TRUE
    BY <1>3
  <2> QED BY <1>3, <2>2, <2>3 DEF Carries
<1>5. Len(r) = Len(q) /\ r \in Seq(Framed)
  <2>1. DOMAIN r = 1..Len(q) /\ \A i \in 1..Len(q) : r[i] \in Framed
    BY <1>2, <1>4
  <2>2. r = [i \in 1..Len(q) |-> r[i]]
    BY <1>2
  <2> HIDE DEF Framed
  <2> QED BY <1>1, <2>1, <2>2, AsSequence
<1>6. \A o : ~Aboard(r, o, FALSE) /\ ~Aboard(q, o, TRUE)
  BY <1>4, <1>5 DEF Aboard
<1>7. \A o : Aboard(r, o, TRUE) <=> Aboard(q, o, FALSE)
  BY <1>4, <1>5 DEF Aboard
<1> QED BY <1>5, <1>6, <1>7

\* The frames of a flush that go to one lane, numbered from base on.
OnLane(fate, l) == Without([i \in DOMAIN fate |-> i], {i \in DOMAIN fate : fate[i] # l})
Sent(fate, base, l) ==
  [k \in DOMAIN OnLane(fate, l) |-> Frame(<<[i \in DOMAIN fate |-> base + i][OnLane(fate, l)[k]]>>)]

\* They are fresh, and carry an ordinal each.
LEMMA LaneFlush ==
  ASSUME NEW n \in Nat, NEW fate \in [1..n -> Fate], NEW base \in Nat, base + n <= MaxOrd, NEW l \in Lane
  PROVE  /\ Sent(fate, base, l) \in Seq(Framed)
         /\ \A o : ~Aboard(Sent(fate, base, l), o, TRUE)
         /\ \A o : Aboard(Sent(fate, base, l), o, FALSE) <=> \E i \in 1..n : fate[i] = l /\ o = base + i
<1> DEFINE q == OnLane(fate, l)
           r == Sent(fate, base, l)
<1>1. DOMAIN fate = 1..n
  OBVIOUS
<1> DEFINE id == [i \in 1..n |-> i]
           T == {i \in 1..n : fate[i] # l}
<1>2. q = Without(id, T)
  BY <1>1 DEF OnLane
<1>6. /\ Len(q) \in Nat /\ DOMAIN q = 1..Len(q) /\ \A k \in 1..Len(q) : q[k] \in 1..n
      /\ \A i : (\E k \in 1..Len(q) : q[k] = i) <=> i \in 1..n /\ fate[i] = l
  <2>1. \A i : i \in 1..n /\ i \notin T <=> i \in 1..n /\ fate[i] = l
    OBVIOUS
  <2>2. id = [i \in 1..n |-> i]
    OBVIOUS
  <2> HIDE DEF id, T
  <2>3. Numbered(q, n, T)
    BY ONLY n \in Nat, <1>2, <2>2, TakenIs, ZenonT(60)
  <2>4. Len(q) \in Nat /\ DOMAIN q = 1..Len(q) /\ \A k \in 1..Len(q) : q[k] \in 1..n
    BY <2>3 DEF Numbered
  <2>5. \A i : (\E k \in 1..Len(q) : q[k] = i) <=> i \in 1..n /\ i \notin T
    BY <2>3 DEF Numbered
  <2>6. \A i : (\E k \in 1..Len(q) : q[k] = i) <=> i \in 1..n /\ fate[i] = l
    BY ONLY <2>1, <2>5, ZenonT(60)
  <2> QED BY <2>4, <2>6
<1>7. r = [k \in 1..Len(q) |-> Frame(<<base + q[k]>>)]
  BY <1>1, <1>6 DEF Sent
<1> HIDE DEF r
<1>8. \A k \in 1..Len(q) : /\ base + q[k] \in Ordinal /\ r[k] \in Framed
                           /\ \A o : ~Carries(r[k], o, TRUE)
                           /\ \A o : Carries(r[k], o, FALSE) <=> o = base + q[k]
  <2> TAKE k \in 1..Len(q)
  <2>1. base + q[k] \in Ordinal
    BY <1>6, StreamConstants DEF Ordinal
  <2>2. r[k] = [ords |-> <<base + q[k]>>, old |-> FALSE]
    BY <1>7 DEF Frame
  <2>3. <<base + q[k]>> \in Seq(Ordinal)
    <3> HIDE DEF Ordinal
    <3> QED BY <2>1
  <2>4. r[k] \in Framed /\ r[k].ords = <<base + q[k]>> /\ r[k].old = FALSE
    <3>1. \A x, f : x \in Seq(Ordinal) /\ f = [ords |-> x, old |-> FALSE]
                      => f \in Framed /\ f.ords = x /\ f.old = FALSE
      BY FramedIs
    <3> HIDE DEF Ordinal
    <3> QED BY <2>2, <2>3, <3>1, Zenon
  <2>5. \A o : (\E j \in 1..Len(r[k].ords) : r[k].ords[j] = o) <=> o = base + q[k]
    <3>2. Len(<<base + q[k]>>) = 1 /\ <<base + q[k]>>[1] = base + q[k] /\ \A j : j \in 1..1 <=> j = 1
      OBVIOUS
    <3> QED BY <2>4, <3>2
  <2> QED BY <2>1, <2>4, <2>5 DEF Carries
<1>9. Len(r) = Len(q) /\ r \in Seq(Framed)
  <2>1. r = [k \in 1..Len(q) |-> r[k]] /\ \A k \in 1..Len(q) : r[k] \in Framed
    BY <1>7, <1>8
  <2> QED BY ONLY <1>6, <2>1, AsSequence
<1>10. \A o : ~Aboard(r, o, TRUE)
  BY <1>8, <1>9 DEF Aboard
<1>11. \A o : Aboard(r, o, FALSE) <=> \E k \in 1..Len(q) : o = base + q[k]
  BY <1>8, <1>9 DEF Aboard
<1>13. \A o : (\E k \in 1..Len(q) : o = base + q[k]) <=> \E i \in 1..n : fate[i] = l /\ o = base + i
  BY <1>6
<1> QED BY <1>9, <1>10, <1>11, <1>13 DEF r

\* Numbers of the invariant.
LEMMA StreamNumbers ==
  ASSUME StreamInv
  PROVE  /\ ord \in Nat /\ queued \in Nat /\ holeAge \in Nat /\ st \in Entry
         /\ st.w \in Nat /\ st.hi \in Nat /\ st.w <= st.hi /\ st.hi <= ord
         /\ Boundary(st) \in Nat /\ Boundary(st) <= st.floor
         /\ Retained(st) \in SUBSET Ordinal /\ Retained(st) \subseteq arrived
         /\ \A o \in Retained(st) : Boundary(st) <= o
         /\ Open(st) <=> Retained(st) # {}
         /\ Open(st) => Boundary(st) <= st.hi
         /\ arrived \subseteq 1..st.hi /\ arrived \in SUBSET Ordinal
         /\ Ordinal = 1..MaxOrd /\ MaxOrd \in Nat
<1>1. /\ Audited(st, arrived) /\ st.hi <= ord /\ ord \in 0..MaxOrd /\ queued \in 0..MaxQueue
      /\ holeAge \in 0..Grace
  BY DEF StreamInv, StreamParts, Accounted
<1>2. /\ st \in Entry /\ st.w <= st.hi /\ Retained(st) \subseteq arrived /\ arrived \subseteq 1..st.hi
  BY <1>1 DEF Audited
<1>3. /\ st.w \in 0..MaxOrd /\ st.hi \in 0..MaxOrd /\ Retained(st) \in SUBSET Ordinal
      /\ st.floor \in 1..Infinity
      /\ Boundary(st) \in 1..Infinity /\ Boundary(st) <= st.floor
      /\ \A o \in Retained(st) : Boundary(st) <= o
      /\ Open(st) <=> Retained(st) # {}
  BY <1>2, EntryParts, BoundaryIs
<1>4. Open(st) => Boundary(st) <= st.hi
  <2> SUFFICES ASSUME Open(st) PROVE Boundary(st) <= st.hi
    OBVIOUS
  <2>1. PICK x \in Retained(st) : TRUE
    BY <1>3
  <2>2. x \in 1..st.hi /\ Boundary(st) <= x
    BY <1>2, <1>3, <2>1
  <2> QED BY <1>3, <2>2, StreamConstants
<1>5. Ordinal = 1..MaxOrd
  BY DEF Ordinal
<1> QED BY <1>1, <1>2, <1>3, <1>4, <1>5, StreamConstants

\* It holds at first.
LEMMA StreamStarts == StreamInit => StreamInv
<1> SUFFICES ASSUME StreamInit PROVE StreamInv
  OBVIOUS
<1>1. /\ queued = 0 /\ ord = 0 /\ lanes = [l \in Lane |-> <<>>] /\ attached = FALSE /\ owed = FALSE
      /\ st = NoStream /\ holeAge = 0
      /\ reported = {} /\ count = 0 /\ arrived = {} /\ lost = {} /\ forgot = FALSE
  BY DEF StreamInit
<1>2. /\ NoStream \in Entry /\ NoStream.w = 0 /\ NoStream.hi = 0 /\ NoStream.above = {}
      /\ NoStream.ranged = {} /\ NoStream.aboveMax = 0 /\ NoStream.floor = Infinity
      /\ ~Open(NoStream) /\ ~Saturated(NoStream) /\ Retained(NoStream) = {}
  BY StreamConstants DEF NoStream, Entry, Open, Saturated, Retained
<1>3. RunStarts({}) = {} /\ Cardinality({}) = 0 /\ Highest({}) = 0
  BY FS_EmptySet DEF RunStarts, Highest
<1>4. Audited(NoStream, {})
  BY <1>2, <1>3, StreamConstants DEF Audited
<1>5. Fresh = {} /\ Stale = {}
  <2>1. \A l \in Lane : lanes[l] = <<>>
    BY <1>1
  <2>2. Len(<<>>) = 0 /\ \A i : i \notin 1..0
    OBVIOUS
  <2> QED BY <2>1, <2>2 DEF Fresh, Stale, Aboard
<1>6. lanes \in [Lane -> Seq(Framed)]
  <2>1. <<>> \in Seq(Framed)
    OBVIOUS
  <2> QED BY <1>1, <2>1
<1>7. StreamParts
  <2>1. 0 \in 0..MaxQueue /\ 0 \in 0..MaxOrd /\ 0 + 0 <= MaxOrd /\ 0 \in 0..Grace
    BY StreamConstants
  <2> QED BY <1>1, <1>6, <2>1 DEF StreamParts
<1>8. Accounted
  BY <1>1, <1>2, <1>4, <1>5 DEF Accounted
<1>9. Timed
  BY <1>1, <1>5 DEF Timed
<1>10. Told
  BY <1>1, <1>2, <1>3 DEF Told
<1> QED BY <1>7, <1>8, <1>9, <1>10 DEF StreamInv

\* Ordinals are stamped, and each is lost or carried by a fresh frame.
LEMMA StampedKeeps ==
  ASSUME StreamInv, UNCHANGED <<receiver, reports>>, attached' \in BOOLEAN, owed' \in BOOLEAN,
         ord' \in 0..MaxOrd, queued' \in 0..MaxQueue, ord <= ord', ord' + queued' <= MaxOrd,
         owed' # owed => ord = 0, lanes' \in [Lane -> Seq(Framed)],
         lost \subseteq lost', lost' \subseteq lost \cup ((ord + 1)..ord'),
         Stale' = Stale, Fresh \subseteq Fresh', Fresh' \subseteq Fresh \cup ((ord + 1)..ord'),
         (ord + 1)..ord' \subseteq lost' \cup Fresh'
  PROVE  StreamInv'
<1>1. /\ StreamParts /\ Accounted /\ Timed /\ Told
      /\ st' = st /\ holeAge' = holeAge /\ arrived' = arrived /\ forgot' = forgot
      /\ reported' = reported /\ count' = count
  BY DEF StreamInv, receiver, reports
<1>2. StreamParts'
  BY <1>1 DEF StreamParts
<1>3. /\ ord \in Nat /\ ord' \in Nat /\ st.hi \in Nat /\ st.hi <= ord /\ st.w \in Nat /\ st.w <= st.hi
      /\ Boundary(st) \in Nat
      /\ Open(st) => Boundary(st) <= st.hi
  BY StreamNumbers, StreamConstants
<1>4. Accounted'
  <2>1. Audited(st, arrived)' /\ st.hi' <= ord'
    BY <1>1, <1>3 DEF Accounted
  <2>2. lost' \subseteq 1..ord'
    <3>1. lost \subseteq 1..ord
      BY <1>1 DEF Accounted
    <3> QED BY <1>3, <3>1
  <2>3. Fresh' \cup Stale' \subseteq 1..ord'
    <3>1. Fresh \cup Stale \subseteq 1..ord
      BY <1>1 DEF Accounted
    <3> QED BY <1>3, <3>1
  <2>4. \A o \in 1..ord' : o \in arrived' \cup lost' \cup Fresh' \cup Stale'
    <3> TAKE o \in 1..ord'
    <3>1. CASE o \in (ord + 1)..ord'
      BY <3>1
    <3>2. CASE o \in 1..ord
      <4>1. o \in arrived \cup lost \cup Fresh \cup Stale
        BY <1>1, <3>2 DEF Accounted
      <4> QED BY <1>1, <4>1
    <3>3. o \in (ord + 1)..ord' \/ o \in 1..ord
      BY <1>3
    <3> QED BY <3>1, <3>2, <3>3
  <2> QED BY <2>1, <2>2, <2>3, <2>4 DEF Accounted
<1>5. Timed'
  <2>1. ~Open(st) => holeAge = 0
    BY <1>1 DEF Timed
  <2>2. ASSUME NEW o \in Ordinal, o < Boundary(st)
        PROVE  (holeAge >= 1 => o \notin Fresh') /\ (holeAge >= 2 => o \notin Stale')
    <3>1. (holeAge >= 1 => o \notin Fresh) /\ (holeAge >= 2 => o \notin Stale)
      BY <1>1, <2>2 DEF Timed
    <3>2. holeAge >= 1 => o \notin (ord + 1)..ord'
      <4>1. o \in Nat
        BY StreamConstants DEF Ordinal
      <4> QED BY <1>3, <2>1, <2>2, <4>1
    <3> QED BY <3>1, <3>2
  <2> QED BY <1>1, <2>1, <2>2 DEF Timed
<1>6. Told'
  <2>1. /\ reported \subseteq lost /\ reported \subseteq 1..st.w /\ count = Cardinality(reported)
        /\ owed /\ ~forgot => \A o \in 1..st.w : o \in arrived \cup reported
        /\ Saturated(st) => forgot
    BY <1>1 DEF Told
  <2>2. ord = 0 => \A o \in 1..st.w : FALSE
    BY <1>3
  <2>3. owed' /\ ~forgot => \A o \in 1..st.w : o \in arrived \cup reported
    BY <2>1, <2>2
  <2> QED BY <1>1, <2>1, <2>3 DEF Told
<1> QED BY <1>2, <1>4, <1>5, <1>6 DEF StreamInv

\* What leaves the lanes as they were leaves every frame on its way.
LEMMA SameFrames ==
  ASSUME lanes' = lanes
  PROVE  Fresh' = Fresh /\ Stale' = Stale
BY DEF Fresh, Stale

\* A publish waits for the flush.
LEMMA BatchRelayKeeps ==
  ASSUME StreamInv, BatchRelay
  PROVE  StreamInv'
<1>1. /\ queued < MaxQueue /\ ord + queued < MaxOrd /\ queued' = queued + 1 /\ ord' = ord
      /\ UNCHANGED <<lanes, attached, owed, receiver, reports, lost>>
  BY DEF BatchRelay, Batch
<1>2. /\ queued \in 0..MaxQueue /\ ord \in 0..MaxOrd /\ attached \in BOOLEAN /\ owed \in BOOLEAN
      /\ lanes \in [Lane -> Seq(Framed)]
  BY DEF StreamInv, StreamParts
<1>3. /\ ord' \in 0..MaxOrd /\ queued' \in 0..MaxQueue /\ ord <= ord' /\ ord' + queued' <= MaxOrd
      /\ (ord + 1)..ord' = {}
  BY <1>1, <1>2, StreamConstants
<1>4. Fresh' = Fresh /\ Stale' = Stale
  BY <1>1, SameFrames
<1> QED BY <1>1, <1>2, <1>3, <1>4, StampedKeeps

\* The stream's birth is dated at its first ordinal, after the attach or before it.
LEMMA BirthIs ==
  ASSUME StreamInv, Birth
  PROVE  owed' \in BOOLEAN /\ (owed' # owed => ord = 0)
<1>1. owed \in BOOLEAN
  BY DEF StreamInv, StreamParts
<1> QED BY <1>1 DEF Birth

\* A flush numbers what waited, and hands it to the lanes.
LEMMA FlushBatchKeeps ==
  ASSUME StreamInv, NEW n \in 1..MaxQueue, NEW fate \in [1..n -> Fate], FlushBatch(fate)
  PROVE  StreamInv'
<1> DEFINE r(l) == Sent(fate, ord, l)
<1>1. /\ queued > 0 /\ Len(fate) = queued /\ Birth /\ ord' = ord + queued /\ queued' = 0
      /\ lanes' = [l \in Lane |-> lanes[l] \o r(l)]
      /\ lost' = lost \cup {ord + i : i \in {j \in DOMAIN fate : fate[j] = "lost"}}
      /\ attached' = attached /\ UNCHANGED <<receiver, reports>>
  BY DEF FlushBatch, Ordinals, Sent, OnLane
<1>2. /\ queued \in 0..MaxQueue /\ ord \in 0..MaxOrd /\ ord + queued <= MaxOrd /\ attached \in BOOLEAN
      /\ lanes \in [Lane -> Seq(Framed)]
  BY DEF StreamInv, StreamParts
<1>3. n = queued /\ n \in Nat /\ ord \in Nat /\ ord + n <= MaxOrd /\ DOMAIN fate = 1..n
  <2>1. n \in Nat /\ DOMAIN fate = 1..n
    BY StreamConstants
  <2>2. Len(fate) = n
    BY <2>1
  <2> QED BY <1>1, <1>2, <2>1, <2>2, StreamConstants
<1>4. ASSUME NEW l \in Lane
      PROVE  /\ r(l) \in Seq(Framed)
             /\ \A o : ~Aboard(r(l), o, TRUE)
             /\ \A o : Aboard(r(l), o, FALSE) <=> \E i \in 1..n : fate[i] = l /\ o = ord + i
  <2>1. n \in Nat /\ ord \in Nat /\ ord + n <= MaxOrd
    BY <1>3
  <2>2. \A m \in Nat : ord + m <= MaxOrd => \A g \in [1..m -> Fate] : \A k \in Lane :
          /\ Sent(g, ord, k) \in Seq(Framed)
          /\ \A o : ~Aboard(Sent(g, ord, k), o, TRUE)
          /\ \A o : Aboard(Sent(g, ord, k), o, FALSE) <=> \E i \in 1..m : g[i] = k /\ o = ord + i
    BY ZenonT(60), <2>1, LaneFlush
  <2> QED BY <2>1, <2>2, Zenon
<1> HIDE DEF r
<1>5. ASSUME NEW l \in Lane
      PROVE  /\ lanes'[l] \in Seq(Framed)
             /\ \A o, b : Aboard(lanes'[l], o, b) <=> Aboard(lanes[l], o, b) \/ Aboard(r(l), o, b)
  <2>1. lanes'[l] = lanes[l] \o r(l) /\ lanes[l] \in Seq(Framed)
    BY <1>1, <1>2
  <2>2. r(l) \in Seq(Framed)
    BY <1>4
  <2>3. PICK a, t : a = lanes[l] /\ t = r(l)
    OBVIOUS
  <2>4. /\ a \o t \in Seq(Framed)
        /\ \A o, b : Aboard(a \o t, o, b) <=> Aboard(a, o, b) \/ Aboard(t, o, b)
    BY ONLY <2>1, <2>2, <2>3, LaneConcat
  <2> QED BY ONLY <2>1, <2>3, <2>4
<1>6. lanes' \in [Lane -> Seq(Framed)]
  <2>1. lanes' = [l \in Lane |-> lanes'[l]]
    BY <1>1
  <2> QED BY <1>5, <2>1
<1>7. Stale' = Stale /\ Fresh \subseteq Fresh'
  BY <1>4, <1>5 DEF Fresh, Stale
<1>8. Fresh' \subseteq Fresh \cup ((ord + 1)..ord')
  <2> SUFFICES ASSUME NEW o \in Fresh', o \notin Fresh PROVE o \in (ord + 1)..ord'
    OBVIOUS
  <2>1. PICK l \in Lane : Aboard(lanes'[l], o, FALSE)
    BY DEF Fresh
  <2>2. o \in Ordinal
    BY DEF Fresh
  <2>3. ~Aboard(lanes[l], o, FALSE)
    BY <2>2 DEF Fresh
  <2>4. Aboard(r(l), o, FALSE)
    BY <1>5, <2>1, <2>3
  <2>5. PICK i \in 1..n : o = ord + i
    BY <1>4, <2>4
  <2> QED BY <1>1, <1>3, <2>5
<1>9. (ord + 1)..ord' \subseteq lost' \cup Fresh'
  <2> SUFFICES ASSUME NEW o \in (ord + 1)..ord' PROVE o \in lost' \cup Fresh'
    OBVIOUS
  <2>1. o - ord \in 1..n /\ o = ord + (o - ord) /\ o \in Ordinal
    BY <1>1, <1>3, StreamConstants DEF Ordinal
  <2>2. fate[o - ord] \in Fate
    BY <2>1
  <2>3. CASE fate[o - ord] = "lost"
    BY <1>1, <1>3, <2>1, <2>3
  <2>4. CASE fate[o - ord] \in Lane
    <3>1. Aboard(r(fate[o - ord]), o, FALSE)
      BY <1>4, <2>1, <2>4
    <3>2. Aboard(lanes'[fate[o - ord]], o, FALSE)
      BY <1>5, <2>4, <3>1
    <3> QED BY <2>1, <2>4, <3>2 DEF Fresh
  <2> QED BY <2>2, <2>3, <2>4 DEF Fate
<1>10. lost \subseteq lost' /\ lost' \subseteq lost \cup ((ord + 1)..ord')
  <2>1. \A i \in 1..n : ord + i \in (ord + 1)..ord'
    BY <1>1, <1>3
  <2> QED BY <1>1, <1>3, <2>1
<1>11. owed' \in BOOLEAN /\ (owed' # owed => ord = 0)
  BY <1>1, BirthIs
<1>12. /\ ord' \in 0..MaxOrd /\ queued' \in 0..MaxQueue /\ ord <= ord' /\ ord' + queued' <= MaxOrd
  BY <1>1, <1>2, <1>3, StreamConstants
<1> QED BY <1>1, <1>2, <1>6, <1>7, <1>8, <1>9, <1>10, <1>11, <1>12, StampedKeeps

\* A batch written at once.
LEMMA RelayBatchedKeeps ==
  ASSUME StreamInv, NEW n \in 1..2, NEW fate \in Fate, RelayBatched(n, fate)
  PROVE  StreamInv'
<1> DEFINE ords == [i \in 1..n |-> ord + i]
           f == Frame(ords)
<1>1. /\ ord + n + queued <= MaxOrd /\ Birth /\ ord' = ord + n /\ queued' = queued
      /\ lanes' = IF fate \in Lane THEN [lanes EXCEPT ![fate] = Append(@, f)] ELSE lanes
      /\ lost' = IF fate \in Lane THEN lost ELSE lost \cup ToSet(ords)
      /\ attached' = attached /\ UNCHANGED <<receiver, reports>>
  BY DEF RelayBatched
<1>2. /\ queued \in 0..MaxQueue /\ ord \in 0..MaxOrd /\ attached \in BOOLEAN
      /\ lanes \in [Lane -> Seq(Framed)]
  BY DEF StreamInv, StreamParts
<1>3. /\ n \in Nat /\ ord \in Nat /\ queued \in Nat /\ ord' \in 0..MaxOrd /\ ord <= ord'
      /\ ord' + queued' <= MaxOrd
  BY <1>1, <1>2, StreamConstants
<1>4. \A i \in 1..n : ords[i] = ord + i /\ ords[i] \in Ordinal
  BY <1>1, <1>3, StreamConstants DEF Ordinal
<1>5. ords \in Seq(Ordinal) /\ Len(ords) = n
  <2>1. ords = [i \in 1..n |-> ords[i]]
    OBVIOUS
  <2> HIDE DEF ords
  <2> QED BY <1>3, <1>4, <2>1, AsSequence
<1>6. ToSet(ords) = (ord + 1)..ord'
  <2>1. ToSet(ords) = {ords[i] : i \in 1..n}
    <3> HIDE DEF ords
    <3> QED BY <1>5, ToSetIs
  <2>2. \A o \in (ord + 1)..ord' : o - ord \in 1..n /\ ords[o - ord] = o
    BY <1>1, <1>3, <1>4
  <2>3. \A i \in 1..n : ords[i] \in (ord + 1)..ord'
    BY <1>1, <1>3, <1>4
  <2> HIDE DEF ords
  <2> QED BY <2>1, <2>2, <2>3
<1>7. f \in Framed /\ \A o, b : Carries(f, o, b) <=> b = FALSE /\ o \in (ord + 1)..ord'
  <2>1. f = [ords |-> ords, old |-> FALSE]
    BY DEF Frame
  <2> HIDE DEF ords, f
  <2>2. f \in Framed /\ f.ords = ords /\ f.old = FALSE
    BY <1>5, <2>1, FramedIs
  <2> QED BY <1>6, <2>2, CarriesIs
<1> HIDE DEF ords, f
<1>8. ASSUME NEW l \in Lane
      PROVE  /\ lanes'[l] \in Seq(Framed)
             /\ \A o, b : Aboard(lanes'[l], o, b) <=>
                  Aboard(lanes[l], o, b) \/ (l = fate /\ b = FALSE /\ o \in (ord + 1)..ord')
  <2>1. lanes[l] \in Seq(Framed)
    BY <1>2
  <2>2. CASE l = fate
    <3>1. lanes'[l] = Append(lanes[l], f)
      BY <1>1, <1>2, <2>2
    <3> QED BY <1>7, <2>1, <2>2, <3>1, LaneAppend
  <2>3. CASE l # fate
    <3>1. lanes'[l] = lanes[l]
      BY <1>1, <1>2, <2>3
    <3> QED BY <2>1, <2>3, <3>1
  <2> QED BY <2>2, <2>3
<1>9. lanes' \in [Lane -> Seq(Framed)]
  <2>1. lanes' = [l \in Lane |-> lanes'[l]]
    BY <1>1, <1>2
  <2> QED BY <1>8, <2>1
<1>10. Stale' = Stale /\ Fresh \subseteq Fresh' /\ Fresh' \subseteq Fresh \cup ((ord + 1)..ord')
  BY <1>8 DEF Fresh, Stale
<1>11. (ord + 1)..ord' \subseteq lost' \cup Fresh'
  <2>1. CASE fate \in Lane
    <3> SUFFICES ASSUME NEW o \in (ord + 1)..ord' PROVE o \in Fresh'
      OBVIOUS
    <3>1. o \in Ordinal
      BY <1>3, StreamConstants DEF Ordinal
    <3>2. Aboard(lanes'[fate], o, FALSE)
      BY <1>8, <2>1
    <3> QED BY <2>1, <3>1, <3>2 DEF Fresh
  <2>2. CASE fate \notin Lane
    BY <1>1, <1>6, <2>2
  <2> QED BY <2>1, <2>2
<1>12. lost \subseteq lost' /\ lost' \subseteq lost \cup ((ord + 1)..ord')
  BY <1>1, <1>6
<1>13. owed' \in BOOLEAN /\ (owed' # owed => ord = 0)
  BY <1>1, BirthIs
<1> QED BY <1>1, <1>2, <1>3, <1>9, <1>10, <1>11, <1>12, <1>13, StampedKeeps

\* The attach is latched.
LEMMA AttachKeeps ==
  ASSUME StreamInv, Attach
  PROVE  StreamInv'
<1>1. /\ attached' = TRUE
      /\ UNCHANGED <<sender, lanes, owed, receiver, reports, lost>>
  BY DEF Attach
<1>2. /\ queued' = queued /\ ord' = ord /\ lanes' = lanes /\ owed' = owed /\ lost' = lost
      /\ UNCHANGED <<receiver, reports>>
  BY <1>1 DEF sender
<1>3. /\ queued \in 0..MaxQueue /\ ord \in 0..MaxOrd /\ ord + queued <= MaxOrd /\ owed \in BOOLEAN
      /\ lanes \in [Lane -> Seq(Framed)]
  BY DEF StreamInv, StreamParts
<1>4. ord <= ord' /\ (ord + 1)..ord' = {}
  BY <1>2, <1>3, StreamConstants
<1>5. Fresh' = Fresh /\ Stale' = Stale
  BY <1>2, SameFrames
<1> QED BY <1>1, <1>2, <1>3, <1>4, <1>5, StampedKeeps

\* What a received frame does to the lanes and to the entry.
LEMMA ReceiveIs ==
  ASSUME StreamInv, NEW l \in Lane, Receive(l), NEW B, B = arrived'
  PROVE  /\ UNCHANGED <<sender, attached, owed, reports, lost>>
         /\ lanes' \in [Lane -> Seq(Framed)]
         /\ Fresh' \subseteq Fresh /\ Stale' \subseteq Stale
         /\ Fresh \cup Stale \subseteq Fresh' \cup Stale' \cup B
         /\ arrived \subseteq B /\ forgot' \in BOOLEAN /\ (forgot => forgot')
         /\ holeAge' = Age(st, st', holeAge)
         /\ Audited(st', B) /\ st'.w >= st.w /\ st'.hi <= ord
         /\ Open(st) /\ st'.w = st.w => Open(st') /\ Boundary(st') <= Boundary(st)
         /\ owed /\ ~forgot' => \A x \in (st.w + 1)..st'.w : x \in B
         /\ Saturated(st') => forgot'
<1> DEFINE f == Head(lanes[l])
           ords == f.ords
           made == Folded(st, ords)
           k == Len(ords)
<1>1. /\ lanes[l] # <<>> /\ st' = made[k] /\ holeAge' = Age(st, st', holeAge)
      /\ arrived' = arrived \cup ToSet(ords)
      /\ forgot' = (forgot \/ \E i \in DOMAIN ords : Saturated(made[i]))
      /\ lanes' = [lanes EXCEPT ![l] = Tail(@)]
      /\ UNCHANGED <<sender, attached, owed, reports, lost>>
  BY DEF Receive
<1>2. /\ lanes \in [Lane -> Seq(Framed)] /\ Audited(st, arrived) /\ forgot \in BOOLEAN
      /\ Saturated(st) => forgot
      /\ Fresh \cup Stale \subseteq 1..ord
  BY DEF StreamInv, StreamParts, Accounted, Told
<1>3. /\ lanes[l] \in Seq(Framed) /\ Tail(lanes[l]) \in Seq(Framed) /\ f \in Framed
      /\ \A o, b : Aboard(lanes[l], o, b) <=> Carries(f, o, b) \/ Aboard(Tail(lanes[l]), o, b)
  <2>1. lanes[l] \in Seq(Framed)
    BY <1>2
  <2> QED BY <1>1, <2>1, LaneTail
<1>4. /\ ords \in Seq(Ordinal) /\ f.old \in BOOLEAN
      /\ \A o, b : Carries(f, o, b) <=> f.old = b /\ o \in ToSet(ords)
  BY <1>3, CarriesIs
<1> HIDE DEF f, made, k
<1>5. /\ k \in Nat /\ DOMAIN ords = 1..k /\ ToSet(ords) = {ords[i] : i \in 1..k}
      /\ \A i \in 1..k : ords[i] \in Ordinal
      /\ ToSet(ords) \subseteq Ordinal
  <2>1. ToSet(ords) = {ords[i] : i \in 1..Len(ords)}
    BY <1>4, ToSetIs
  <2> QED BY <1>4, <2>1 DEF k
<1>6. made[0] = st /\ FoldMakes(st, arrived, ords, made, k)
  <2>1. made = Folded(st, ords)
    BY DEF made
  <2>2. made[0] = st /\ \A i \in 0..Len(ords) : FoldMakes(st, arrived, ords, made, i)
    BY <1>2, <1>4, <2>1, FoldedIs
  <2>3. k \in 0..Len(ords)
    BY <1>5 DEF k
  <2> QED BY <2>2, <2>3
<1>7. B = arrived \cup {ords[i] : i \in 1..k}
  BY <1>1, <1>5
<1>8. /\ Audited(st', B) /\ st'.w >= st.w
      /\ st'.hi \in {st.hi} \cup {ords[i] : i \in 1..k}
      /\ Open(st) /\ st'.w = st.w => Open(st') /\ Boundary(st') <= Boundary(st)
      /\ owed /\ ~Saturated(st) /\ (\A i \in 1..k : ~Saturated(made[i]))
           => \A x \in (st.w + 1)..st'.w : x \in B
  BY <1>1, <1>6, <1>7 DEF FoldMakes
<1>9. ASSUME NEW m \in Lane
      PROVE  lanes'[m] = IF m = l THEN Tail(lanes[l]) ELSE lanes[m]
  BY <1>1, <1>2
<1>10. lanes' \in [Lane -> Seq(Framed)]
  BY <1>1, <1>2, <1>3
<1>11. \A o, b : Aboard(lanes[l], o, b) <=> (f.old = b /\ o \in ToSet(ords)) \/ Aboard(lanes'[l], o, b)
  BY <1>3, <1>4, <1>9
<1>12. \A m \in Lane : m # l => lanes'[m] = lanes[m]
  BY <1>9
<1>13. Fresh' \subseteq Fresh /\ Stale' \subseteq Stale
  BY <1>11, <1>12 DEF Fresh, Stale
<1>14. Fresh \cup Stale \subseteq Fresh' \cup Stale' \cup B
  <2>1. ToSet(ords) \subseteq B
    BY <1>1
  <2> QED BY <1>11, <1>12, <2>1 DEF Fresh, Stale
<1>15. ToSet(ords) \subseteq Fresh \cup Stale
  BY <1>4, <1>5, <1>11 DEF Fresh, Stale
<1>16. st'.hi <= ord
  <2>1. st.hi <= ord /\ ord \in Nat
    BY StreamNumbers
  <2>2. \A i \in 1..k : ords[i] \in 1..ord
    BY <1>2, <1>5, <1>15
  <2> QED BY <1>8, <2>1, <2>2
<1>17. forgot' \in BOOLEAN /\ (forgot => forgot')
  BY <1>1, <1>2
<1>18. \A i \in 1..k : Saturated(made[i]) => forgot'
  BY <1>1, <1>5
<1>19. owed /\ ~forgot' => \A x \in (st.w + 1)..st'.w : x \in B
  BY <1>2, <1>8, <1>17, <1>18
<1>20. Saturated(st') => forgot'
  <2>1. CASE k = 0
    BY <1>1, <1>2, <1>6, <1>17, <2>1
  <2>2. CASE k # 0
    <3>1. k \in 1..k
      BY <1>5, <2>2
    <3> QED BY <1>1, <1>18, <3>1
  <2> QED BY <2>1, <2>2
<1> QED BY <1>1, <1>8, <1>10, <1>13, <1>14, <1>16, <1>17, <1>19, <1>20

\* A frame arrives.
LEMMA ReceiveKeeps ==
  ASSUME StreamInv, NEW l \in Lane, Receive(l)
  PROVE  StreamInv'
<1>1. /\ queued' = queued /\ ord' = ord /\ attached' = attached /\ owed' = owed
      /\ reported' = reported /\ count' = count /\ lost' = lost
      /\ lanes' \in [Lane -> Seq(Framed)]
      /\ Fresh' \subseteq Fresh /\ Stale' \subseteq Stale
      /\ Fresh \cup Stale \subseteq Fresh' \cup Stale' \cup arrived'
      /\ arrived \subseteq arrived' /\ forgot' \in BOOLEAN /\ (forgot => forgot')
      /\ holeAge' = Age(st, st', holeAge)
      /\ Audited(st', arrived') /\ st'.w >= st.w /\ st'.hi <= ord
      /\ Open(st) /\ st'.w = st.w => Open(st') /\ Boundary(st') <= Boundary(st)
      /\ owed /\ ~forgot' => \A x \in (st.w + 1)..st'.w : x \in arrived'
      /\ Saturated(st') => forgot'
  BY ReceiveIs DEF sender, reports
<1>2. StreamParts /\ Accounted /\ Timed /\ Told
  BY DEF StreamInv
<1>3. /\ st' \in Entry /\ st'.w \in Nat /\ st.w \in Nat /\ Boundary(st') \in Nat /\ Boundary(st) \in Nat
      /\ holeAge \in 0..Grace /\ holeAge' \in 0..Grace
  <2>1. st' \in Entry
    BY <1>1 DEF Audited
  <2>2. st'.w \in Nat /\ Boundary(st') \in Nat
    <3>1. \A s \in Entry : s.w \in 0..MaxOrd /\ Boundary(s) \in 1..Infinity
      BY EntryParts, BoundaryIs
    <3> QED BY <2>1, <3>1, StreamConstants
  <2>3. holeAge \in 0..Grace
    BY <1>2 DEF StreamParts
  <2>4. holeAge' \in 0..Grace
    BY <1>1, <2>3, StreamConstants DEF Age
  <2> QED BY <2>1, <2>2, <2>3, <2>4, StreamNumbers
<1>4. StreamParts'
  BY <1>1, <1>2, <1>3 DEF StreamParts
<1>5. Accounted'
  <2>1. /\ lost \subseteq 1..ord /\ Fresh \cup Stale \subseteq 1..ord
        /\ \A o \in 1..ord : o \in arrived \cup lost \cup Fresh \cup Stale
    BY <1>2 DEF Accounted
  <2>2. \A o \in 1..ord : o \in arrived' \cup lost \cup Fresh' \cup Stale'
    BY <1>1, <2>1
  <2>3. Fresh' \cup Stale' \subseteq 1..ord
    BY <1>1, <2>1
  <2> QED BY <1>1, <2>1, <2>2, <2>3 DEF Accounted
<1>6. Timed'
  <2>1. CASE holeAge' = 0
    BY <2>1 DEF Timed
  <2>2. CASE holeAge' # 0
    <3>1. Open(st') /\ st'.w = st.w /\ holeAge' = holeAge
      BY <1>1, <2>2 DEF Age
    <3>2. Open(st)
      BY <1>2, <2>2, <3>1 DEF Timed
    <3>3. Boundary(st') <= Boundary(st)
      BY <1>1, <3>1, <3>2
    <3>4. ASSUME NEW o \in Ordinal, o < Boundary(st')
          PROVE  (holeAge >= 1 => o \notin Fresh') /\ (holeAge >= 2 => o \notin Stale')
      <4>1. o < Boundary(st)
        <5>1. o \in Nat
          BY StreamConstants DEF Ordinal
        <5> QED BY <1>3, <3>3, <3>4, <5>1
      <4>2. (holeAge >= 1 => o \notin Fresh) /\ (holeAge >= 2 => o \notin Stale)
        BY <1>2, <4>1 DEF Timed
      <4> QED BY <1>1, <4>2
    <3> QED BY <3>1, <3>4 DEF Timed
  <2> QED BY <2>1, <2>2
<1>7. Told'
  <2>1. /\ reported \subseteq lost /\ reported \subseteq 1..st.w /\ count = Cardinality(reported)
        /\ owed /\ ~forgot => \A o \in 1..st.w : o \in arrived \cup reported
    BY <1>2 DEF Told
  <2>2. reported \subseteq 1..st'.w
    BY <1>1, <1>3, <2>1
  <2>3. ASSUME owed, ~forgot', NEW o \in 1..st'.w PROVE o \in arrived' \cup reported
    <3>1. o \in 1..st.w \/ o \in (st.w + 1)..st'.w
      BY <1>3
    <3>2. CASE o \in 1..st.w
      BY <1>1, <2>1, <2>3, <3>2
    <3>3. CASE o \in (st.w + 1)..st'.w
      BY <1>1, <2>3, <3>3
    <3> QED BY <3>1, <3>2, <3>3
  <2> QED BY <1>1, <2>1, <2>2, <2>3 DEF Told
<1> QED BY <1>4, <1>5, <1>6, <1>7 DEF StreamInv

\* What is left after a report: nothing the report speaks of is outstanding.
LEMMA ConsumeIs ==
  ASSUME NEW A, NEW s, Audited(s, A), Open(s), NEW v, v = Consume(s)
  PROVE  /\ Audited(v, A) /\ v.hi = s.hi /\ v.w >= Boundary(s) - 1 /\ v.w >= s.w
         /\ ~Saturated(v)
         /\ ~Saturated(s) => \A x \in Boundary(s)..v.w : x \in A
<1>1. /\ s \in Entry /\ s.w <= s.hi /\ A \subseteq 1..s.hi /\ (s.hi = 0 \/ s.hi \in A)
      /\ Cardinality(s.above) <= MaxPendingAbove
      /\ Cardinality(RunStarts(s.ranged)) <= MaxPendingAbove
      /\ s.above \cap s.ranged = {} /\ Retained(s) \subseteq A
      /\ \A o \in Retained(s) : o > s.w + 1
      /\ s.aboveMax = Highest(s.above)
      /\ \A o \in A : o <= s.w \/ o \in Retained(s) \/ o >= s.floor
  BY DEF Audited
<1>2. /\ s.w \in Nat /\ s.hi \in Nat /\ s.hi \in 0..MaxOrd /\ Retained(s) \in SUBSET Ordinal
      /\ Boundary(s) \in Nat /\ Boundary(s) > 0 /\ Boundary(s) <= s.floor
      /\ \A o \in Retained(s) : Boundary(s) <= o
      /\ Retained(s) # {} /\ Retained(s) = s.above \cup s.ranged
      /\ \A o \in Ordinal : o \in Nat /\ o <= MaxOrd /\ o > 0
  <2>1. /\ s.w \in 0..MaxOrd /\ s.hi \in 0..MaxOrd /\ Retained(s) \in SUBSET Ordinal
        /\ Retained(s) = s.above \cup s.ranged
        /\ Boundary(s) \in 1..Infinity /\ Boundary(s) <= s.floor
        /\ \A o \in Retained(s) : Boundary(s) <= o
        /\ Retained(s) # {}
    BY <1>1, EntryParts, BoundaryIs
  <2>2. \A o \in Ordinal : o \in Nat /\ o <= MaxOrd /\ o > 0
    BY StreamConstants DEF Ordinal
  <2> QED BY <2>1, <2>2, StreamConstants
<1>3. Boundary(s) <= s.hi
  <2>1. PICK x \in Retained(s) : TRUE
    BY <1>2
  <2>2. x \in 1..s.hi /\ Boundary(s) <= x
    BY <1>1, <1>2, <2>1
  <2> QED BY <1>2, <2>2
<1>4. CASE Saturated(s)
  <2>1. v = Clean(s)
    BY <1>4 DEF Consume
  <2>2. /\ v \in Entry /\ v.w = s.hi /\ v.hi = s.hi /\ v.above = {} /\ v.ranged = {}
        /\ v.aboveMax = 0 /\ v.floor = Infinity
    BY <1>1, <2>1, CleanIs
  <2>3. RunStarts({}) = {} /\ Cardinality({}) = 0 /\ Highest({}) = 0
    BY FS_EmptySet DEF RunStarts, Highest
  <2>4. Retained(v) = {} /\ ~Saturated(v)
    BY <2>2 DEF Retained, Saturated
  <2>5. Audited(v, A)
    <3>1. \A o \in A : o <= v.w
      BY <1>1, <1>2, <2>2
    <3>2. v.w <= v.hi
      BY <1>2, <2>2
    <3> QED BY <1>1, <2>2, <2>3, <2>4, <3>1, <3>2, StreamConstants DEF Audited
  <2> QED BY <1>1, <1>2, <1>3, <1>4, <2>2, <2>4, <2>5
<1>5. CASE ~Saturated(s)
  <2> DEFINE kept == s.above \cup s.ranged
             m == Min(kept)
             e == RunEnd(kept, m)
             u == Above(s, e)
  <2>1. v = Resumed(u)
    BY <1>5 DEF Consume
  <2>2. kept = Retained(s) /\ kept \in SUBSET Ordinal
    BY <1>2
  <2>3. m = Boundary(s) /\ m \in kept
    BY <1>1, <1>5, <2>2, BoundaryIs
  <2>4. e \in kept /\ m <= e /\ (m..e) \subseteq kept /\ e + 1 \notin kept
    <3> HIDE DEF kept, m
    <3> QED BY <2>2, <2>3, RunEndIs
  <2>5. e + 1 \notin s.ranged /\ e + 1 \notin Retained(s) /\ e \in Ordinal /\ e \in A
    BY <1>1, <2>2, <2>4
  <2>6. e \in 1..s.hi /\ e \in Nat /\ e > s.w
    BY <1>1, <1>2, <2>2, <2>4, <2>5
  <2> HIDE DEF e, m, kept, u
  <2>7. /\ u \in Entry /\ u.w = e /\ u.hi = s.hi /\ u.floor = s.floor
        /\ u.above = {x \in s.above : x > e} /\ u.ranged = {x \in s.ranged : x > e}
        /\ Cardinality(u.above) <= MaxPendingAbove
        /\ Cardinality(RunStarts(u.ranged)) <= MaxPendingAbove
        /\ u.aboveMax = Highest(u.above)
    <3>1. u = Above(s, e)
      BY DEF u
    <3> QED BY <1>1, <2>5, <3>1, AboveIs
  <2>8. \A o \in A : o <= e \/ o \in Retained(s) \/ o >= s.floor
    <3> TAKE o \in A
    <3>1. o \in Nat
      BY <1>1, <1>2
    <3> QED BY <1>1, <1>2, <2>6, <3>1
  <2>9. LeftAbove(A, s, e, u)
    BY <1>1, <2>5, <2>6, <2>7, <2>8 DEF LeftAbove
  <2>10. /\ Audited(v, A) /\ v.hi = s.hi /\ v.w = e
         /\ v.floor = s.floor \/ ~Saturated(v)
    BY <1>5, <2>1, <2>9, ResumedIs
  <2>11. ~Saturated(v)
    BY <1>5, <2>10 DEF Saturated
  <2>12. \A x \in Boundary(s)..e : x \in A
    BY <1>1, <2>2, <2>3, <2>4
  <2>13. e >= Boundary(s) - 1 /\ e >= s.w
    BY <1>2, <2>3, <2>4, <2>6
  <2> QED BY <2>10, <2>11, <2>12, <2>13
<1> QED BY <1>4, <1>5

\* A report: whatever is in it was lost, and had not been reported.
LEMMA TakeGapsKeeps ==
  ASSUME StreamInv, TakeGaps
  PROVE  StreamInv'
<1> DEFINE b == Boundary(st)
           gap == (st.w + 1)..(b - 1)
<1>1. /\ Open(st) /\ holeAge >= Grace
      /\ reported' = reported \cup gap /\ count' = count + Cardinality(gap)
      /\ st' = Consume(st) /\ holeAge' = 0
      /\ queued' = queued /\ ord' = ord /\ lanes' = lanes /\ attached' = attached /\ owed' = owed
      /\ arrived' = arrived /\ lost' = lost /\ forgot' = forgot
  BY DEF TakeGaps, ReportGap, sender
<1>2. StreamParts /\ Accounted /\ Timed /\ Told
  BY DEF StreamInv
<1>3. /\ ord \in Nat /\ holeAge \in Nat /\ st \in Entry
      /\ st.w \in Nat /\ st.hi \in Nat /\ st.w <= st.hi /\ st.hi <= ord
      /\ b \in Nat /\ b <= st.floor /\ b <= st.hi /\ st.hi <= MaxOrd
      /\ \A o \in Retained(st) : b <= o
      /\ arrived \subseteq 1..st.hi /\ Audited(st, arrived)
      /\ Ordinal = 1..MaxOrd /\ MaxOrd \in Nat /\ ord <= MaxOrd
      /\ st.floor \in Nat
  <2>1. ord \in 0..MaxOrd /\ Audited(st, arrived)
    BY <1>2 DEF StreamParts, Accounted
  <2>2. /\ ord \in Nat /\ holeAge \in Nat /\ st \in Entry
        /\ st.w \in Nat /\ st.hi \in Nat /\ st.w <= st.hi /\ st.hi <= ord
        /\ b \in Nat /\ b <= st.floor /\ b <= st.hi
        /\ \A o \in Retained(st) : b <= o
        /\ arrived \subseteq 1..st.hi
        /\ Ordinal = 1..MaxOrd /\ MaxOrd \in Nat
    BY <1>1, StreamNumbers
  <2>3. st.floor \in 1..Infinity
    BY <2>2, EntryParts
  <2> QED BY <2>1, <2>2, <2>3, StreamConstants
<1> HIDE DEF b
<1>4. gap \subseteq Ordinal /\ gap \subseteq 1..ord
  BY <1>3
<1>5. \A o \in gap : o \notin arrived
  <2> SUFFICES ASSUME NEW o \in gap, o \in arrived PROVE FALSE
    OBVIOUS
  <2>1. o <= st.w \/ o \in Retained(st) \/ o >= st.floor
    BY <1>3 DEF Audited
  <2>2. o \in Nat /\ o > st.w /\ o < b
    BY <1>3
  <2> QED BY <1>3, <2>1, <2>2
<1>6. \A o \in gap : o \notin Fresh \cup Stale
  <2> SUFFICES ASSUME NEW o \in gap PROVE o \notin Fresh \cup Stale
    OBVIOUS
  <2>1. o \in Ordinal /\ o < b
    BY <1>3, <1>4
  <2>2. holeAge >= 1 /\ holeAge >= 2
    BY <1>1, <1>3, StreamConstants
  <2> QED BY <1>2, <2>1, <2>2 DEF Timed, b
<1>7. gap \subseteq lost
  BY <1>2, <1>4, <1>5, <1>6 DEF Accounted
<1>8. /\ reported \subseteq lost /\ reported \subseteq 1..st.w /\ count = Cardinality(reported)
      /\ owed /\ ~forgot => \A o \in 1..st.w : o \in arrived \cup reported
      /\ Saturated(st) => forgot
  BY <1>2 DEF Told
<1>9. count' = Cardinality(reported')
  <2>1. reported \cap gap = {}
    BY <1>3, <1>8
  <2>2. reported \subseteq Ordinal
    BY <1>3, <1>8
  <2>3. IsFiniteSet(reported) /\ IsFiniteSet(gap) /\ Cardinality(gap) \in Nat /\ Cardinality(reported) \in Nat
    BY <1>4, <2>2, SomeOrdinals
  <2>4. Cardinality({}) = 0
    BY FS_EmptySet
  <2> HIDE DEF gap
  <2>5. Cardinality(reported \cup gap) = Cardinality(reported) + Cardinality(gap)
    <3>1. Cardinality(reported \cup gap)
            = Cardinality(reported) + Cardinality(gap) - Cardinality(reported \cap gap)
      BY <2>3, FS_Union
    <3>2. Cardinality(reported \cap gap) = 0
      BY <2>1, <2>4
    <3> QED BY <2>3, <3>1, <3>2
  <2> QED BY <1>1, <1>8, <2>5
<1>10. /\ Audited(st', arrived) /\ st'.hi = st.hi /\ st'.w >= b - 1 /\ st'.w >= st.w
       /\ ~Saturated(st')
       /\ ~Saturated(st) => \A x \in b..st'.w : x \in arrived
  BY <1>1, <1>3, ConsumeIs DEF b
<1>11. st'.w \in Nat
  <2>1. st' \in Entry
    BY <1>10 DEF Audited
  <2>2. st'.w \in 0..MaxOrd
    BY <2>1, EntryParts
  <2> QED BY <2>2, StreamConstants
<1>12. Fresh' = Fresh /\ Stale' = Stale
  BY <1>1, SameFrames
<1>13. StreamParts'
  BY <1>1, <1>2, StreamConstants DEF StreamParts
<1>14. Accounted'
  BY <1>1, <1>2, <1>3, <1>10, <1>12 DEF Accounted
<1>15. Timed'
  BY <1>1 DEF Timed
<1>16. Told'
  <2>1. reported' \subseteq lost'
    BY <1>1, <1>7, <1>8
  <2>2. reported' \subseteq 1..st'.w
    <3>1. reported \subseteq 1..st'.w
      BY <1>3, <1>8, <1>10, <1>11
    <3>2. gap \subseteq 1..st'.w
      BY <1>3, <1>10, <1>11
    <3> QED BY <1>1, <3>1, <3>2
  <2>3. ASSUME owed, ~forgot, NEW o \in 1..st'.w PROVE o \in arrived \cup reported'
    <3>1. o \in 1..st.w \/ o \in gap \/ o \in b..st'.w
      BY <1>3, <1>11
    <3>2. CASE o \in 1..st.w
      BY <1>1, <1>8, <2>3, <3>2
    <3>3. CASE o \in gap
      BY <1>1, <3>3
    <3>4. CASE o \in b..st'.w
      BY <1>8, <1>10, <2>3, <3>4
    <3> QED BY <3>1, <3>2, <3>3, <3>4
  <2> QED BY <1>1, <1>9, <1>10, <2>1, <2>2, <2>3 DEF Told
<1> QED BY <1>13, <1>14, <1>15, <1>16 DEF StreamInv

\* A tick passes.
LEMMA TickKeeps ==
  ASSUME StreamInv, Tick
  PROVE  StreamInv'
<1>1. /\ \A l \in Lane : \A i \in DOMAIN lanes[l] : ~lanes[l][i].old
      /\ lanes' = [l \in Lane |-> [i \in DOMAIN lanes[l] |-> [lanes[l][i] EXCEPT !.old = TRUE]]]
      /\ holeAge' = IF Open(st) THEN Min({holeAge + 1, Grace}) ELSE 0
      /\ queued' = queued /\ ord' = ord /\ attached' = attached /\ owed' = owed /\ st' = st
      /\ arrived' = arrived /\ forgot' = forgot /\ reported' = reported /\ count' = count
      /\ lost' = lost
  BY DEF Tick, sender, reports
<1>2. StreamParts /\ Accounted /\ Timed /\ Told
  BY DEF StreamInv
<1>3. lanes \in [Lane -> Seq(Framed)] /\ holeAge \in 0..Grace
  BY <1>2 DEF StreamParts
<1>4. ASSUME NEW l \in Lane
      PROVE  /\ lanes'[l] \in Seq(Framed)
             /\ \A o : ~Aboard(lanes'[l], o, FALSE) /\ ~Aboard(lanes[l], o, TRUE)
             /\ \A o : Aboard(lanes'[l], o, TRUE) <=> Aboard(lanes[l], o, FALSE)
  <2>1. lanes[l] \in Seq(Framed) /\ \A i \in DOMAIN lanes[l] : ~lanes[l][i].old
    BY <1>1, <1>3
  <2>2. lanes'[l] = [i \in DOMAIN lanes[l] |-> [lanes[l][i] EXCEPT !.old = TRUE]]
    BY <1>1
  <2> QED BY <2>1, <2>2, LaneAged
<1>5. lanes' \in [Lane -> Seq(Framed)]
  <2>1. lanes' = [l \in Lane |-> lanes'[l]]
    BY <1>1
  <2> QED BY <1>4, <2>1
<1>6. Fresh' = {} /\ Stale = {} /\ Stale' = Fresh
  BY <1>4 DEF Fresh, Stale
<1>7. holeAge' \in 0..Grace /\ (holeAge' # 0 => Open(st)) /\ (holeAge' >= 2 => holeAge >= 1)
  <2>1. Min({holeAge + 1, Grace}) = IF holeAge + 1 <= Grace THEN holeAge + 1 ELSE Grace
    <3>1. holeAge + 1 \in Int /\ Grace \in Int
      BY <1>3, StreamConstants
    <3> QED BY <3>1, OfTwo
  <2> QED BY <1>1, <1>3, <2>1, StreamConstants
<1>8. StreamParts'
  BY <1>1, <1>2, <1>5, <1>7 DEF StreamParts
<1>9. Accounted'
  BY <1>1, <1>2, <1>6 DEF Accounted
<1>10. Timed'
  <2>1. ASSUME NEW o \in Ordinal, o < Boundary(st), holeAge' >= 2 PROVE o \notin Stale'
    BY <1>2, <1>6, <1>7, <2>1 DEF Timed
  <2> QED BY <1>1, <1>6, <1>7, <2>1 DEF Timed
<1>11. Told'
  BY <1>1, <1>2 DEF Told
<1> QED BY <1>8, <1>9, <1>10, <1>11 DEF StreamInv

\* What does not move the stream leaves its invariant.
LEMMA StreamStutters ==
  ASSUME StreamInv, UNCHANGED streamVars
  PROVE  StreamInv'
<1>1. /\ queued' = queued /\ ord' = ord /\ lanes' = lanes /\ attached' = attached /\ owed' = owed
      /\ st' = st /\ holeAge' = holeAge /\ arrived' = arrived /\ forgot' = forgot
      /\ reported' = reported /\ count' = count /\ lost' = lost
  BY DEF streamVars, sender, receiver, reports
<1>2. Fresh' = Fresh /\ Stale' = Stale
  BY <1>1, SameFrames
<1> QED BY <1>1, <1>2 DEF StreamInv, StreamParts, Accounted, Timed, Told

\* Every step keeps the invariant.
LEMMA StreamInvIsKept ==
  ASSUME StreamInv, [StreamNext]_streamVars
  PROVE  StreamInv'
<1>1. CASE BatchRelay
  BY <1>1, BatchRelayKeeps
<1>2. CASE \E fate \in UNION {[1..n -> Fate] : n \in 1..MaxQueue} : FlushBatch(fate)
  <2>1. PICK n \in 1..MaxQueue : \E fate \in [1..n -> Fate] : FlushBatch(fate)
    BY <1>2
  <2> QED BY <2>1, FlushBatchKeeps
<1>3. CASE \E n \in 1..2, fate \in Fate : RelayBatched(n, fate)
  BY <1>3, RelayBatchedKeeps
<1>4. CASE Attach
  BY <1>4, AttachKeeps
<1>5. CASE \E l \in Lane : Receive(l)
  BY <1>5, ReceiveKeeps
<1>6. CASE TakeGaps
  BY <1>6, TakeGapsKeeps
<1>7. CASE Tick
  BY <1>7, TickKeeps
<1>8. CASE UNCHANGED streamVars
  BY <1>8, StreamStutters
<1> QED BY <1>1, <1>2, <1>3, <1>4, <1>5, <1>6, <1>7, <1>8 DEF StreamNext

\* It says that the reports are exact.
LEMMA StreamInvTells == StreamInv => ReportsAreExact
<1> SUFFICES ASSUME StreamInv PROVE ReportsAreExact
  OBVIOUS
<1>1. StreamParts /\ Accounted /\ Told
  BY DEF StreamInv
<1>2. Audited(st, arrived) /\ st \in Entry
  BY <1>1 DEF Accounted, Audited
<1>3. reported \subseteq lost /\ count = Cardinality(reported)
  BY <1>1 DEF Told
<1>4. /\ arrived \in SUBSET Ordinal /\ lost \in SUBSET Ordinal /\ reported \in SUBSET Ordinal
      /\ Ordinal = 1..MaxOrd
  <2>1. lost \subseteq 1..ord /\ ord \in 0..MaxOrd
    BY <1>1 DEF StreamParts, Accounted
  <2>2. arrived \in SUBSET Ordinal /\ Ordinal = 1..MaxOrd
    BY StreamNumbers
  <2> QED BY <1>3, <2>1, <2>2, StreamConstants
<1>5. count \in 0..MaxOrd
  <2>1. Cardinality(reported) \in Nat /\ Cardinality(reported) <= MaxOrd
    BY <1>4, SomeOrdinals
  <2> QED BY <1>3, <2>1, StreamConstants
<1>6. \A l \in Lane : \A i \in DOMAIN lanes[l] :
         lanes[l][i].ords \in Seq(1..MaxOrd) /\ lanes[l][i].old \in BOOLEAN
  <2> SUFFICES ASSUME NEW l \in Lane, NEW i \in DOMAIN lanes[l]
               PROVE  lanes[l][i].ords \in Seq(1..MaxOrd) /\ lanes[l][i].old \in BOOLEAN
    OBVIOUS
  <2>1. lanes[l] \in Seq(Framed)
    BY <1>1 DEF StreamParts
  <2>2. lanes[l][i] \in Framed
    BY <2>1
  <2> QED BY <1>4, <2>2, CarriesIs
<1>7. StreamTypeOK
  BY <1>1, <1>2, <1>4, <1>5, <1>6 DEF StreamTypeOK, StreamParts, Entry
<1>8. RetentionConsistent
  BY <1>2 DEF RetentionConsistent, Audited, Retained
<1>9. NothingSkipped
  BY <1>1 DEF Told, NothingSkipped
<1> QED BY <1>3, <1>7, <1>8, <1>9 DEF ReportsAreExact

\* A worker that audits a peer's stream reports lost frames only, each at most
\* once, and passes none in silence while its record has forgotten nothing: for
\* every bound on the record, every grace and every reordering of the two lanes
\* (recordOriginStream, takeConfirmedGaps).
THEOREM ReportsStayExact == StreamSpec => []ReportsAreExact
<1>1. StreamInit => StreamInv
  BY StreamStarts
<1>2. StreamInv /\ [StreamNext]_streamVars => StreamInv'
  BY StreamInvIsKept
<1>3. StreamInv => ReportsAreExact
  BY StreamInvTells
<1> QED BY <1>1, <1>2, <1>3, PTL DEF StreamSpec

=============================================================================
