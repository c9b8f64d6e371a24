---------------------------- MODULE PluginProofs ----------------------------
(***************************************************************************)
(* Proofs about three server plugins.  Groups: who is a member is who      *)
(* receives, and the roster a member's client shows is the membership.     *)
(* The queue: its accounts are exact, and its service line is fair.        *)
(* Throttle: the latest value of a topic waits for a timer, or is out.     *)
(***************************************************************************)
EXTENDS Group, QueueAccounts, ThrottleTopics, SequenceLemmas, FiniteSetTheorems, TLAPS

Que == INSTANCE TaskQueue
Thr == INSTANCE Throttle

\* The types of a group and what its clients show.
WorldType ==
  [group    : [role : [Member -> Role \cup {NoRole}], subs : SUBSET Member, closed : BOOLEAN],
   roster   : [Member -> [Role -> Nat]],
   phantoms : [Role -> Nat]]

\* The rosters of the clients in R, each at least the membership.
RostersOf(w, R) ==
  \A m \in R : \A r \in Role : w.roster[m][r] - RolesOf(w)[r] \in 0..w.phantoms[r]

\* A group at rest, between two calls.
Sound(w) ==
  /\ w \in WorldType
  /\ w.group.subs = Members(w) \cap open
  /\ RostersOf(w, w.group.subs)

\* A count that is not let fall below zero.
LEMMA MaxOfTwo ==
  ASSUME NEW a \in Int
  PROVE  Max({0, a}) = IF a > 0 THEN a ELSE 0
BY DEF Max

\* How many members each role has: a number, of a finite set.
LEMMA RoleCounts ==
  ASSUME GroupAssumption, NEW w \in WorldType
  PROVE  /\ RolesOf(w) \in [Role -> Nat]
         /\ \A r \in Role : IsFiniteSet({m \in Member : w.group.role[m] = r})
<1>1. \A r \in Role : IsFiniteSet({m \in Member : w.group.role[m] = r})
  BY FS_Subset DEF GroupAssumption
<1> QED BY <1>1, FS_CardinalityType DEF RolesOf

\* One more member of a role.
LEMMA RoleGained ==
  ASSUME GroupAssumption, NEW w \in WorldType, NEW v \in WorldType,
         NEW m \in Member, NEW r \in Role,
         w.group.role[m] = NoRole, v.group.role = [w.group.role EXCEPT ![m] = r]
  PROVE  RolesOf(v) = [RolesOf(w) EXCEPT ![r] = @ + 1]
<1> DEFINE Had(q) == {x \in Member : w.group.role[x] = q}
           Has(q) == {x \in Member : v.group.role[x] = q}
<1>1. \A q \in Role : IsFiniteSet(Had(q)) /\ m \notin Had(q)
  BY RoleCounts DEF GroupAssumption
<1>2. w.group.role \in [Member -> Role \cup {NoRole}]
  BY DEF WorldType
<1>3. Has(r) = Had(r) \cup {m} /\ \A q \in Role \ {r} : Has(q) = Had(q)
  BY <1>2 DEF GroupAssumption
<1>4. Cardinality(Has(r)) = Cardinality(Had(r)) + 1
  BY <1>1, <1>3, FS_AddElement
<1>5. RolesOf(v) = [q \in Role |-> Cardinality(Has(q))] /\ RolesOf(w) = [q \in Role |-> Cardinality(Had(q))]
  BY DEF RolesOf
<1> HIDE DEF Had, Has
<1> QED BY <1>3, <1>4, <1>5

\* One member of a role less.
LEMMA RoleLost ==
  ASSUME GroupAssumption, NEW w \in WorldType, NEW v \in WorldType, NEW m \in Member,
         w.group.role[m] # NoRole, v.group.role = [w.group.role EXCEPT ![m] = NoRole]
  PROVE  /\ RolesOf(w)[w.group.role[m]] > 0
         /\ RolesOf(v) = [RolesOf(w) EXCEPT ![w.group.role[m]] = @ - 1]
<1> DEFINE r == w.group.role[m]
<1>1. r \in Role
  BY DEF WorldType
<1>2. v.group.role[m] = NoRole /\ w.group.role = [v.group.role EXCEPT ![m] = r]
  BY DEF WorldType
<1>3. RolesOf(w) = [RolesOf(v) EXCEPT ![r] = @ + 1]
  BY <1>1, <1>2, RoleGained
<1> HIDE DEF r
<1>4. RolesOf(v) \in [Role -> Nat]
  BY RoleCounts
<1>5. RolesOf(w)[r] = RolesOf(v)[r] + 1 /\ RolesOf(v)[r] \in Nat
  BY <1>1, <1>3, <1>4
<1>6. RolesOf(v) = [RolesOf(w) EXCEPT ![r] = @ - 1]
  <2> DEFINE old == RolesOf(w)
             new == RolesOf(v)
  <2> HIDE DEF old, new
  <2>1. new \in [Role -> Nat] /\ old = [new EXCEPT ![r] = @ + 1]
    BY <1>3, <1>4 DEF old, new
  <2>2. old \in [Role -> Nat] /\ (old[r] = new[r] + 1) /\ \A q \in Role \ {r} : old[q] = new[q]
    BY <2>1, <1>1
  <2>3. \A q \in Role : new[q] = [old EXCEPT ![r] = @ - 1][q]
    BY <2>1, <2>2, <1>1
  <2>4. new = [old EXCEPT ![r] = @ - 1]
    BY <2>1, <2>2, <2>3
  <2> QED BY <2>4 DEF old, new
<1> QED BY <1>5, <1>6 DEF r

-----------------------------------------------------------------------------
(* What the calls do to a group at rest.                                    *)

\* A message to the subscribed changes their rosters and nothing else (publish).
LEMMA ToldKeeps ==
  ASSUME NEW w \in WorldType, NEW lists \in [Member -> [Role -> Nat]]
  PROVE  /\ Told(w, lists) \in WorldType
         /\ Told(w, lists).group = w.group
         /\ Told(w, lists).phantoms = w.phantoms
         /\ \A m \in Member : Told(w, lists).roster[m] = IF m \in w.group.subs THEN lists[m] ELSE w.roster[m]
<1> DEFINE new == [m \in Member |-> IF m \in w.group.subs THEN lists[m] ELSE w.roster[m]]
<1>1. new \in [Member -> [Role -> Nat]]
  BY DEF WorldType
<1>2. Told(w, lists) = [w EXCEPT !.roster = new]
  BY DEF Told
<1> HIDE DEF new
<1>3. /\ Told(w, lists) \in WorldType /\ Told(w, lists).group = w.group
      /\ Told(w, lists).phantoms = w.phantoms /\ Told(w, lists).roster = new
  BY <1>1, <1>2 DEF WorldType
<1> QED BY <1>3 DEF new

\* A join (its publish, the installation and the subscription) keeps every roster true.
LEMMA InstallIsSound ==
  ASSUME GroupAssumption, NEW w, Sound(w), NEW m \in Member \ Members(w), NEW r \in Role
  PROVE  /\ Sound(Install(w, m, r))
         /\ Members(Install(w, m, r)) = IF m \in open THEN Members(w) \cup {m} ELSE Members(w)
         /\ Install(w, m, r).group.closed = w.group.closed
<1> DEFINE u == [w EXCEPT !.group.role[m] = r]
           lists == [x \in Member |-> [u.roster[x] EXCEPT ![r] = @ + 1]]
           v == ToldJoin(u, r)
<1>0. w \in WorldType /\ w.group.role[m] = NoRole /\ r # NoRole
  BY DEF Sound, Members, GroupAssumption
<1>1. /\ u \in WorldType /\ u.roster = w.roster /\ u.phantoms = w.phantoms
      /\ u.group.role = [w.group.role EXCEPT ![m] = r]
      /\ u.group.subs = w.group.subs /\ u.group.closed = w.group.closed
  BY <1>0 DEF WorldType
<1>2. lists \in [Member -> [Role -> Nat]]
  <2> HIDE DEF u
  <2>1. u.roster \in [Member -> [Role -> Nat]]
    BY <1>1 DEF WorldType
  <2>2. \A x \in Member : [u.roster[x] EXCEPT ![r] = @ + 1] \in [Role -> Nat]
    BY <2>1
  <2> QED BY <2>2
<1>3. /\ v \in WorldType /\ v.group = u.group /\ v.phantoms = w.phantoms
      /\ \A x \in Member : v.roster[x] = IF x \in w.group.subs THEN lists[x] ELSE w.roster[x]
  <2> HIDE DEF u
  <2>1. v = Told(u, lists) BY DEF ToldJoin
  <2> HIDE DEF v, lists
  <2> QED BY <2>1, <1>1, <1>2, ToldKeeps
<1>4. RolesOf(v) = [RolesOf(w) EXCEPT ![r] = @ + 1] /\ RolesOf(w) \in [Role -> Nat]
  <2> HIDE DEF u, v
  <2> QED BY <1>0, <1>1, <1>3, RoleGained, RoleCounts
<1>5. RostersOf(v, w.group.subs)
  <2> SUFFICES ASSUME NEW x \in w.group.subs, NEW q \in Role
               PROVE  v.roster[x][q] - RolesOf(v)[q] \in 0..v.phantoms[q]
    BY DEF RostersOf
  <2>1. w.roster[x][q] - RolesOf(w)[q] \in 0..w.phantoms[q] /\ x \in Member
    BY <1>0 DEF Sound, RostersOf, WorldType
  <2>2. v.roster[x] = [w.roster[x] EXCEPT ![r] = @ + 1] /\ w.roster[x] \in [Role -> Nat]
    <3>1. lists[x] = [w.roster[x] EXCEPT ![r] = @ + 1]
      BY <2>1, <1>1
    <3> QED BY <2>1, <3>1, <1>0, <1>3 DEF WorldType
  <2>3. v.phantoms[q] = w.phantoms[q] /\ w.phantoms[q] \in Nat
    BY <1>0, <1>3 DEF WorldType
  <2> HIDE DEF u, v, lists
  <2> QED BY <2>1, <2>2, <2>3, <1>4
<1>6. Members(v) = Members(w) \cup {m}
  <2>1. v.group.role = [w.group.role EXCEPT ![m] = r] /\ w.group.role \in [Member -> Role \cup {NoRole}]
    BY <1>0, <1>1, <1>3 DEF WorldType
  <2> HIDE DEF u, v
  <2> QED BY <2>1, <1>0 DEF Members
<1>7. v.group.subs = w.group.subs /\ w.group.subs = Members(w) \cap open /\ v.group.closed = w.group.closed
  BY <1>0, <1>1, <1>3 DEF Sound
<1> HIDE DEF u, v, lists
<1>8. CASE m \notin open
  <2> DEFINE gone == [Removed(v, m) EXCEPT !.phantoms[r] = @ + 1]
  <2>1. Install(w, m, r) = gone
    BY <1>8 DEF Install, u, v
  <2>2. /\ gone \in WorldType /\ gone.roster = v.roster
        /\ gone.phantoms = [v.phantoms EXCEPT ![r] = @ + 1]
        /\ gone.group.role = [v.group.role EXCEPT ![m] = NoRole]
        /\ gone.group.subs = v.group.subs /\ gone.group.closed = v.group.closed
    <3> DEFINE out == Removed(v, m)
    <3>1. /\ out \in WorldType /\ out.roster = v.roster /\ out.phantoms = v.phantoms
          /\ out.group.role = [v.group.role EXCEPT ![m] = NoRole]
          /\ out.group.subs = v.group.subs /\ out.group.closed = v.group.closed
      BY <1>3 DEF Removed, WorldType
    <3>2. gone = [out EXCEPT !.phantoms[r] = @ + 1]
      OBVIOUS
    <3> HIDE DEF out, gone
    <3>3. out.phantoms \in [Role -> Nat]
      BY <3>1 DEF WorldType
    <3>4. [out.phantoms EXCEPT ![r] = @ + 1] \in [Role -> Nat]
      BY <3>3
    <3> QED BY <3>1, <3>2, <3>4 DEF WorldType
  <2> HIDE DEF gone
  <2>3. gone.group.role = w.group.role
    BY SMTT(30), <2>2, <1>0, <1>1, <1>3 DEF WorldType
  <2>4. Members(gone) = Members(w) /\ RolesOf(gone) = RolesOf(w)
    BY <2>3 DEF Members, RolesOf
  <2>5. RostersOf(gone, w.group.subs)
    <3> SUFFICES ASSUME NEW x \in w.group.subs, NEW q \in Role
                 PROVE  gone.roster[x][q] - RolesOf(gone)[q] \in 0..gone.phantoms[q]
      BY DEF RostersOf
    <3>1. v.roster[x][q] - RolesOf(v)[q] \in 0..v.phantoms[q]
      BY <1>5 DEF RostersOf
    <3>2. v.phantoms \in [Role -> Nat] /\ v.roster[x][q] \in Nat
      BY <1>3, <1>0 DEF WorldType
    <3> QED BY <3>1, <3>2, <2>2, <2>4, <1>4
  <2>6. Sound(gone)
    BY <2>2, <2>4, <2>5, <1>7 DEF Sound
  <2> QED BY <1>8, <2>1, <2>2, <2>4, <2>6, <1>7
<1>9. CASE m \in open
  <2> DEFINE s == [v EXCEPT !.group.subs = @ \cup {m}]
             t == [s EXCEPT !.roster[m] = RolesOf(s)]
  <2>1. Install(w, m, r) = t
    BY <1>9 DEF Install, u, v
  <2>2. /\ s \in WorldType /\ s.roster = v.roster /\ s.phantoms = v.phantoms
        /\ s.group.role = v.group.role /\ s.group.closed = v.group.closed
        /\ s.group.subs = v.group.subs \cup {m}
    BY <1>3 DEF WorldType
  <2>3. RolesOf(s) = RolesOf(v) /\ RolesOf(s) \in [Role -> Nat]
    <3> HIDE DEF s
    <3> QED BY <2>2, RoleCounts DEF RolesOf
  <2>4. /\ t \in WorldType /\ t.group = s.group /\ t.phantoms = v.phantoms
        /\ t.roster = [v.roster EXCEPT ![m] = RolesOf(v)]
    <3> HIDE DEF s
    <3> QED BY <2>2, <2>3 DEF WorldType
  <2> HIDE DEF s, t
  <2>5. RolesOf(t) = RolesOf(v) /\ Members(t) = Members(v)
    BY <2>2, <2>4 DEF RolesOf, Members
  <2>6. RostersOf(t, t.group.subs)
    <3> SUFFICES ASSUME NEW x \in t.group.subs, NEW q \in Role
                 PROVE  t.roster[x][q] - RolesOf(t)[q] \in 0..t.phantoms[q]
      BY DEF RostersOf
    <3>1. x \in w.group.subs \cup {m} /\ v.roster \in [Member -> [Role -> Nat]] /\ v.phantoms \in [Role -> Nat]
      BY <2>2, <2>4, <1>7, <1>3 DEF WorldType
    <3>2. CASE x = m
      <4>1. t.roster[x] = RolesOf(t)
        BY <3>1, <3>2, <2>4, <2>5
      <4>2. RolesOf(t)[q] \in Nat /\ t.phantoms[q] \in Nat
        BY <2>3, <2>4, <2>5, <3>1
      <4> QED BY <4>1, <4>2
    <3>3. CASE x # m
      <4>1. x \in w.group.subs /\ t.roster[x] = v.roster[x]
        BY <3>1, <3>3, <2>4
      <4> QED BY <4>1, <1>5, <2>4, <2>5 DEF RostersOf
    <3> QED BY <3>2, <3>3
  <2>7. t.group.subs = Members(t) \cap open
    BY <2>2, <2>4, <2>5, <1>6, <1>7, <1>9
  <2> QED BY <1>9, <2>1, <2>2, <2>4, <2>5, <2>6, <2>7, <1>6, <1>7 DEF Sound
<1> QED BY <1>8, <1>9

\* A join from inside a callback (join() re-entered) does, its refusals included.
LEMMA JoinedIsSound ==
  ASSUME GroupAssumption, NEW w, Sound(w), NEW m \in Member, NEW r \in Role
  PROVE  /\ Sound(Joined(w, m, r))
         /\ Members(Joined(w, m, r)) \subseteq Members(w) \cup {m}
         /\ Joined(w, m, r).group.closed = w.group.closed
<1>1. CASE w.group.closed \/ m \in Members(w) \/ Cardinality(Members(w)) >= MaxMembers \/ r = NoRole
  BY <1>1 DEF Joined
<1>2. CASE ~(w.group.closed \/ m \in Members(w) \/ Cardinality(Members(w)) >= MaxMembers \/ r = NoRole)
  <2>1. Joined(w, m, r) = Install(w, m, r)
    BY <1>2 DEF Joined
  <2> QED BY <1>2, <2>1, InstallIsSound
<1> QED BY <1>1, <1>2

\* A leave (the removal, the unsubscription, then the message) does.
LEMMA LeftIsSound ==
  ASSUME GroupAssumption, NEW w, Sound(w), NEW m \in Members(w)
  PROVE  /\ Sound(Left(w, m))
         /\ Members(Left(w, m)) = Members(w) \ {m}
         /\ Left(w, m).group.closed = w.group.closed
<1> DEFINE r == w.group.role[m]
           u == Unsubscribed(Removed(w, m), m)
           lists == [x \in Member |-> [u.roster[x] EXCEPT ![r] = Max({0, @ - 1})]]
           v == ToldLeave(u, r)
<1>0. w \in WorldType /\ m \in Member /\ r \in Role /\ r # NoRole
  BY DEF Sound, Members, WorldType, GroupAssumption
<1>1. /\ u \in WorldType /\ u.roster = w.roster /\ u.phantoms = w.phantoms
      /\ u.group.role = [w.group.role EXCEPT ![m] = NoRole]
      /\ u.group.subs = w.group.subs \ {m} /\ u.group.closed = w.group.closed
  <2> DEFINE out == Removed(w, m)
  <2>1. /\ out \in WorldType /\ out.roster = w.roster /\ out.phantoms = w.phantoms
        /\ out.group.role = [w.group.role EXCEPT ![m] = NoRole]
        /\ out.group.subs = w.group.subs /\ out.group.closed = w.group.closed
    BY <1>0 DEF Removed, WorldType
  <2>2. u = [out EXCEPT !.group.subs = @ \ {m}]
    BY DEF Unsubscribed
  <2> HIDE DEF out, u
  <2> QED BY <2>1, <2>2 DEF WorldType
<1> HIDE DEF u, r
<1>2. /\ lists \in [Member -> [Role -> Nat]]
      /\ \A x \in Member : lists[x] = [w.roster[x] EXCEPT ![r] = Max({0, @ - 1})]
  <2>1. u.roster \in [Member -> [Role -> Nat]]
    BY <1>1 DEF WorldType
  <2>2. \A x \in Member : u.roster[x][r] \in Nat
    BY <2>1, <1>0
  <2>3. \A x \in Member : Max({0, u.roster[x][r] - 1}) \in Nat
    BY <2>2, MaxOfTwo
  <2>4. \A x \in Member : [u.roster[x] EXCEPT ![r] = Max({0, @ - 1})] \in [Role -> Nat]
    BY <2>1, <2>3
  <2> QED BY <2>4, <1>1
<1>3. /\ v \in WorldType /\ v.group = u.group /\ v.phantoms = w.phantoms
      /\ \A x \in Member : v.roster[x] = IF x \in u.group.subs THEN lists[x] ELSE w.roster[x]
  <2>1. v = Told(u, lists) BY DEF ToldLeave
  <2> HIDE DEF v, lists
  <2> QED BY <2>1, <1>1, <1>2, ToldKeeps
<1> HIDE DEF v, lists
<1>4. /\ RolesOf(w)[r] > 0 /\ RolesOf(v) = [RolesOf(w) EXCEPT ![r] = @ - 1]
      /\ RolesOf(w) \in [Role -> Nat]
  BY <1>0, <1>1, <1>3, RoleLost, RoleCounts DEF r
<1>5. RostersOf(v, v.group.subs)
  <2> SUFFICES ASSUME NEW x \in v.group.subs, NEW q \in Role
               PROVE  v.roster[x][q] - RolesOf(v)[q] \in 0..v.phantoms[q]
    BY DEF RostersOf
  <2>1. w.roster[x][q] - RolesOf(w)[q] \in 0..w.phantoms[q] /\ x \in Member
    BY <1>0, <1>1, <1>3 DEF Sound, RostersOf, WorldType
  <2>2. v.roster[x] = [w.roster[x] EXCEPT ![r] = Max({0, @ - 1})] /\ w.roster[x] \in [Role -> Nat]
    BY <2>1, <1>0, <1>2, <1>3 DEF WorldType
  <2>3. v.phantoms[q] = w.phantoms[q] /\ w.phantoms[q] \in Nat
    BY <1>0, <1>3 DEF WorldType
  <2>4. CASE q # r
    BY <2>1, <2>2, <2>3, <2>4, <1>4
  <2>5. CASE q = r
    <3>1. w.roster[x][r] \in Nat /\ w.roster[x][r] >= RolesOf(w)[r] /\ RolesOf(w)[r] \in Nat
      BY <2>1, <2>2, <2>3, <2>5, <1>4
    <3>2. v.roster[x][r] = w.roster[x][r] - 1
      BY <3>1, <2>2, <1>0, <1>4, MaxOfTwo
    <3> QED BY <2>1, <2>3, <2>5, <3>1, <3>2, <1>4
  <2> QED BY <2>4, <2>5
<1>6. Members(v) = Members(w) \ {m}
  <2>1. v.group.role = [w.group.role EXCEPT ![m] = NoRole] /\ w.group.role \in [Member -> Role \cup {NoRole}]
    BY <1>0, <1>1, <1>3 DEF WorldType
  <2> QED BY <2>1, <1>0 DEF Members
<1>7. v.group.subs = Members(v) \cap open
  BY <1>1, <1>3, <1>6 DEF Sound
<1>8. Left(w, m) = v
  BY DEF Left, v, u, r
<1> QED BY <1>1, <1>3, <1>5, <1>6, <1>7, <1>8 DEF Sound

\* The closing of the group (close()) leaves nobody in it.
LEMMA DissolvedIsSound ==
  ASSUME GroupAssumption, NEW w, Sound(w), ~w.group.closed
  PROVE  /\ Sound(Dissolved(w))
         /\ Members(Dissolved(w)) = {}
         /\ Dissolved(w).group.closed
<1> DEFINE told == ToldClose(w)
           v == [told EXCEPT !.group.closed = TRUE, !.group.subs = {},
                             !.group.role = [m \in Member |-> NoRole]]
<1>1. told \in WorldType
  <2>1. [m \in Member |-> Nobody] \in [Member -> [Role -> Nat]]
    BY DEF Nobody
  <2> QED BY <2>1, ToldKeeps DEF ToldClose, Sound
<1>2. Dissolved(w) = v
  BY DEF Dissolved
<1> HIDE DEF told
<1>3. v \in WorldType /\ v.group.subs = {} /\ v.group.closed /\ v.group.role = [m \in Member |-> NoRole]
  BY <1>1 DEF WorldType
<1> HIDE DEF v
<1>4. Members(v) = {}
  BY <1>3 DEF Members
<1> QED BY <1>2, <1>3, <1>4 DEF Sound, RostersOf

-----------------------------------------------------------------------------
(* The inductive invariant, and the steps.                                  *)

\* The group is sound between two calls, and the caps and the closing hold
\* unless an admission hook went behind them.
GroupInv ==
  /\ Sound(World)
  /\ open \subseteq Member
  /\ nested \subseteq {"join", "close"}
  /\ nested = {} => Cardinality(Members(World)) <= MaxMembers
  /\ group.closed /\ "close" \notin nested => Members(World) = {}

\* The members are finitely many.
LEMMA MembersCount ==
  ASSUME GroupAssumption, NEW w
  PROVE  IsFiniteSet(Members(w)) /\ Cardinality(Members(w)) \in Nat
BY FS_Subset, FS_CardinalityType DEF GroupAssumption, Members

\* What the callbacks of a call left behind is the new world.
LEMMA BecomeIsSound ==
  ASSUME NEW STATE w, Sound(w), Become(w), UNCHANGED open
  PROVE  /\ Sound(World)'
         /\ Members(World)' = Members(w)
         /\ group'.closed = w.group.closed
<1>1. w \in WorldType
  BY DEF Sound
<1>2. World' = w
  BY <1>1 DEF Become, World, WorldType
<1> QED BY <1>1, <1>2 DEF Sound, Members, RostersOf, RolesOf, World

\* The empty group is sound.
LEMMA InitIsSound ==
  ASSUME GroupAssumption, Init
  PROVE  GroupInv
<1>1. World \in WorldType
  BY DEF Init, World, WorldType, Nobody
<1>2. Members(World) = {}
  BY DEF Init, World, Members
<1>3. Sound(World)
  BY <1>1, <1>2 DEF Sound, Init, World, RostersOf
<1>4. Cardinality(Members(World)) = 0
  BY <1>2, FS_EmptySet
<1> QED BY <1>2, <1>3, <1>4 DEF GroupInv, Init, GroupAssumption

\* A join from outside, with whatever its onJoin hook calls back.
LEMMA JoinStep ==
  ASSUME GroupAssumption, GroupInv, NEW m \in Member, NEW r \in Role, Join(m, r)
  PROVE  GroupInv'
<1>1. /\ Sound(World) /\ m \notin Members(World) /\ ~group.closed /\ UNCHANGED open
      /\ Cardinality(Members(World)) < MaxMembers
  BY DEF GroupInv, Join
<1>2. ASSUME NEW STATE w, Sound(w), m \notin Members(w), Become(Install(w, m, r))
      PROVE  /\ Sound(World)'
             /\ Members(World)' \subseteq Members(w) \cup {m}
             /\ group'.closed = w.group.closed
  BY <1>1, <1>2, InstallIsSound, BecomeIsSound
<1>3. CASE Become(Joined(World, m, r)) /\ UNCHANGED nested
  <2>1. /\ Sound(World)' /\ Members(World)' \subseteq Members(World) \cup {m}
        /\ group'.closed = World.group.closed
    BY <1>1, <1>3, JoinedIsSound, BecomeIsSound
  <2>2. Cardinality(Members(World)') <= Cardinality(Members(World) \cup {m})
    BY <2>1, MembersCount, FS_AddElement, FS_Subset
  <2>3. Cardinality(Members(World)') <= MaxMembers
    <3>1. Cardinality(Members(World) \cup {m}) = Cardinality(Members(World)) + 1
      BY <1>1, MembersCount, FS_AddElement
    <3>2. Cardinality(Members(World)') \in Nat
      <4>1. IsFiniteSet(Members(World) \cup {m})
        BY MembersCount, FS_AddElement
      <4> QED BY <4>1, <2>1, FS_Subset, FS_CardinalityType
    <3> QED BY <1>1, <2>2, <3>1, <3>2, MembersCount DEF GroupAssumption
  <2> QED BY <2>1, <2>3, <1>1, <1>3 DEF GroupInv, World
<1>4. CASE \E o \in Member \ {m} :
             /\ Become(Install(Joined(World, o, r), m, r))
             /\ nested' = nested \cup {"join"}
  <2>1. PICK o \in Member \ {m} : /\ Become(Install(Joined(World, o, r), m, r))
                                  /\ nested' = nested \cup {"join"}
    BY <1>4
  <2>2. /\ Sound(Joined(World, o, r)) /\ m \notin Members(Joined(World, o, r))
        /\ ~Joined(World, o, r).group.closed
    BY <1>1, <2>1, JoinedIsSound DEF World
  <2>3. Sound(World)' /\ ~group'.closed
    BY <1>2, <2>1, <2>2
  <2> QED BY <2>1, <2>3, <1>1 DEF GroupInv
<1>5. CASE \E o \in Members(World) : Become(Install(Left(World, o), m, r)) /\ UNCHANGED nested
  <2>1. PICK o \in Members(World) : Become(Install(Left(World, o), m, r)) /\ UNCHANGED nested
    BY <1>5
  <2>2. /\ Sound(Left(World, o)) /\ Members(Left(World, o)) = Members(World) \ {o}
        /\ ~Left(World, o).group.closed
    BY <1>1, <2>1, LeftIsSound DEF World
  <2>3. /\ Sound(World)' /\ ~group'.closed
        /\ Members(World)' \subseteq (Members(World) \ {o}) \cup {m}
    BY <1>1, <1>2, <2>1, <2>2
  <2>4. Cardinality(Members(World)') <= MaxMembers
    <3> DEFINE S == (Members(World) \ {o}) \cup {m}
    <3>1. /\ IsFiniteSet(Members(World) \ {o})
          /\ Cardinality(Members(World) \ {o}) = Cardinality(Members(World)) - 1
      BY <2>1, MembersCount, FS_RemoveElement
    <3>2. IsFiniteSet(S) /\ Cardinality(S) = Cardinality(Members(World))
      <4>1. m \notin Members(World) \ {o}
        BY <1>1
      <4>2. IsFiniteSet(S) /\ Cardinality(S) = Cardinality(Members(World) \ {o}) + 1
        BY <3>1, <4>1, FS_AddElement
      <4>3. Cardinality(Members(World)) \in Nat
        BY MembersCount
      <4> HIDE DEF S
      <4> QED BY <3>1, <4>2, <4>3
    <3>3. Cardinality(Members(World)') <= Cardinality(S) /\ Cardinality(Members(World)') \in Nat
      BY <2>3, <3>2, FS_Subset, FS_CardinalityType
    <3> QED BY <1>1, <3>2, <3>3, MembersCount DEF GroupAssumption
  <2> QED BY <2>1, <2>3, <2>4, <1>1 DEF GroupInv
<1>6. CASE Become(Install(Dissolved(World), m, r)) /\ nested' = nested \cup {"close"}
  <2>1. Sound(Dissolved(World)) /\ Members(Dissolved(World)) = {}
    BY <1>1, DissolvedIsSound DEF World
  <2>2. Sound(World)'
    BY <1>2, <1>6, <2>1
  <2> QED BY <1>6, <2>2, <1>1 DEF GroupInv
<1> QED BY <1>3, <1>4, <1>5, <1>6 DEF Join

\* A leave from outside.
LEMMA LeaveStep ==
  ASSUME GroupAssumption, GroupInv, NEW m \in Member, Leave(m)
  PROVE  GroupInv'
<1>1. Sound(World) /\ m \in Members(World) /\ Become(Left(World, m)) /\ UNCHANGED <<open, nested>>
  BY DEF GroupInv, Leave
<1>2. /\ Sound(World)' /\ Members(World)' = Members(World) \ {m}
      /\ group'.closed = group.closed
  BY <1>1, LeftIsSound, BecomeIsSound DEF World
<1>3. Cardinality(Members(World)') = Cardinality(Members(World)) - 1
  BY <1>1, <1>2, MembersCount, FS_RemoveElement
<1>4. nested = {} => Cardinality(Members(World)') <= MaxMembers
  BY <1>3, MembersCount DEF GroupInv, GroupAssumption
<1>5. group'.closed /\ "close" \notin nested => Members(World)' = {}
  BY <1>2 DEF GroupInv
<1> QED BY <1>1, <1>2, <1>4, <1>5 DEF GroupInv

\* A socket that drops or comes back moves no member.
LEMMA SocketStep ==
  ASSUME GroupInv, NEW m \in Member, Drop(m) \/ Reconnect(m)
  PROVE  GroupInv'
<1>0. World \in WorldType /\ group.subs = Members(World) \cap open
  BY DEF GroupInv, Sound, World
<1>1. /\ World' \in WorldType /\ group'.role = group.role /\ group'.closed = group.closed
      /\ roster' = roster /\ phantoms' = phantoms /\ nested' = nested
  BY <1>0 DEF Drop, Reconnect, World, WorldType
<1>2. Members(World)' = Members(World) /\ RolesOf(World)' = RolesOf(World)
  BY <1>1 DEF Members, RolesOf, World
<1>3. group'.subs \subseteq group.subs /\ group'.subs = Members(World) \cap open' /\ open' \subseteq Member
  <2>1. CASE Drop(m)
    BY <2>1, <1>0 DEF Drop, GroupInv, World, WorldType
  <2>2. CASE Reconnect(m)
    BY <2>2, <1>0 DEF Reconnect, GroupInv, World, WorldType
  <2> QED BY <2>1, <2>2
<1>4. RostersOf(World, group.subs)
  BY DEF GroupInv, Sound, World
<1>5. RostersOf(World, World.group.subs)'
  BY <1>1, <1>2, <1>3, <1>4 DEF RostersOf, World
<1> QED BY <1>1, <1>2, <1>3, <1>5 DEF GroupInv, Sound, World

\* The group is closed.
LEMMA CloseStep ==
  ASSUME GroupAssumption, GroupInv, Close
  PROVE  GroupInv'
<1>1. Sound(World) /\ ~World.group.closed /\ Become(Dissolved(World)) /\ UNCHANGED <<open, nested>>
  BY DEF GroupInv, Close, World
<1>2. Sound(World)' /\ Members(World)' = {}
  BY <1>1, DissolvedIsSound, BecomeIsSound
<1>3. Cardinality(Members(World)') = 0
  BY <1>2, FS_EmptySet
<1> QED BY <1>1, <1>2, <1>3 DEF GroupInv, GroupAssumption

\* The inductive invariant is stronger than what the run checks.
LEMMA InvImpliesAgreement ==
  ASSUME GroupAssumption, GroupInv
  PROVE  RostersAgree
<1>1. World \in WorldType /\ group.subs = Members(World) \cap open /\ RostersOf(World, group.subs)
  BY DEF GroupInv, Sound, World
<1>2. GroupTypeOK
  BY <1>1 DEF GroupTypeOK, GroupInv, WorldType, World
<1>3. \A m \in group.subs : \A r \in Role : roster[m][r] - RolesOf(World)[r] \in 0..phantoms[r]
  BY <1>1 DEF RostersOf, World
<1> QED BY <1>1, <1>2, <1>3 DEF RostersAgree, GroupInv

\* Every connected member's roster counts each role as the group does, but for the
\* joins announced for a socket that was gone already, whatever joins and leaves from inside the
\* callbacks (groups/server.js, join, leave and close), for every group and every limit.
THEOREM RostersAlwaysAgree ==
  ASSUME GroupAssumption
  PROVE  Spec => []RostersAgree
<1>1. Init => GroupInv
  BY InitIsSound
<1>2. GroupInv /\ [Next]_vars => GroupInv'
  <2> SUFFICES ASSUME GroupInv, [Next]_vars PROVE GroupInv'
    OBVIOUS
  <2>1. CASE UNCHANGED vars
    <3>1. World' = World /\ open' = open /\ nested' = nested /\ group' = group
      BY <2>1 DEF vars, World
    <3>2. Members(World)' = Members(World) /\ RostersOf(World, World.group.subs)' = RostersOf(World, World.group.subs)
      BY <3>1 DEF Members, RostersOf, RolesOf
    <3> QED BY <3>1, <3>2 DEF GroupInv, Sound
  <2>2. CASE Next
    BY <2>2, JoinStep, LeaveStep, SocketStep, CloseStep DEF Next
  <2> QED BY <2>1, <2>2
<1>3. GroupInv => RostersAgree
  BY InvImpliesAgreement
<1> QED BY <1>1, <1>2, <1>3, PTL DEF Spec

-----------------------------------------------------------------------------
(***************************************************************************)
(* The queue plugin.  A turn is unrolled into steps: what AccountsExact    *)
(* says between turns must be known of the steps inside one as well.       *)
(***************************************************************************)

\* The counters equal what they count.
CountsExact ==
  /\ pendingCurrent = Cardinality(WaitingTasks)
  /\ \A k \in QueueKey : runningIn[k] = Cardinality(InSlot(k))
  /\ runningCurrent = Cardinality(RunningTasks)

\* A key in line is startable; a startable key that is not in line is the one the
\* turn has to schedule; and a slot is free beside a line only until pump() ends.
LineInv ==
  /\ IsInjective(line) /\ held = ToSet(line)
  /\ \A k \in QueueKey : k \in held => Startable(k)
  /\ \A k \in QueueKey : Startable(k) /\ k \notin held => turn.step = "schedule" /\ turn.key = k
  /\ line # <<>> /\ runningCurrent < maxRunningTotal => turn.step \in {"schedule", "pump"}

\* A key with work is live; one without is the one whose task has just settled.
LiveInv ==
  /\ \A k \in QueueKey : Unsettled(k) # {} => k \in live
  /\ \A k \in live : Unsettled(k) = {} => turn.settled /\ turn.key = k /\ turn.step # "idle"
  /\ turn.step # "idle" => turn.key \in live
  /\ turn.step = "idle" => turn = Idle
  /\ Cardinality(live) <= maxKeys

\* A drain waits for tasks that are still to settle.
OwesInv ==
  /\ DrainWaitsForAll
  /\ \A d \in Waiter : \A t \in owes[d] : \E k \in QueueKey : t \in Unsettled(k)

QueueInv == QueueTypeOK /\ OnePlaceEach /\ CountsExact /\ LineInv /\ LiveInv /\ OwesInv

\* TaskQueueAssumption, expanded.
LEMMA QueueConstants ==
  /\ IsFiniteSet(QueueKey) /\ IsFiniteSet(Task) /\ NoKey \notin QueueKey
  /\ concurrency \in Nat /\ concurrency > 0 /\ maxSize \in Nat
  /\ maxKeys \in Nat /\ maxKeys > 0
  /\ maxPendingTotal \in Nat /\ maxRunningTotal \in Nat
BY TaskQueueAssumption DEF TaskQueueAssumption

\* TaskQueue means by these names what is meant here.
LEMMA QueueNames ==
  /\ Que!Idle = Idle
  /\ \A k : Que!Startable(k) <=> Startable(k)
  /\ \A k : Que!Unsettled(k) = Unsettled(k)
BY DEF Que!Idle, Idle, Que!Startable, Startable, Que!Unsettled, Unsettled, Que!InSlot, InSlot,
       Que!ToSet, ToSet

LEMMA QueueInit == Que!Init => QueueInv
<1> SUFFICES ASSUME Que!Init PROVE QueueInv
  OBVIOUS
<1>1. /\ live = {} /\ held = {} /\ line = <<>> /\ items = [k \in QueueKey |-> <<>>]
      /\ runningIn = [k \in QueueKey |-> 0] /\ drains = [k \in QueueKey |-> {}]
      /\ pendingCurrent = 0 /\ runningCurrent = 0 /\ inFlight = [t \in Task |-> NoKey]
      /\ turn = Idle /\ owes = [d \in Waiter |-> {}]
  BY QueueNames DEF Que!Init
<1>2. /\ \A k \in QueueKey : ToSet(items[k]) = {} /\ InSlot(k) = {} /\ Unsettled(k) = {}
      /\ WaitingTasks = {} /\ RunningTasks = {}
  BY <1>1, QueueConstants DEF ToSet, InSlot, Unsettled, WaitingTasks, RunningTasks
<1>3. QueueTypeOK
  BY <1>1, QueueConstants DEF QueueTypeOK, Idle
<1>4. OnePlaceEach
  BY <1>1, <1>2 DEF OnePlaceEach, IsInjective
<1>5. CountsExact
  BY <1>1, <1>2, FS_EmptySet DEF CountsExact
<1>6. LineInv
  BY <1>1 DEF LineInv, Startable, IsInjective, ToSet
<1>7. LiveInv
  BY <1>1, <1>2, FS_EmptySet, QueueConstants DEF LiveInv, Idle
<1>8. OwesInv
  BY <1>1 DEF OwesInv, DrainWaitsForAll
<1> QED BY <1>3, <1>4, <1>5, <1>6, <1>7, <1>8 DEF QueueInv

\* What the accounts are made of.
LEMMA QueueTypes ==
  ASSUME QueueTypeOK
  PROVE  /\ live \in SUBSET QueueKey /\ held \in SUBSET QueueKey /\ line \in Seq(QueueKey)
         /\ items \in [QueueKey -> Seq(Task)] /\ runningIn \in [QueueKey -> 0..concurrency]
         /\ drains \in [QueueKey -> SUBSET Waiter] /\ owes \in [Waiter -> SUBSET Task]
         /\ pendingCurrent \in Nat /\ runningCurrent \in Nat
         /\ pendingCurrent <= maxPendingTotal /\ runningCurrent <= maxRunningTotal
         /\ inFlight \in [Task -> QueueKey \cup {NoKey}]
         /\ turn.step \in {"idle", "schedule", "pump", "cleanup"} /\ turn.settled \in BOOLEAN
         /\ turn = [step |-> turn.step, key |-> turn.key, settled |-> turn.settled]
         /\ IsFiniteSet(live)
BY QueueConstants, FS_Subset DEF QueueTypeOK

\* What a set of tasks counts, when at most one comes or goes.
LEMMA OneTask ==
  ASSUME NEW S \in SUBSET Task, NEW T \in SUBSET Task, NEW t,
         \A u \in Task \ {t} : u \in S <=> u \in T
  PROVE  /\ Cardinality(S) \in Nat /\ Cardinality(T) \in Nat
         /\ Cardinality(T) = Cardinality(S) + (IF t \in T THEN 1 ELSE 0)
                                            - (IF t \in S THEN 1 ELSE 0)
BY QueueConstants, DifferInOne

\* A task starts: it leaves its queue for a slot of its key, and nothing else moves.
LEMMA StartMoves ==
  ASSUME QueueTypeOK, OnePlaceEach, CountsExact, NEW k \in QueueKey, Startable(k),
         runningCurrent < maxRunningTotal, Que!Start(k)
  PROVE  /\ items' \in [QueueKey -> Seq(Task)] /\ runningIn' \in [QueueKey -> 0..concurrency]
         /\ pendingCurrent' \in 0..maxPendingTotal /\ runningCurrent' \in 0..maxRunningTotal
         /\ inFlight' \in [Task -> QueueKey \cup {NoKey}]
         /\ OnePlaceEach' /\ CountsExact'
         /\ \A j \in QueueKey : Unsettled(j)' = Unsettled(j)
         /\ \A j \in QueueKey \ {k} : items'[j] = items[j] /\ runningIn'[j] = runningIn[j]
         /\ Unsettled(k) # {}
<1> DEFINE t == Head(items[k])
           r == Tail(items[k])
<1>1. /\ items \in [QueueKey -> Seq(Task)] /\ runningIn \in [QueueKey -> 0..concurrency]
      /\ pendingCurrent \in Nat /\ runningCurrent \in Nat /\ pendingCurrent <= maxPendingTotal
      /\ inFlight \in [Task -> QueueKey \cup {NoKey}]
  BY QueueTypes
<1>2. /\ items[k] \in Seq(Task) /\ items[k] # <<>> /\ runningIn[k] < concurrency
      /\ IsInjective(items[k])
  BY <1>1 DEF Startable, OnePlaceEach
<1>3. /\ t \in Task /\ r \in Seq(Task) /\ ToSet(items[k]) = {t} \cup ToSet(r)
      /\ IsInjective(r) /\ t \notin ToSet(r)
  BY <1>2, HeadAndTail
<1>4. /\ items' = [items EXCEPT ![k] = r] /\ inFlight' = [inFlight EXCEPT ![t] = k]
      /\ pendingCurrent' = pendingCurrent - 1
      /\ runningIn' = [runningIn EXCEPT ![k] = runningIn[k] + 1]
      /\ runningCurrent' = runningCurrent + 1
  BY DEF Que!Start
<1> HIDE DEF t, r
<1>5. /\ t \notin RunningTasks /\ inFlight[t] = NoKey
      /\ \A j \in QueueKey \ {k} : t \notin ToSet(items[j])
  BY <1>1, <1>3 DEF OnePlaceEach, RunningTasks
<1>6. /\ items'[k] = r /\ \A j \in QueueKey \ {k} : items'[j] = items[j]
      /\ inFlight'[t] = k /\ \A u \in Task \ {t} : inFlight'[u] = inFlight[u]
      /\ runningIn'[k] = runningIn[k] + 1
      /\ \A j \in QueueKey \ {k} : runningIn'[j] = runningIn[j]
  BY <1>1, <1>3, <1>4
<1>7. /\ InSlot(k)' = InSlot(k) \cup {t} /\ t \notin InSlot(k)
      /\ \A j \in QueueKey \ {k} : InSlot(j)' = InSlot(j)
      /\ RunningTasks' = RunningTasks \cup {t}
  BY <1>3, <1>5, <1>6, QueueConstants DEF InSlot, RunningTasks
<1>8. \A j \in QueueKey : ToSet(items'[j]) = ToSet(items[j]) \ {t}
  BY <1>3, <1>5, <1>6
<1>9. WaitingTasks' = WaitingTasks \ {t} /\ t \in WaitingTasks
  <2>1. WaitingTasks' = UNION {ToSet(items'[j]) : j \in QueueKey}
    BY DEF WaitingTasks
  <2>2. \A u : u \in WaitingTasks' <=> \E j \in QueueKey : u \in ToSet(items'[j])
    BY <2>1
  <2>3. \A u : u \in WaitingTasks <=> \E j \in QueueKey : u \in ToSet(items[j])
    BY DEF WaitingTasks
  <2>4. t \in WaitingTasks
    BY <1>3, <2>3
  <2> QED BY <1>8, <2>2, <2>3, <2>4
<1>10. WaitingTasks \in SUBSET Task /\ RunningTasks \in SUBSET Task
       /\ \A j \in QueueKey : InSlot(j) \in SUBSET Task
  <2>1. \A j \in QueueKey : ToSet(items[j]) \subseteq Task
    BY <1>1 DEF ToSet
  <2> QED BY <2>1 DEF WaitingTasks, RunningTasks, InSlot
<1>11. /\ Cardinality(WaitingTasks) \in Nat
       /\ Cardinality(WaitingTasks') = Cardinality(WaitingTasks) - 1
       /\ Cardinality(WaitingTasks') \in Nat
  <2> DEFINE S == WaitingTasks
             T == WaitingTasks'
  <2>1. S \in SUBSET Task /\ T \in SUBSET Task /\ t \in S /\ t \notin T
        /\ \A u \in Task \ {t} : u \in S <=> u \in T
    BY <1>9, <1>10
  <2> HIDE DEF S, T
  <2>2. Cardinality(S) \in Nat /\ Cardinality(T) \in Nat /\ Cardinality(T) = Cardinality(S) + 0 - 1
    BY <2>1, OneTask
  <2> QED BY <2>2 DEF S, T
<1>12. Cardinality(RunningTasks') = Cardinality(RunningTasks) + 1 /\ Cardinality(RunningTasks) \in Nat
  <2> DEFINE S == RunningTasks
             T == RunningTasks'
  <2>1. S \in SUBSET Task /\ T \in SUBSET Task /\ t \notin S /\ t \in T
        /\ \A u \in Task \ {t} : u \in S <=> u \in T
    BY <1>3, <1>5, <1>7, <1>10
  <2> HIDE DEF S, T
  <2>2. Cardinality(S) \in Nat /\ Cardinality(T) = Cardinality(S) + 1 - 0
    BY <2>1, OneTask
  <2> QED BY <2>2 DEF S, T
<1>13. Cardinality(InSlot(k)') = Cardinality(InSlot(k)) + 1 /\ Cardinality(InSlot(k)) \in Nat
  <2> DEFINE S == InSlot(k)
             T == InSlot(k)'
  <2>1. S \in SUBSET Task /\ T \in SUBSET Task /\ t \notin S /\ t \in T
        /\ \A u \in Task \ {t} : u \in S <=> u \in T
    BY <1>3, <1>7, <1>10
  <2> HIDE DEF S, T
  <2>2. Cardinality(S) \in Nat /\ Cardinality(T) = Cardinality(S) + 1 - 0
    BY <2>1, OneTask
  <2> QED BY <2>2 DEF S, T
<1>14. CountsExact'
  BY <1>4, <1>6, <1>7, <1>11, <1>12, <1>13 DEF CountsExact
<1>15. OnePlaceEach'
  <2>1. \A j \in QueueKey : IsInjective(items'[j])
    BY <1>3, <1>6 DEF OnePlaceEach
  <2>2. \A j \in QueueKey : ToSet(items'[j]) \cap RunningTasks' = {}
    BY <1>7, <1>8 DEF OnePlaceEach
  <2>3. \A i, j \in QueueKey : i # j => ToSet(items'[i]) \cap ToSet(items'[j]) = {}
    BY <1>8 DEF OnePlaceEach
  <2> QED BY <2>1, <2>2, <2>3 DEF OnePlaceEach
<1>16. \A j \in QueueKey : Unsettled(j)' = Unsettled(j)
  BY <1>3, <1>5, <1>7, <1>8 DEF Unsettled
<1>17. pendingCurrent' \in 0..maxPendingTotal /\ runningCurrent' \in 0..maxRunningTotal
  BY <1>1, <1>4, <1>11, QueueConstants DEF CountsExact
<1>18. runningIn' \in [QueueKey -> 0..concurrency] /\ items' \in [QueueKey -> Seq(Task)]
       /\ inFlight' \in [Task -> QueueKey \cup {NoKey}]
  BY <1>1, <1>2, <1>3, <1>4, QueueConstants
<1>19. Unsettled(k) # {}
  BY <1>3 DEF Unsettled
<1> QED BY <1>6, <1>14, <1>15, <1>16, <1>17, <1>18, <1>19

\* A step that starts nothing moves nothing.
LEMMA NothingMoves ==
  ASSUME QueueTypeOK, OnePlaceEach, CountsExact, Que!StartNothing
  PROVE  /\ items' \in [QueueKey -> Seq(Task)] /\ runningIn' \in [QueueKey -> 0..concurrency]
         /\ pendingCurrent' \in 0..maxPendingTotal /\ runningCurrent' \in 0..maxRunningTotal
         /\ inFlight' \in [Task -> QueueKey \cup {NoKey}]
         /\ OnePlaceEach' /\ CountsExact'
         /\ \A j \in QueueKey : Unsettled(j)' = Unsettled(j)
         /\ \A j \in QueueKey : items'[j] = items[j] /\ runningIn'[j] = runningIn[j]
<1>1. UNCHANGED <<items, inFlight, pendingCurrent, runningIn, runningCurrent>>
  BY DEF Que!StartNothing
<1>2. OnePlaceEach' /\ CountsExact' /\ \A j \in QueueKey : Unsettled(j)' = Unsettled(j)
  BY <1>1 DEF OnePlaceEach, CountsExact, WaitingTasks, RunningTasks, InSlot, Unsettled
<1> QED BY <1>1, <1>2 DEF QueueTypeOK

\* markReady puts a startable key in line, once.
LEMMA MarkReadyIs ==
  ASSUME NEW k \in QueueKey, NEW l \in Seq(QueueKey), IsInjective(l), NEW h, h = ToSet(l),
         Que!MarkReady(k, l, h)
  PROVE  /\ line' \in Seq(QueueKey) /\ IsInjective(line') /\ held' = ToSet(line')
         /\ held' = h \cup (IF Startable(k)' THEN {k} ELSE {})
<1>1. CASE k \notin h /\ Startable(k)'
  <2>1. line' = Append(l, k) /\ held' = h \cup {k}
    BY <1>1 DEF Que!MarkReady, Startable
  <2> QED BY <1>1, <2>1, AppendOne
<1>2. CASE ~(k \notin h /\ Startable(k)')
  <2>1. line' = l /\ held' = h
    BY <1>2 DEF Que!MarkReady, Startable
  <2> QED BY <1>2, <2>1
<1> QED BY <1>1, <1>2

\* A step of the turn in progress has started a task of key k, or nothing; all that
\* is left is k's place in line.
LEMMA TurnGoesOn ==
  ASSUME QueueInv, NEW k \in QueueKey, turn.step # "idle",
         /\ items' \in [QueueKey -> Seq(Task)] /\ runningIn' \in [QueueKey -> 0..concurrency]
         /\ pendingCurrent' \in 0..maxPendingTotal /\ runningCurrent' \in 0..maxRunningTotal
         /\ inFlight' \in [Task -> QueueKey \cup {NoKey}],
         OnePlaceEach', CountsExact',
         \A j \in QueueKey : Unsettled(j)' = Unsettled(j),
         \A j \in QueueKey \ {k} : items'[j] = items[j] /\ runningIn'[j] = runningIn[j],
         \A j \in QueueKey \ {k} : Startable(j) => j \in held,
         NEW l \in Seq(QueueKey), IsInjective(l),
         \A j \in QueueKey \ {k} : j \in ToSet(l) <=> j \in held,
         k \in ToSet(l) => Startable(k)',
         Que!MarkReady(k, l, ToSet(l)),
         turn'.step = "pump", turn'.key = turn.key, turn'.settled = turn.settled,
         turn' = [step |-> turn'.step, key |-> turn'.key, settled |-> turn'.settled],
         UNCHANGED <<live, drains, owes>>
  PROVE  QueueInv'
<1>1. /\ line' \in Seq(QueueKey) /\ IsInjective(line') /\ held' = ToSet(line')
      /\ held' = ToSet(l) \cup (IF Startable(k)' THEN {k} ELSE {})
  BY MarkReadyIs
<1>2. \A j \in QueueKey \ {k} : Startable(j)' <=> Startable(j)
  BY DEF Startable
<1>3. /\ QueueTypeOK /\ LineInv /\ LiveInv /\ OwesInv
      /\ live \in SUBSET QueueKey /\ drains \in [QueueKey -> SUBSET Waiter]
      /\ owes \in [Waiter -> SUBSET Task] /\ turn.settled \in BOOLEAN
      /\ turn.key \in live
  BY QueueTypes DEF QueueInv, LiveInv
<1>4. ToSet(l) \subseteq QueueKey
  BY DEF ToSet
<1>5. QueueTypeOK'
  BY <1>1, <1>3, <1>4 DEF QueueTypeOK
<1>6. LineInv'
  BY <1>1, <1>2, <1>3 DEF LineInv
<1>7. LiveInv'
  <2>1. /\ \A j \in QueueKey : Unsettled(j) # {} => j \in live
        /\ \A j \in live : Unsettled(j) = {} => turn.settled /\ turn.key = j
        /\ Cardinality(live) <= maxKeys
    BY <1>3 DEF LiveInv
  <2>2. turn'.step # "idle" /\ live' = live
    OBVIOUS
  <2>3. \A j \in live' : Unsettled(j)' = {} => turn'.settled /\ turn'.key = j
    BY <1>3, <2>1
  <2>4. \A j \in QueueKey : Unsettled(j)' # {} => j \in live'
    BY <2>1
  <2> QED BY <1>3, <2>1, <2>2, <2>3, <2>4 DEF LiveInv
<1>8. OwesInv'
  BY <1>3 DEF OwesInv, DrainWaitsForAll
<1> QED BY <1>5, <1>6, <1>7, <1>8 DEF QueueInv

LEMMA ScheduleKeeps ==
  ASSUME QueueInv, Que!Schedule
  PROVE  QueueInv'
<1> PICK k : k = turn.key
  OBVIOUS
<1>1. /\ QueueTypeOK /\ OnePlaceEach /\ CountsExact /\ LineInv /\ LiveInv /\ OwesInv
      /\ line \in Seq(QueueKey) /\ live \in SUBSET QueueKey
  BY QueueTypes DEF QueueInv
<1>2. /\ turn.step = "schedule" /\ turn.step # "idle"
      /\ Que!MarkReady(k, line, held) /\ turn' = [step |-> "pump", key |-> k, settled |-> turn.settled]
      /\ UNCHANGED <<live, drains, owes>>
      /\ IF Que!Shortcut(k) THEN Que!Start(k) ELSE Que!StartNothing
  BY DEF Que!Schedule
<1>3. k \in live /\ k \in QueueKey
  BY <1>1, <1>2 DEF LiveInv
<1>5. turn'.step = "pump" /\ turn'.key = turn.key /\ turn'.settled = turn.settled
      /\ turn' = [step |-> turn'.step, key |-> turn'.key, settled |-> turn'.settled]
  BY <1>2
<1>6. /\ IsInjective(line) /\ held = ToSet(line)
      /\ \A j \in QueueKey : j \in held => Startable(j)
      /\ \A j \in QueueKey \ {k} : Startable(j) => j \in held
  BY <1>1, <1>2 DEF LineInv
<1>7. CASE Que!Shortcut(k)
  <2>1. Startable(k) /\ runningCurrent < maxRunningTotal /\ line = <<>> /\ Que!Start(k)
    BY <1>2, <1>7 DEF Que!Shortcut, Que!Startable, Startable
  <2>2. /\ items' \in [QueueKey -> Seq(Task)] /\ runningIn' \in [QueueKey -> 0..concurrency]
        /\ pendingCurrent' \in 0..maxPendingTotal /\ runningCurrent' \in 0..maxRunningTotal
        /\ inFlight' \in [Task -> QueueKey \cup {NoKey}]
        /\ OnePlaceEach' /\ CountsExact'
        /\ \A j \in QueueKey : Unsettled(j)' = Unsettled(j)
        /\ \A j \in QueueKey \ {k} : items'[j] = items[j] /\ runningIn'[j] = runningIn[j]
    BY <1>1, <1>3, <2>1, StartMoves
  <2>3. ToSet(line) = {}
    BY <2>1 DEF ToSet
  <2> QED BY <1>1, <1>2, <1>3, <1>5, <1>6, <2>2, <2>3, TurnGoesOn
<1>8. CASE ~Que!Shortcut(k)
  <2>1. Que!StartNothing
    BY <1>2, <1>8
  <2>2. /\ items' \in [QueueKey -> Seq(Task)] /\ runningIn' \in [QueueKey -> 0..concurrency]
        /\ pendingCurrent' \in 0..maxPendingTotal /\ runningCurrent' \in 0..maxRunningTotal
        /\ inFlight' \in [Task -> QueueKey \cup {NoKey}]
        /\ OnePlaceEach' /\ CountsExact'
        /\ \A j \in QueueKey : Unsettled(j)' = Unsettled(j)
        /\ \A j \in QueueKey : items'[j] = items[j] /\ runningIn'[j] = runningIn[j]
    BY <1>1, <2>1, NothingMoves
  <2>3. k \in ToSet(line) => Startable(k)'
    BY <1>3, <1>6, <2>2 DEF Startable
  <2> QED BY <1>1, <1>2, <1>3, <1>5, <1>6, <2>2, <2>3, TurnGoesOn
<1> QED BY <1>7, <1>8

LEMMA PumpOneKeeps ==
  ASSUME QueueInv, Que!PumpOne
  PROVE  QueueInv'
<1> PICK k, l : k = Head(line) /\ l = Tail(line)
  OBVIOUS
<1>1. /\ QueueTypeOK /\ OnePlaceEach /\ CountsExact /\ LineInv /\ LiveInv /\ OwesInv
      /\ line \in Seq(QueueKey) /\ live \in SUBSET QueueKey
  BY QueueTypes DEF QueueInv
<1>2. /\ turn.step = "pump" /\ turn.step # "idle" /\ line # <<>>
      /\ runningCurrent < maxRunningTotal
      /\ IF k \in live /\ Que!Startable(k)
         THEN Que!Start(k) /\ Que!MarkReady(k, l, held \ {k})
         ELSE Que!StartNothing /\ line' = l /\ held' = held \ {k}
      /\ UNCHANGED <<live, drains, turn, owes>>
  BY DEF Que!PumpOne, Que!Budget
<1>3. /\ IsInjective(line) /\ held = ToSet(line)
      /\ \A j \in QueueKey : j \in held => Startable(j)
      /\ \A j \in QueueKey : Startable(j) => j \in held
  BY <1>1, <1>2 DEF LineInv
<1>4. /\ k \in QueueKey /\ l \in Seq(QueueKey) /\ ToSet(line) = {k} \cup ToSet(l)
      /\ IsInjective(l) /\ k \notin ToSet(l)
  BY <1>1, <1>2, <1>3, HeadAndTail
<1>5. Startable(k) /\ held \ {k} = ToSet(l)
  BY <1>3, <1>4
<1>6. Que!Startable(k)
  BY <1>5 DEF Startable, Que!Startable
<1>7. Unsettled(k) # {}
  <2>1. items[k] \in Seq(Task) /\ items[k] # <<>>
    BY <1>1, <1>4, <1>5, QueueTypes DEF Startable
  <2>2. Head(items[k]) \in ToSet(items[k])
    BY <2>1, HeadAndTail
  <2> QED BY <2>2 DEF Unsettled
<1>8. Que!Start(k) /\ Que!MarkReady(k, l, ToSet(l))
  BY <1>1, <1>2, <1>4, <1>5, <1>6, <1>7 DEF LiveInv
<1>9. /\ items' \in [QueueKey -> Seq(Task)] /\ runningIn' \in [QueueKey -> 0..concurrency]
      /\ pendingCurrent' \in 0..maxPendingTotal /\ runningCurrent' \in 0..maxRunningTotal
      /\ inFlight' \in [Task -> QueueKey \cup {NoKey}]
      /\ OnePlaceEach' /\ CountsExact'
      /\ \A j \in QueueKey : Unsettled(j)' = Unsettled(j)
      /\ \A j \in QueueKey \ {k} : items'[j] = items[j] /\ runningIn'[j] = runningIn[j]
  BY <1>1, <1>2, <1>4, <1>5, <1>8, StartMoves
<1>10. turn'.step = "pump" /\ turn'.key = turn.key /\ turn'.settled = turn.settled
       /\ turn' = [step |-> turn'.step, key |-> turn'.key, settled |-> turn'.settled]
  BY <1>1, <1>2, QueueTypes
<1> QED BY <1>2, <1>3, <1>4, <1>5, <1>8, <1>9, <1>10, TurnGoesOn

LEMMA PumpEndKeeps ==
  ASSUME QueueInv, Que!PumpEnd
  PROVE  QueueInv'
<1>1. /\ QueueTypeOK /\ OnePlaceEach /\ CountsExact /\ LineInv /\ LiveInv /\ OwesInv
      /\ turn.settled \in BOOLEAN /\ runningCurrent <= maxRunningTotal
      /\ live \in SUBSET QueueKey
  BY QueueTypes DEF QueueInv
<1>2. /\ turn.step = "pump" /\ (line = <<>> \/ ~(runningCurrent < maxRunningTotal))
      /\ turn' = IF turn.settled THEN [step |-> "cleanup", key |-> turn.key, settled |-> TRUE]
                               ELSE Idle
      /\ UNCHANGED <<live, items, runningIn, drains, held, line, pendingCurrent, runningCurrent,
                     inFlight, owes>>
  BY QueueNames DEF Que!PumpEnd, Que!Budget
<1>3. OnePlaceEach' /\ CountsExact' /\ OwesInv' /\ \A j \in QueueKey : Unsettled(j)' = Unsettled(j)
  <2>1. \A j \in QueueKey : Unsettled(j)' = Unsettled(j)
    BY <1>2 DEF InSlot, Unsettled
  <2>2. OnePlaceEach' /\ CountsExact'
    BY <1>1, <1>2 DEF OnePlaceEach, CountsExact, WaitingTasks, RunningTasks, InSlot
  <2> QED BY <1>1, <1>2, <2>1, <2>2 DEF OwesInv, DrainWaitsForAll
<1>4. \A j \in QueueKey : Startable(j)' <=> Startable(j)
  BY <1>2 DEF Startable
<1>5. LineInv'
  BY <1>1, <1>2, <1>4 DEF LineInv
<1>6. turn.key \in live
  BY <1>1, <1>2 DEF LiveInv
<1>7. CASE turn.settled
  <2>1. turn' = [step |-> "cleanup", key |-> turn.key, settled |-> TRUE]
    BY <1>2, <1>7
  <2>2. turn'.step = "cleanup" /\ turn'.key = turn.key /\ turn'.settled = turn.settled
    BY <1>7, <2>1
  <2>3. QueueTypeOK'
    <3>1. turn.key \in QueueKey
      BY <1>1, <1>6
    <3>2. turn' \in [step : {"idle", "schedule", "pump", "cleanup"}, key : QueueKey \cup {NoKey},
                     settled : BOOLEAN]
      BY <2>1, <3>1
    <3>3. UNCHANGED <<live, items, runningIn, drains, held, line, pendingCurrent,
                      runningCurrent, inFlight, owes>> /\ QueueTypeOK
      BY <1>1, <1>2
    <3> QED BY <3>2, <3>3 DEF QueueTypeOK
  <2>4. LiveInv'
    BY <1>1, <1>2, <1>3, <1>6, <1>7, <2>2 DEF LiveInv
  <2> QED BY <1>3, <1>5, <2>3, <2>4 DEF QueueInv
<1>8. CASE ~turn.settled
  <2>1. turn' = Idle
    BY <1>2, <1>8
  <2>2. QueueTypeOK'
    BY <1>1, <1>2, <2>1 DEF QueueTypeOK, Idle
  <2>3. \A j \in live : Unsettled(j) # {}
    BY <1>1, <1>8 DEF LiveInv
  <2>4. LiveInv'
    BY <1>1, <1>2, <1>3, <2>1, <2>3 DEF LiveInv, Idle
  <2> QED BY <1>3, <1>5, <2>2, <2>4 DEF QueueInv
<1> QED BY <1>7, <1>8

\* cleanup drops a key only when it has neither a waiting nor a running task.
LEMMA CleanupKeeps ==
  ASSUME QueueInv, Que!Cleanup
  PROVE  QueueInv'
<1> PICK gone : gone = {j \in {turn.key} \cap live : Que!Finished(j, items[j] # <<>>)}
  OBVIOUS
<1>1. /\ QueueTypeOK /\ OnePlaceEach /\ CountsExact /\ LineInv /\ LiveInv /\ OwesInv
      /\ line \in Seq(QueueKey) /\ live \in SUBSET QueueKey /\ held \in SUBSET QueueKey
      /\ items \in [QueueKey -> Seq(Task)] /\ runningIn \in [QueueKey -> 0..concurrency]
      /\ drains \in [QueueKey -> SUBSET Waiter] /\ IsFiniteSet(live)
      /\ runningCurrent <= maxRunningTotal /\ runningCurrent \in Nat
  BY QueueTypes DEF QueueInv
<1>2. /\ turn.step = "cleanup" /\ turn' = Idle
      /\ live' = live \ gone
      /\ drains' = [k \in QueueKey |-> IF k \in gone THEN {} ELSE drains[k]]
      /\ line' = Without(line, gone) /\ held' = held \ gone
      /\ UNCHANGED <<items, runningIn, pendingCurrent, runningCurrent, inFlight, owes>>
  BY QueueNames DEF Que!Cleanup, Que!Retire, Que!Without, Without
<1>3. \A j \in gone : j \in live /\ j \in QueueKey /\ items[j] = <<>> /\ runningIn[j] = 0
  BY <1>1 DEF Que!Finished
<1>4. \A j \in QueueKey : IsFiniteSet(InSlot(j))
  BY QueueConstants, FS_Subset DEF InSlot
<1>5. \A j \in gone : Unsettled(j) = {}
  <2> SUFFICES ASSUME NEW j \in gone PROVE Unsettled(j) = {}
    OBVIOUS
  <2>1. Cardinality(InSlot(j)) = 0
    BY <1>1, <1>3 DEF CountsExact
  <2>2. InSlot(j) = {} /\ ToSet(items[j]) = {}
    BY <1>3, <1>4, <2>1, FS_EmptySet DEF ToSet
  <2> QED BY <2>2 DEF Unsettled
<1>6. ASSUME NEW j \in live, Unsettled(j) = {} PROVE j \in gone
  <2>1. j = turn.key /\ j \in QueueKey
    BY <1>1, <1>6 DEF LiveInv
  <2>2. InSlot(j) = {} /\ ToSet(items[j]) = {}
    BY <1>6 DEF Unsettled
  <2>3. runningIn[j] = 0
    BY <1>1, <2>1, <2>2, FS_EmptySet DEF CountsExact
  <2>4. items[j] = <<>>
    <3>1. items[j] \in Seq(Task)
      BY <1>1, <2>1
    <3>2. items[j] # <<>> => Head(items[j]) \in ToSet(items[j])
      BY <3>1, HeadAndTail
    <3> QED BY <2>2, <3>2
  <2> QED BY <2>1, <2>3, <2>4 DEF Que!Finished
<1>7. /\ line' \in Seq(QueueKey) /\ ToSet(line') = ToSet(line) \ gone /\ IsInjective(line')
  BY <1>1, <1>2, WithoutKeeps DEF LineInv
<1>8. /\ \A j \in QueueKey : Unsettled(j)' = Unsettled(j)
      /\ \A j \in QueueKey : Startable(j)' <=> Startable(j)
      /\ \A j \in gone : ~Startable(j)
  BY <1>2, <1>3 DEF Unsettled, InSlot, Startable
<1>9. OnePlaceEach' /\ CountsExact'
  BY <1>1, <1>2 DEF OnePlaceEach, CountsExact, WaitingTasks, RunningTasks, InSlot
<1>10. LineInv'
  <2>1. line' # <<>> => line # <<>>
    <3>1. line' # <<>> => ToSet(line') # {}
      BY <1>7, HeadAndTail
    <3>2. line = <<>> => ToSet(line) = {}
      BY DEF ToSet
    <3> QED BY <1>7, <3>1, <3>2
  <2> QED BY <1>1, <1>2, <1>7, <1>8, <2>1 DEF LineInv
<1>11. LiveInv'
  <2>1. Cardinality(live') <= maxKeys
    <3>1. live' \subseteq live
      BY <1>2
    <3>2. Cardinality(live') <= Cardinality(live) /\ Cardinality(live') \in Nat
          /\ Cardinality(live) \in Nat
      BY <1>1, <3>1, FS_Subset, FS_CardinalityType
    <3> QED BY <1>1, <3>2, QueueConstants DEF LiveInv
  <2>2. \A j \in QueueKey : Unsettled(j)' # {} => j \in live'
    BY <1>1, <1>2, <1>5, <1>8 DEF LiveInv
  <2>3. \A j \in live' : Unsettled(j)' # {}
    BY <1>1, <1>2, <1>6, <1>8
  <2> QED BY <1>2, <2>1, <2>2, <2>3 DEF LiveInv, Idle
<1>12. OwesInv'
  <2>1. \A d \in Waiter : \A t \in owes'[d] : \E j \in QueueKey : t \in Unsettled(j)'
    BY <1>1, <1>2, <1>8 DEF OwesInv
  <2>2. ASSUME NEW d \in Waiter, NEW j \in QueueKey, owes'[d] \cap Unsettled(j)' # {}
        PROVE  d \in drains'[j]
    <3>1. j \notin gone /\ d \in drains[j]
      BY SMTT(30), <1>1, <1>2, <1>5, <1>8, <2>2 DEF OwesInv, DrainWaitsForAll
    <3> QED BY <1>2, <3>1
  <2> QED BY <2>1, <2>2 DEF OwesInv, DrainWaitsForAll
<1>13. QueueTypeOK'
  <2>1. /\ live' \subseteq QueueKey /\ held' \subseteq QueueKey
        /\ drains' \in [QueueKey -> SUBSET Waiter]
    BY <1>1, <1>2
  <2> QED BY <1>1, <1>2, <1>7, <2>1 DEF QueueTypeOK, Idle
<1> QED BY <1>9, <1>10, <1>11, <1>12, <1>13 DEF QueueInv

\* A task joins the queue of its key.
LEMMA PushKeeps ==
  ASSUME QueueInv, NEW k \in QueueKey, NEW t \in Task, Que!Push(k, t)
  PROVE  QueueInv'
<1>1. /\ QueueTypeOK /\ OnePlaceEach /\ CountsExact /\ LineInv /\ LiveInv /\ OwesInv
      /\ line \in Seq(QueueKey) /\ live \in SUBSET QueueKey /\ held \in SUBSET QueueKey
      /\ items \in [QueueKey -> Seq(Task)] /\ IsFiniteSet(live) /\ pendingCurrent \in Nat
      /\ inFlight \in [Task -> QueueKey \cup {NoKey}]
  BY QueueTypes DEF QueueInv
<1>2. /\ turn = Idle
      /\ k \notin live => Cardinality(live) < maxKeys
      /\ pendingCurrent < maxPendingTotal
      /\ live' = live \cup {k} /\ items' = [items EXCEPT ![k] = Append(items[k], t)]
      /\ pendingCurrent' = pendingCurrent + 1
      /\ turn' = [step |-> "schedule", key |-> k, settled |-> FALSE]
      /\ UNCHANGED <<runningIn, drains, held, line, runningCurrent, inFlight, owes>>
  BY QueueNames DEF Que!Push, Que!Admits, Que!Cardinality, Cardinality
<1>3. \A j \in QueueKey : t \notin Unsettled(j)
  BY QueueNames DEF Que!Push, Que!Outstanding
<1>4. \A j \in QueueKey : t \notin ToSet(items[j]) /\ t \notin InSlot(j)
  BY <1>3 DEF Unsettled
<1>5. t \notin RunningTasks
  BY <1>1, <1>4 DEF InSlot, RunningTasks
<1>6. /\ items[k] \in Seq(Task) /\ items'[k] = Append(items[k], t)
      /\ \A j \in QueueKey \ {k} : items'[j] = items[j]
  BY <1>1, <1>2
<1>7. /\ items'[k] \in Seq(Task) /\ items'[k] # <<>>
      /\ ToSet(items'[k]) = ToSet(items[k]) \cup {t} /\ IsInjective(items'[k])
  BY <1>1, <1>4, <1>6, AppendOne DEF OnePlaceEach
<1>8. /\ RunningTasks' = RunningTasks /\ \A j \in QueueKey : InSlot(j)' = InSlot(j)
  BY <1>2 DEF RunningTasks, InSlot
<1>9. /\ Unsettled(k)' = Unsettled(k) \cup {t}
      /\ \A j \in QueueKey \ {k} : Unsettled(j)' = Unsettled(j)
  BY <1>6, <1>7, <1>8 DEF Unsettled
<1>10. Cardinality(WaitingTasks') = Cardinality(WaitingTasks) + 1
  <2>1. \A u : u \in WaitingTasks <=> \E j \in QueueKey : u \in ToSet(items[j])
    BY DEF WaitingTasks
  <2>2. \A u : u \in WaitingTasks' <=> \E j \in QueueKey : u \in ToSet(items'[j])
    BY DEF WaitingTasks
  <2>3. /\ \A j \in QueueKey : ToSet(items[j]) \subseteq Task
    BY <1>1 DEF ToSet
  <2> PICK S : S = WaitingTasks
    OBVIOUS
  <2> PICK T : T = WaitingTasks'
    OBVIOUS
  <2>4. S \in SUBSET Task /\ T \in SUBSET Task /\ t \notin S /\ t \in T
        /\ \A u \in Task \ {t} : u \in S <=> u \in T
    BY <1>4, <1>6, <1>7, <2>1, <2>2, <2>3
  <2>5. Cardinality(S) \in Nat /\ Cardinality(T) = Cardinality(S) + 1 - 0
    BY <2>4, OneTask
  <2> QED BY <2>5
<1>11. CountsExact'
  BY <1>1, <1>2, <1>8, <1>10 DEF CountsExact
<1>12. OnePlaceEach'
  <2>1. \A j \in QueueKey : IsInjective(items'[j]) /\ ToSet(items'[j]) \cap RunningTasks' = {}
    BY <1>1, <1>5, <1>6, <1>7, <1>8 DEF OnePlaceEach
  <2>2. \A i, j \in QueueKey : i # j => ToSet(items'[i]) \cap ToSet(items'[j]) = {}
    <3>1. \A j \in QueueKey : ToSet(items'[j]) = ToSet(items[j]) \cup (IF j = k THEN {t} ELSE {})
      BY <1>6, <1>7
    <3> PICK A, B : A = [j \in QueueKey |-> ToSet(items[j])] /\ B = [j \in QueueKey |-> ToSet(items'[j])]
      OBVIOUS
    <3>2. /\ \A j \in QueueKey : B[j] = A[j] \cup (IF j = k THEN {t} ELSE {}) /\ t \notin A[j]
          /\ \A i, j \in QueueKey : i # j => A[i] \cap A[j] = {}
      BY <1>1, <1>4, <3>1 DEF OnePlaceEach
    <3>3. \A i, j \in QueueKey : i # j => B[i] \cap B[j] = {}
      BY <3>2
    <3> QED BY <3>3
  <2> QED BY <2>1, <2>2 DEF OnePlaceEach
<1>13. LineInv'
  <2>1. \A j \in QueueKey \ {k} : Startable(j)' <=> Startable(j)
    BY <1>2, <1>6 DEF Startable
  <2>2. Startable(k) => Startable(k)'
    BY <1>2, <1>7 DEF Startable
  <2>3. turn.step = "idle" /\ turn'.step = "schedule" /\ turn'.key = k
    BY <1>2 DEF Idle
  <2> QED BY <1>1, <1>2, <2>1, <2>2, <2>3 DEF LineInv
<1>14. LiveInv'
  <2>1. Cardinality(live') <= maxKeys
    <3>1. Cardinality(live) \in Nat
      BY <1>1, FS_CardinalityType
    <3>2. Cardinality(live \cup {k}) = IF k \in live THEN Cardinality(live) ELSE Cardinality(live) + 1
      BY <1>1, FS_AddElement
    <3> QED BY <1>1, <1>2, <3>1, <3>2, QueueConstants DEF LiveInv
  <2>2. \A j \in live : Unsettled(j) # {}
    BY <1>1, <1>2 DEF LiveInv, Idle
  <2>3. \A j \in live' : Unsettled(j)' # {}
    BY <1>1, <1>2, <1>9, <2>2
  <2>4. \A j \in QueueKey : Unsettled(j)' # {} => j \in live'
    BY <1>1, <1>2, <1>9 DEF LiveInv
  <2>5. turn'.step # "idle" /\ turn'.key \in live'
    BY <1>2
  <2> QED BY <2>1, <2>3, <2>4, <2>5 DEF LiveInv
<1>15. OwesInv'
  <2>1. \A d \in Waiter : t \notin owes[d]
    BY <1>1, <1>3 DEF OwesInv
  <2>2. ASSUME NEW d \in Waiter, NEW j \in QueueKey, owes'[d] \cap Unsettled(j)' # {}
        PROVE  d \in drains'[j]
    <3>1. owes[d] \cap Unsettled(j) # {}
      BY <1>2, <1>9, <2>1, <2>2
    <3> QED BY <1>1, <1>2, <3>1 DEF OwesInv, DrainWaitsForAll
  <2>3. ASSUME NEW d \in Waiter, NEW u \in owes'[d]
        PROVE  \E j \in QueueKey : u \in Unsettled(j)'
    <3>1. PICK j \in QueueKey : u \in Unsettled(j)
      BY <1>1, <1>2 DEF OwesInv
    <3>2. u \in Unsettled(j)'
      BY <1>9, <3>1
    <3> QED BY <3>2
  <2> QED BY <2>2, <2>3 DEF OwesInv, DrainWaitsForAll
<1>16. QueueTypeOK'
  <2>1. items' \in [QueueKey -> Seq(Task)] /\ live' \subseteq QueueKey
    BY <1>1, <1>2, <1>7
  <2>2. pendingCurrent' \in 0..maxPendingTotal
    BY <1>1, <1>2, QueueConstants
  <2> QED BY <1>1, <1>2, <2>1, <2>2 DEF QueueTypeOK
<1> QED BY <1>11, <1>12, <1>13, <1>14, <1>15, <1>16 DEF QueueInv
\* A running task settles: its slot is free, and its key is scheduled.
LEMMA SettleKeeps ==
  ASSUME QueueInv, NEW t \in Task, Que!Settle(t)
  PROVE  QueueInv'
<1> PICK k : k = inFlight[t]
  OBVIOUS
<1>1. /\ QueueTypeOK /\ OnePlaceEach /\ CountsExact /\ LineInv /\ LiveInv /\ OwesInv
      /\ live \in SUBSET QueueKey
      /\ items \in [QueueKey -> Seq(Task)] /\ runningIn \in [QueueKey -> 0..concurrency]
      /\ runningCurrent \in Nat /\ runningCurrent <= maxRunningTotal
      /\ inFlight \in [Task -> QueueKey \cup {NoKey}] /\ owes \in [Waiter -> SUBSET Task]
  BY QueueTypes DEF QueueInv
<1>2. /\ turn = Idle /\ k # NoKey
      /\ inFlight' = [inFlight EXCEPT ![t] = NoKey]
      /\ runningIn' = [runningIn EXCEPT ![k] = runningIn[k] - 1]
      /\ runningCurrent' = runningCurrent - 1
      /\ owes' = [d \in Waiter |-> owes[d] \ {t}]
      /\ turn' = [step |-> "schedule", key |-> k, settled |-> TRUE]
      /\ UNCHANGED <<live, items, drains, held, line, pendingCurrent>>
  BY QueueNames DEF Que!Settle
<1>3. k \in QueueKey
  BY <1>1, <1>2
<1>4. /\ inFlight'[t] = NoKey /\ \A u \in Task \ {t} : inFlight'[u] = inFlight[u]
      /\ runningIn'[k] = runningIn[k] - 1
      /\ \A j \in QueueKey \ {k} : runningIn'[j] = runningIn[j]
  BY <1>1, <1>2, <1>3
<1>5. /\ RunningTasks' = RunningTasks \ {t} /\ t \in RunningTasks
      /\ InSlot(k)' = InSlot(k) \ {t} /\ t \in InSlot(k)
      /\ \A j \in QueueKey \ {k} : InSlot(j)' = InSlot(j) /\ t \notin InSlot(j)
  BY <1>2, <1>3, <1>4, QueueConstants DEF RunningTasks, InSlot
<1>6. \A j \in QueueKey : t \notin ToSet(items[j])
  BY <1>1, <1>5 DEF OnePlaceEach
<1>7. \A j \in QueueKey : Unsettled(j)' = Unsettled(j) \ {t}
  BY <1>2, <1>5, <1>6 DEF Unsettled
<1>8. RunningTasks \in SUBSET Task /\ InSlot(k) \in SUBSET Task
  BY DEF RunningTasks, InSlot
<1>9. Cardinality(RunningTasks') = Cardinality(RunningTasks) - 1 /\ Cardinality(RunningTasks') \in Nat
  <2> PICK S, T : S = RunningTasks /\ T = RunningTasks'
    OBVIOUS
  <2>1. S \in SUBSET Task /\ T \in SUBSET Task /\ t \in S /\ t \notin T
        /\ \A u \in Task \ {t} : u \in S <=> u \in T
    BY <1>5, <1>8
  <2>2. Cardinality(S) \in Nat /\ Cardinality(T) \in Nat /\ Cardinality(T) = Cardinality(S) + 0 - 1
    BY <2>1, OneTask
  <2> QED BY <2>2
<1>10. Cardinality(InSlot(k)') = Cardinality(InSlot(k)) - 1 /\ Cardinality(InSlot(k)') \in Nat
       /\ Cardinality(InSlot(k)) \in Nat
  <2> PICK S, T : S = InSlot(k) /\ T = InSlot(k)'
    OBVIOUS
  <2>1. S \in SUBSET Task /\ T \in SUBSET Task /\ t \in S /\ t \notin T
        /\ \A u \in Task \ {t} : u \in S <=> u \in T
    BY <1>5, <1>8
  <2>2. Cardinality(S) \in Nat /\ Cardinality(T) \in Nat /\ Cardinality(T) = Cardinality(S) + 0 - 1
    BY <2>1, OneTask
  <2> QED BY <2>2
<1>11. CountsExact'
  <2>1. WaitingTasks' = WaitingTasks
    BY <1>2 DEF WaitingTasks
  <2>2. \A j \in QueueKey : runningIn'[j] = Cardinality(InSlot(j)')
    <3> SUFFICES ASSUME NEW j \in QueueKey PROVE runningIn'[j] = Cardinality(InSlot(j)')
      OBVIOUS
    <3>1. runningIn[j] = Cardinality(InSlot(j))
      BY <1>1 DEF CountsExact
    <3>2. CASE j = k
      BY <1>4, <1>10, <3>1, <3>2
    <3>3. CASE j # k
      BY <1>4, <1>5, <3>1, <3>3
    <3> QED BY <3>2, <3>3
  <2>3. runningCurrent' = Cardinality(RunningTasks')
    BY <1>1, <1>2, <1>9 DEF CountsExact
  <2> QED BY <1>1, <1>2, <2>1, <2>2, <2>3 DEF CountsExact
<1>12. OnePlaceEach'
  <2>1. \A j \in QueueKey : IsInjective(items'[j]) /\ ToSet(items'[j]) \cap RunningTasks' = {}
    BY <1>1, <1>2, <1>5 DEF OnePlaceEach
  <2> QED BY <1>1, <1>2, <2>1 DEF OnePlaceEach
<1>13. LineInv'
  <2>1. \A j \in QueueKey \ {k} : Startable(j)' <=> Startable(j)
    BY <1>2, <1>4 DEF Startable
  <2>2. Startable(k) => Startable(k)'
    <3>1. runningIn[k] \in Int /\ concurrency \in Int
      BY <1>1, <1>3, QueueConstants
    <3> QED BY <1>2, <1>4, <3>1 DEF Startable
  <2>3. turn.step = "idle" /\ turn'.step = "schedule" /\ turn'.key = k
    BY <1>2 DEF Idle
  <2> QED BY <1>1, <1>2, <2>1, <2>2, <2>3 DEF LineInv
<1>14. LiveInv'
  <2>1. k \in live
    BY <1>1, <1>3, <1>5 DEF LiveInv, Unsettled
  <2>2. \A j \in live : Unsettled(j) # {}
    BY <1>1, <1>2 DEF LiveInv, Idle
  <2>3. \A j \in QueueKey : t \in Unsettled(j) => j = k
    BY <1>5, <1>6 DEF Unsettled
  <2>4. ASSUME NEW j \in live', Unsettled(j)' = {} PROVE j = k
    <3>1. j \in live /\ j \in QueueKey
      BY <1>1, <1>2
    <3>2. t \in Unsettled(j)
      BY <1>7, <2>2, <2>4, <3>1
    <3> QED BY <2>3, <3>1, <3>2
  <2>5. \A j \in QueueKey : Unsettled(j)' # {} => j \in live'
    BY <1>1, <1>2, <1>7 DEF LiveInv
  <2>6. turn'.step = "schedule" /\ turn'.key = k /\ turn'.settled
    BY <1>2
  <2> QED BY <1>1, <1>2, <2>1, <2>4, <2>5, <2>6 DEF LiveInv
<1>15. OwesInv'
  <2>1. \A d \in Waiter : owes'[d] = owes[d] \ {t}
    BY <1>2
  <2>2. ASSUME NEW d \in Waiter, NEW j \in QueueKey, owes'[d] \cap Unsettled(j)' # {}
        PROVE  d \in drains'[j]
    <3>1. owes[d] \cap Unsettled(j) # {}
      BY <1>7, <2>1, <2>2
    <3> QED BY <1>1, <1>2, <3>1 DEF OwesInv, DrainWaitsForAll
  <2>3. ASSUME NEW d \in Waiter, NEW u \in owes'[d]
        PROVE  \E j \in QueueKey : u \in Unsettled(j)'
    <3>1. u \in owes[d] /\ u # t
      BY <2>1
    <3>2. PICK j \in QueueKey : u \in Unsettled(j)
      BY <1>1, <3>1 DEF OwesInv
    <3>3. u \in Unsettled(j)'
      BY <1>7, <3>1, <3>2
    <3> QED BY <3>3
  <2> QED BY <2>2, <2>3 DEF OwesInv, DrainWaitsForAll
<1>16. QueueTypeOK'
  <2>1. inFlight' \in [Task -> QueueKey \cup {NoKey}] /\ owes' \in [Waiter -> SUBSET Task]
    BY <1>1, <1>2
  <2>2. runningIn' \in [QueueKey -> 0..concurrency]
    <3>1. runningIn[k] - 1 \in 0..concurrency
      BY <1>1, <1>3, <1>4, <1>10, <1>11, QueueConstants DEF CountsExact
    <3> QED BY <1>1, <1>2, <3>1
  <2>3. runningCurrent' \in 0..maxRunningTotal
    BY <1>1, <1>2, <1>9, QueueConstants DEF CountsExact
  <2>4. turn' \in [step : {"idle", "schedule", "pump", "cleanup"}, key : QueueKey \cup {NoKey},
                   settled : BOOLEAN]
    BY <1>2, <1>3
  <2> QED BY <1>1, <1>2, <2>1, <2>2, <2>3, <2>4 DEF QueueTypeOK
<1> QED BY <1>11, <1>12, <1>13, <1>14, <1>15, <1>16 DEF QueueInv
\* clear rejects the waiting tasks of some keys, and drops those that run nothing.
LEMMA ClearKeeps ==
  ASSUME QueueInv, NEW ks, Que!Clear(ks)
  PROVE  QueueInv'
<1> PICK dropped : dropped = UNION {ToSet(items[k]) : k \in ks}
  OBVIOUS
<1> PICK gone : gone = {k \in ks : Que!Finished(k, FALSE)}
  OBVIOUS
<1>1. /\ QueueTypeOK /\ OnePlaceEach /\ CountsExact /\ LineInv /\ LiveInv /\ OwesInv
      /\ line \in Seq(QueueKey) /\ live \in SUBSET QueueKey /\ held \in SUBSET QueueKey
      /\ items \in [QueueKey -> Seq(Task)] /\ runningIn \in [QueueKey -> 0..concurrency]
      /\ drains \in [QueueKey -> SUBSET Waiter] /\ owes \in [Waiter -> SUBSET Task]
      /\ IsFiniteSet(live) /\ pendingCurrent \in Nat /\ pendingCurrent <= maxPendingTotal
  BY QueueTypes DEF QueueInv
<1>2. /\ turn = Idle /\ ks \subseteq live
      /\ items' = [k \in QueueKey |-> IF k \in ks THEN <<>> ELSE items[k]]
      /\ pendingCurrent' = pendingCurrent - Cardinality(dropped)
      /\ line' = Without(line, ks) /\ held' = held \ ks
      /\ live' = live \ gone
      /\ drains' = [k \in QueueKey |-> IF k \in gone THEN {} ELSE drains[k]]
      /\ owes' = [d \in Waiter |-> owes[d] \ dropped]
      /\ UNCHANGED <<runningIn, runningCurrent, inFlight, turn>>
  BY QueueNames DEF Que!Clear, Que!GiveBack, Que!Retire, Que!Without, Without,
     Que!ToSet, ToSet, Que!Cardinality, Cardinality
<1>3. /\ RunningTasks' = RunningTasks /\ \A j \in QueueKey : InSlot(j)' = InSlot(j)
      /\ \A j \in QueueKey : runningIn[j] = Cardinality(InSlot(j))
  BY <1>1, <1>2 DEF RunningTasks, InSlot, CountsExact
<1>4. \A j \in QueueKey : /\ j \in ks => items'[j] = <<>> /\ ToSet(items'[j]) = {}
                          /\ j \notin ks => items'[j] = items[j]
  BY <1>2 DEF ToSet
<1>5. /\ \A j \in ks : Unsettled(j)' = InSlot(j)
      /\ \A j \in QueueKey \ ks : Unsettled(j)' = Unsettled(j)
  BY <1>1, <1>2, <1>3, <1>4 DEF Unsettled
<1>6. ASSUME NEW j \in ks PROVE j \in gone <=> InSlot(j) = {}
  <2>1. j \in QueueKey
    BY <1>1, <1>2
  <2>2. IsFiniteSet(InSlot(j))
    BY QueueConstants, FS_Subset DEF InSlot
  <2>3. Cardinality(InSlot(j)) = 0 <=> InSlot(j) = {}
    BY <2>2, FS_EmptySet
  <2> QED BY <1>3, <2>1, <2>3 DEF Que!Finished
<1>7. \A j \in QueueKey : Unsettled(j)' = {} => Unsettled(j) = {} \/ j \in gone
  BY <1>5, <1>6
<1>8. \A j \in QueueKey : /\ Unsettled(j)' \subseteq Unsettled(j)
                          /\ Unsettled(j)' # {} => j \notin gone
  BY <1>5, <1>6 DEF Unsettled
<1>9. /\ \A u : u \in dropped <=> \E j \in ks : u \in ToSet(items[j])
      /\ \A u : u \in WaitingTasks <=> \E j \in QueueKey : u \in ToSet(items[j])
      /\ \A u : u \in WaitingTasks' <=> \E j \in QueueKey : u \in ToSet(items'[j])
  BY DEF WaitingTasks
<1>10. dropped \subseteq WaitingTasks
  BY <1>1, <1>2, <1>9
<1>11. WaitingTasks' = WaitingTasks \ dropped
  <2>1. ASSUME NEW u, u \in WaitingTasks' PROVE u \in WaitingTasks /\ u \notin dropped
    <3>1. PICK j \in QueueKey : u \in ToSet(items'[j])
      BY <1>9, <2>1
    <3>2. j \notin ks /\ u \in ToSet(items[j])
      BY <1>4, <3>1
    <3>3. \A i \in ks : u \notin ToSet(items[i])
      BY <1>1, <1>2, <3>2 DEF OnePlaceEach
    <3> QED BY <1>9, <3>2, <3>3
  <2>2. ASSUME NEW u, u \in WaitingTasks, u \notin dropped PROVE u \in WaitingTasks'
    <3>1. PICK j \in QueueKey : u \in ToSet(items[j])
      BY <1>9, <2>2
    <3>2. j \notin ks
      BY <1>9, <2>2, <3>1
    <3> QED BY <1>4, <1>9, <3>1, <3>2
  <2> QED BY <2>1, <2>2
<1>12. /\ Cardinality(WaitingTasks') = Cardinality(WaitingTasks) - Cardinality(dropped)
       /\ Cardinality(WaitingTasks') \in Nat /\ Cardinality(dropped) \in Nat
  <2> PICK S, T : S = WaitingTasks /\ T = WaitingTasks'
    OBVIOUS
  <2>1. \A j \in QueueKey : ToSet(items[j]) \subseteq Task
    BY <1>1 DEF ToSet
  <2>2. S \in SUBSET Task /\ T = S \ dropped /\ dropped \subseteq S
    BY <1>9, <1>10, <1>11, <2>1
  <2>3. IsFiniteSet(S) /\ IsFiniteSet(dropped) /\ IsFiniteSet(T)
    BY <2>2, QueueConstants, FS_Subset
  <2>4. Cardinality(T) = Cardinality(S) - Cardinality(S \cap dropped)
    BY <2>2, <2>3, FS_Difference
  <2>5. S \cap dropped = dropped
    BY <2>2
  <2>6. Cardinality(T) \in Nat /\ Cardinality(dropped) \in Nat
    BY <2>3, FS_CardinalityType
  <2> QED BY <2>4, <2>5, <2>6
<1>13. CountsExact'
  BY <1>1, <1>2, <1>3, <1>12 DEF CountsExact
<1>14. OnePlaceEach'
  <2>1. \A j \in QueueKey : IsInjective(items'[j])
    BY SMTT(30), <1>1, <1>4 DEF OnePlaceEach, IsInjective
  <2> PICK A, B : A = [j \in QueueKey |-> ToSet(items[j])] /\ B = [j \in QueueKey |-> ToSet(items'[j])]
    OBVIOUS
  <2>2. /\ \A j \in QueueKey : B[j] \subseteq A[j] /\ A[j] \cap RunningTasks = {}
        /\ \A i, j \in QueueKey : i # j => A[i] \cap A[j] = {}
    BY <1>1, <1>4 DEF OnePlaceEach
  <2>3. /\ \A j \in QueueKey : B[j] \cap RunningTasks = {}
        /\ \A i, j \in QueueKey : i # j => B[i] \cap B[j] = {}
    BY <2>2
  <2>4. \A j \in QueueKey : ToSet(items'[j]) \cap RunningTasks' = {}
    BY <1>3, <2>3
  <2>5. \A i, j \in QueueKey : i # j => ToSet(items'[i]) \cap ToSet(items'[j]) = {}
    BY <2>3
  <2> QED BY <2>1, <2>4, <2>5 DEF OnePlaceEach
<1>15. /\ line' \in Seq(QueueKey) /\ ToSet(line') = ToSet(line) \ ks /\ IsInjective(line')
  BY <1>1, <1>2, WithoutKeeps DEF LineInv
<1>16. LineInv'
  <2>1. line' # <<>> => line # <<>>
    <3>1. line' # <<>> => ToSet(line') # {}
      BY <1>15, HeadAndTail
    <3>2. line = <<>> => ToSet(line) = {}
      BY DEF ToSet
    <3> QED BY <1>15, <3>1, <3>2
  <2>2. /\ \A j \in QueueKey : j \in ks => ~Startable(j)'
        /\ \A j \in QueueKey : j \notin ks => (Startable(j)' <=> Startable(j))
    BY <1>2, <1>4 DEF Startable
  <2> QED BY <1>1, <1>2, <1>15, <2>1, <2>2 DEF LineInv
<1>17. LiveInv'
  <2>1. Cardinality(live') <= maxKeys
    <3>1. live' \subseteq live
      BY <1>2
    <3>2. Cardinality(live') <= Cardinality(live) /\ Cardinality(live') \in Nat
          /\ Cardinality(live) \in Nat
      BY <1>1, <3>1, FS_Subset, FS_CardinalityType
    <3> QED BY <1>1, <3>2, QueueConstants DEF LiveInv
  <2>2. \A j \in QueueKey : Unsettled(j)' # {} => j \in live'
    <3>1. \A j \in QueueKey : Unsettled(j) # {} => j \in live
      BY <1>1 DEF LiveInv
    <3> QED BY <1>2, <1>8, <3>1
  <2>3. \A j \in live' : Unsettled(j)' # {}
    <3>1. \A j \in live : Unsettled(j) # {}
      BY <1>1, <1>2 DEF LiveInv, Idle
    <3> QED BY <1>1, <1>2, <1>7, <3>1
  <2> QED BY <1>2, <2>1, <2>2, <2>3 DEF LiveInv, Idle
<1>18. OwesInv'
  <2>1. \A d \in Waiter : owes'[d] = owes[d] \ dropped
    BY <1>2
  <2>2. ASSUME NEW d \in Waiter, NEW j \in QueueKey, owes'[d] \cap Unsettled(j)' # {}
        PROVE  d \in drains'[j]
    <3>1. owes[d] \cap Unsettled(j) # {} /\ j \notin gone
      BY <1>8, <2>1, <2>2
    <3> QED BY <1>1, <1>2, <3>1 DEF OwesInv, DrainWaitsForAll
  <2>3. ASSUME NEW d \in Waiter, NEW u \in owes'[d]
        PROVE  \E j \in QueueKey : u \in Unsettled(j)'
    <3>1. u \in owes[d] /\ u \notin dropped
      BY <2>1
    <3>2. PICK j \in QueueKey : u \in Unsettled(j)
      BY <1>1, <3>1 DEF OwesInv
    <3>3. j \in ks => u \in InSlot(j)
      BY <1>9, <3>1, <3>2 DEF Unsettled
    <3>4. u \in Unsettled(j)'
      BY <1>5, <3>2, <3>3
    <3> QED BY <3>4
  <2> QED BY <2>2, <2>3 DEF OwesInv, DrainWaitsForAll
<1>19. QueueTypeOK'
  <2>1. /\ items' \in [QueueKey -> Seq(Task)] /\ drains' \in [QueueKey -> SUBSET Waiter]
        /\ owes' \in [Waiter -> SUBSET Task] /\ live' \subseteq QueueKey /\ held' \subseteq QueueKey
    <3>1. items' \in [QueueKey -> Seq(Task)]
      <4>1. \A k \in QueueKey : items[k] \in Seq(Task) /\ <<>> \in Seq(Task)
        BY <1>1
      <4> QED BY <1>2, <4>1
    <3>2. drains' \in [QueueKey -> SUBSET Waiter]
      BY <1>1, <1>2
    <3>3. owes' \in [Waiter -> SUBSET Task]
      BY <1>1, <1>2
    <3> QED BY <1>1, <1>2, <3>1, <3>2, <3>3
  <2>2. pendingCurrent' \in 0..maxPendingTotal
    BY <1>1, <1>2, <1>12, QueueConstants DEF CountsExact
  <2> QED BY <1>1, <1>2, <1>15, <2>1, <2>2 DEF QueueTypeOK
<1> QED BY <1>13, <1>14, <1>16, <1>17, <1>18, <1>19 DEF QueueInv

\* A drain() call registers with every key whose tasks it waits for.
LEMMA DrainKeeps ==
  ASSUME QueueInv, NEW d \in Waiter, NEW ks, Que!Drain(d, ks)
  PROVE  QueueInv'
<1>1. /\ QueueTypeOK /\ OnePlaceEach /\ CountsExact /\ LineInv /\ LiveInv /\ OwesInv
      /\ live \in SUBSET QueueKey
      /\ items \in [QueueKey -> Seq(Task)]
      /\ drains \in [QueueKey -> SUBSET Waiter] /\ owes \in [Waiter -> SUBSET Task]
  BY QueueTypes DEF QueueInv
<1>2. /\ ks \subseteq live
      /\ drains' = [k \in QueueKey |-> IF k \in ks THEN drains[k] \cup {d} ELSE drains[k]]
      /\ owes' = [owes EXCEPT ![d] = UNION {Unsettled(k) : k \in ks}]
      /\ UNCHANGED <<live, items, runningIn, held, line, pendingCurrent, runningCurrent,
                     inFlight, turn>>
  BY QueueNames DEF Que!Drain
<1>3. OnePlaceEach' /\ CountsExact' /\ \A j \in QueueKey : Unsettled(j)' = Unsettled(j)
  BY <1>1, <1>2 DEF OnePlaceEach, CountsExact, WaitingTasks, RunningTasks, InSlot, Unsettled
<1>4. LineInv'
  BY <1>1, <1>2 DEF LineInv, Startable
<1>5. LiveInv'
  BY <1>1, <1>2, <1>3 DEF LiveInv
<1>6. \A i, j \in QueueKey : i # j => Unsettled(i) \cap Unsettled(j) = {}
  <2> SUFFICES ASSUME NEW i \in QueueKey, NEW j \in QueueKey, i # j, NEW u
               PROVE  ~(u \in Unsettled(i) /\ u \in Unsettled(j))
    OBVIOUS
  <2>1. /\ ToSet(items[i]) \cap ToSet(items[j]) = {}
        /\ ToSet(items[i]) \cap RunningTasks = {} /\ ToSet(items[j]) \cap RunningTasks = {}
    BY <1>1 DEF OnePlaceEach
  <2>2. /\ u \in InSlot(i) => u \in RunningTasks /\ u \notin InSlot(j)
        /\ u \in InSlot(j) => u \in RunningTasks
    BY QueueConstants DEF InSlot, RunningTasks
  <2> QED BY <2>1, <2>2 DEF Unsettled
<1>7. /\ \A u : u \in owes'[d] <=> \E k \in ks : u \in Unsettled(k)
      /\ \A e \in Waiter \ {d} : owes'[e] = owes[e]
      /\ \A k \in QueueKey : drains[k] \subseteq drains'[k]
      /\ \A k \in ks : d \in drains'[k]
  BY <1>1, <1>2
<1>8. OwesInv'
  <2>1. ASSUME NEW e \in Waiter, NEW j \in QueueKey, owes'[e] \cap Unsettled(j)' # {}
        PROVE  e \in drains'[j]
    <3>1. CASE e # d
      <4>1. owes[e] \cap Unsettled(j) # {}
        BY <1>3, <1>7, <2>1, <3>1
      <4> QED BY <1>1, <1>7, <4>1 DEF OwesInv, DrainWaitsForAll
    <3>2. CASE e = d
      <4>1. PICK u : u \in owes'[d] /\ u \in Unsettled(j)
        BY <1>3, <2>1, <3>2
      <4>2. PICK k \in ks : u \in Unsettled(k)
        BY <1>7, <4>1
      <4>3. k = j
        BY <1>1, <1>2, <1>6, <4>1, <4>2
      <4> QED BY <1>7, <3>2, <4>3
    <3> QED BY <3>1, <3>2
  <2>2. ASSUME NEW e \in Waiter, NEW u \in owes'[e]
        PROVE  \E j \in QueueKey : u \in Unsettled(j)'
    <3>1. CASE e # d
      BY <1>1, <1>3, <1>7, <3>1 DEF OwesInv
    <3>2. CASE e = d
      BY <1>1, <1>2, <1>3, <1>7, <3>2
    <3> QED BY <3>1, <3>2
  <2> QED BY <2>1, <2>2 DEF OwesInv, DrainWaitsForAll
<1>9. QueueTypeOK'
  <2>1. \A j \in QueueKey : Unsettled(j) \subseteq Task
    BY <1>1 DEF Unsettled, InSlot, ToSet
  <2>2. \A u : u \in owes'[d] => u \in Task
    BY <1>1, <1>2, <1>7, <2>1
  <2>3. owes' \in [Waiter -> SUBSET Task]
    <3>1. \A e \in Waiter : owes'[e] \subseteq Task
      BY <1>1, <1>7, <2>2
    <3>2. owes' = [e \in Waiter |-> owes'[e]]
      BY <1>1, <1>2
    <3> QED BY <3>1, <3>2
  <2>4. drains' \in [QueueKey -> SUBSET Waiter]
    BY <1>1, <1>2
  <2> QED BY <1>1, <1>2, <2>3, <2>4 DEF QueueTypeOK
<1> QED BY <1>3, <1>4, <1>5, <1>8, <1>9 DEF QueueInv
\* Every step of the queue keeps its invariant.
LEMMA QueueNext == QueueInv /\ [Que!Next]_Que!queueVars => QueueInv'
<1> SUFFICES ASSUME QueueInv, [Que!Next]_Que!queueVars PROVE QueueInv'
  OBVIOUS
<1>1. ASSUME NEW k \in QueueKey, NEW t \in Task, Que!Push(k, t) PROVE QueueInv'
  BY <1>1, PushKeeps
<1>2. CASE Que!TurnStep
  BY <1>2, ScheduleKeeps, PumpOneKeeps, PumpEndKeeps, CleanupKeeps DEF Que!TurnStep
<1>3. ASSUME NEW t \in Task, Que!Settle(t) PROVE QueueInv'
  BY <1>3, SettleKeeps
<1>4. ASSUME NEW ks, Que!Clear(ks) PROVE QueueInv'
  BY <1>4, ClearKeeps
<1>5. ASSUME NEW d \in Waiter, NEW ks, Que!Drain(d, ks) PROVE QueueInv'
  BY <1>5, DrainKeeps
<1>6. CASE UNCHANGED Que!queueVars
  <2>1. UNCHANGED queueVars
    BY <1>6 DEF Que!queueVars, queueVars
  <2>2. /\ \A j \in QueueKey : Unsettled(j)' = Unsettled(j) /\ InSlot(j)' = InSlot(j)
        /\ \A j \in QueueKey : Startable(j)' <=> Startable(j)
        /\ WaitingTasks' = WaitingTasks /\ RunningTasks' = RunningTasks
    BY <2>1 DEF queueVars, Unsettled, InSlot, Startable, WaitingTasks, RunningTasks
  <2>3. QueueTypeOK' /\ OnePlaceEach' /\ CountsExact'
    BY <2>1, <2>2 DEF queueVars, QueueInv, QueueTypeOK, OnePlaceEach, CountsExact
  <2>4. LineInv /\ LiveInv /\ OwesInv /\ live \in SUBSET QueueKey
    BY QueueTypes DEF QueueInv
  <2>5. LineInv'
    BY <2>1, <2>2, <2>4 DEF queueVars, LineInv
  <2>6. LiveInv'
    BY <2>1, <2>2, <2>4 DEF queueVars, LiveInv
  <2>7. OwesInv'
    BY <2>1, <2>2, <2>4 DEF queueVars, OwesInv, DrainWaitsForAll
  <2> QED BY <2>3, <2>5, <2>6, <2>7 DEF QueueInv
<1> QED BY <1>1, <1>2, <1>3, <1>4, <1>5, <1>6 DEF Que!Next

\* What holds inside a turn says, between turns, what the accounts promise.
LEMMA QueuePromises == QueueInv => AccountsExact
<1> SUFFICES ASSUME QueueInv PROVE AccountsExact
  OBVIOUS
<1>1. /\ QueueTypeOK /\ OnePlaceEach /\ CountsExact /\ LineInv /\ LiveInv /\ OwesInv
      /\ runningCurrent \in Nat /\ runningCurrent <= maxRunningTotal
      /\ live \in SUBSET QueueKey /\ held \in SUBSET QueueKey
      /\ items \in [QueueKey -> Seq(Task)]
  BY QueueTypes DEF QueueInv
<1>2. LineIsExact
  <2> SUFFICES ASSUME turn = Idle
               PROVE  /\ ToSet(line) = {k \in live : Startable(k)}
                      /\ held = ToSet(line) /\ IsInjective(line)
                      /\ line # <<>> => runningCurrent = maxRunningTotal
    BY DEF LineIsExact
  <2>1. turn.step = "idle"
    BY DEF Idle
  <2>2. \A k \in QueueKey : k \in held <=> Startable(k)
    BY <1>1, <2>1 DEF LineInv
  <2>3. ASSUME NEW k \in QueueKey, Startable(k) PROVE k \in live
    <3>1. items[k] \in Seq(Task) /\ items[k] # <<>>
      BY <1>1, <2>3 DEF Startable
    <3>2. Head(items[k]) \in Unsettled(k)
      BY <3>1, HeadAndTail DEF Unsettled
    <3> QED BY <1>1, <3>2 DEF LiveInv
  <2>4. line # <<>> => runningCurrent = maxRunningTotal
    BY <1>1, <2>1, QueueConstants DEF LineInv
  <2> QED BY <1>1, <2>2, <2>3, <2>4 DEF LineInv
<1>3. turn = Idle => live = {k \in QueueKey : Unsettled(k) # {}}
  BY <1>1 DEF LiveInv, Idle
<1> QED BY <1>1, <1>2, <1>3 DEF AccountsExact, CountsExact, LiveInv, OwesInv

\* The accounts of the queue plugin are exact in every reachable state: the counters
\* equal what they count, the line names the startable keys once each, a key is live
\* while it has work, and a drain() call waits for all it was called to wait for
\* (push, start, settlement, cleanup, clear and drain of queue/server.js).
THEOREM AccountsStayExact == Que!Spec => []AccountsExact
<1>1. Que!Init => QueueInv
  BY QueueInit
<1>2. QueueInv /\ [Que!Next]_Que!queueVars => QueueInv'
  BY QueueNext
<1>3. QueueInv => AccountsExact
  BY QueuePromises
<1> QED BY <1>1, <1>2, <1>3, PTL DEF Que!Spec

\* A task starts in one of two places: for the key at the head of the line, or when
\* there is no line.
LEMMA WhoStarts ==
  ASSUME QueueInv, Que!Next, NEW j \in QueueKey, NEW k \in QueueKey,
         runningIn'[j] > runningIn[j], k # j, k \in held
  PROVE  line # <<>> /\ Head(line) = j
<1>1. /\ runningIn \in [QueueKey -> 0..concurrency] /\ line \in Seq(QueueKey) /\ LineInv
      /\ inFlight \in [Task -> QueueKey \cup {NoKey}]
  BY QueueTypes DEF QueueInv
<1>2. runningIn[j] \in Int
  BY <1>1, QueueConstants
<1>3. ~UNCHANGED runningIn
  BY <1>2
<1>4. ASSUME NEW i \in QueueKey, Que!Start(i) PROVE i = j
  <2>1. runningIn' = [runningIn EXCEPT ![i] = runningIn[i] + 1]
    BY <1>4 DEF Que!Start
  <2> QED BY <1>1, <1>2, <2>1
<1>5. line # <<>>
  <2>1. held = ToSet(line)
    BY <1>1 DEF LineInv
  <2> QED BY <2>1 DEF ToSet
<1>6. CASE Que!Schedule
  <2>1. Que!StartNothing
    BY <1>5, <1>6 DEF Que!Schedule, Que!Shortcut
  <2> QED BY <1>3, <2>1 DEF Que!StartNothing
<1>7. CASE Que!PumpOne
  <2>1. Que!Start(Head(line))
    BY <1>3, <1>7 DEF Que!PumpOne, Que!StartNothing
  <2>2. Head(line) \in QueueKey
    BY <1>1, <1>5
  <2> QED BY <1>4, <1>5, <2>1, <2>2
<1>8. ASSUME NEW t \in Task, Que!Settle(t) PROVE FALSE
  <2>1. runningIn' = [runningIn EXCEPT ![inFlight[t]] = runningIn[inFlight[t]] - 1]
    BY <1>8 DEF Que!Settle
  <2> QED BY <1>1, <1>2, <2>1
<1>9. \/ Que!Schedule \/ Que!PumpOne \/ \E t \in Task : Que!Settle(t)
  BY <1>3 DEF Que!Next, Que!TurnStep, Que!Push, Que!PumpEnd, Que!Cleanup, Que!Clear, Que!Drain
<1> QED BY <1>6, <1>7, <1>8, <1>9

\* No key is passed over by one that came after it in line: schedule()'s shortcut is
\* taken only when there is no line, and pump() serves its head.
THEOREM NobodyOvertakes == Que!Spec => NoOvertaking
<1>1. QueueInv /\ [Que!Next]_Que!queueVars
        => [\A j, k \in QueueKey :
              (runningIn'[j] > runningIn[j] /\ k # j /\ k \in held)
                  => (line # <<>> /\ Head(line) = j)]_queueVars
  BY WhoStarts DEF Que!queueVars, queueVars
<1>2. Que!Init => QueueInv
  BY QueueInit
<1>3. QueueInv /\ [Que!Next]_Que!queueVars => QueueInv'
  BY QueueNext
<1> QED BY <1>1, <1>2, <1>3, PTL DEF Que!Spec, NoOvertaking

-----------------------------------------------------------------------------
(***************************************************************************)
(* The throttle plugin.  What is known of a topic is known of each one by  *)
(* itself.  An excused topic is known to have no timer running, so that    *)
(* its next value starts an interval, or leaves it excused.                *)
(***************************************************************************)
TopicInv(t) ==
  /\ state[t].timer = "off" => state[t] = Fresh
  /\ t \notin ToSet(topics) => state[t] = Fresh
  /\ sent[t] <= newest[t] /\ state[t].pending <= newest[t]
  /\ t \in excused => state[t].timer # "armed"
  /\ state[t].timer = "spent" => t \in excused
  /\ t \notin excused =>
       /\ IF state[t].pending = 0 THEN sent[t] = newest[t]
          ELSE /\ state[t].pending = newest[t] /\ newest[t] > sent[t]
               /\ state[t].timer = "armed"
       /\ IF state[t].timer = "armed" THEN state[t].left + since[t] = Interval
          ELSE since[t] = Interval

ThrottleInv == ThrottleTypeOK /\ \A t \in Topic : TopicInv(t)

\* What a topic keeps, and the number each part of it is.
LEMMA TopicTypes ==
  ASSUME ThrottleTypeOK, NEW t \in Topic
  PROVE  /\ Interval \in Nat /\ MaxTopics \in Nat /\ MaxTopics > 0 /\ MaxValue \in Nat
         /\ topics \in Seq(Topic) /\ excused \subseteq Topic
         /\ state[t].timer \in {"off", "armed", "spent"}
         /\ state[t].left \in Nat /\ state[t].left <= Interval
         /\ state[t].pending \in Nat /\ state[t].pending <= MaxValue
         /\ state[t] = [timer |-> state[t].timer, left |-> state[t].left,
                        pending |-> state[t].pending]
         /\ newest[t] \in Nat /\ newest[t] <= MaxValue
         /\ sent[t] \in Nat /\ sent[t] <= MaxValue
         /\ since[t] \in Nat /\ since[t] <= Interval
<1>1. Interval \in Nat /\ MaxTopics \in Nat /\ MaxTopics > 0 /\ MaxValue \in Nat
  BY ThrottleAssumption DEF ThrottleAssumption
<1> QED BY <1>1 DEF ThrottleTypeOK

\* An entry, made of its parts.
LEMMA EntryType ==
  ASSUME NEW timer \in {"off", "armed", "spent"}, NEW left \in 0..Interval,
         NEW value \in 0..MaxValue
  PROVE  [timer |-> timer, left |-> left, pending |-> value]
           \in [timer : {"off", "armed", "spent"}, left : 0..Interval, pending : 0..MaxValue]
OBVIOUS

\* Which names of the component mean what they mean here.
LEMMA ThrottleNames ==
  /\ Thr!Fresh = Fresh
  /\ \A s : Thr!ToSet(s) = ToSet(s)
  /\ \A s, T : Thr!Without(s, T) = Without(s, T)
BY DEF Thr!Fresh, Fresh, Thr!ToSet, ToSet, Thr!Without, Without

LEMMA ThrottleInit == Thr!Init => ThrottleInv
<1> SUFFICES ASSUME Thr!Init PROVE ThrottleInv
  OBVIOUS
<1>1. /\ mode \in {"throttle", "debounce"} /\ topics = <<>> /\ excused = {}
      /\ state = [t \in Topic |-> Fresh] /\ newest = [t \in Topic |-> 0]
      /\ sent = [t \in Topic |-> 0] /\ since = [t \in Topic |-> Interval]
  BY ThrottleNames DEF Thr!Init, Thr!Zero
<1>2. Interval \in Nat /\ MaxTopics \in Nat /\ MaxValue \in Nat
  BY ThrottleAssumption DEF ThrottleAssumption
<1>3. ThrottleTypeOK
  <2>1. Fresh \in [timer : {"off", "armed", "spent"}, left : 0..Interval, pending : 0..MaxValue]
    BY <1>2 DEF Fresh
  <2>2. IsInjective(topics) /\ Len(topics) <= MaxTopics
    BY <1>1, <1>2 DEF IsInjective
  <2> QED BY <1>1, <1>2, <2>1, <2>2 DEF ThrottleTypeOK
<1>4. ASSUME NEW t \in Topic PROVE TopicInv(t)
  BY <1>1, <1>2 DEF TopicInv, Fresh
<1> QED BY <1>3, <1>4 DEF ThrottleInv

\* Time passes for every timer that runs.
LEMMA TickKeeps ==
  ASSUME ThrottleInv, Thr!Tick
  PROVE  ThrottleInv'
<1>1. ThrottleTypeOK /\ \A t \in Topic : TopicInv(t)
  BY DEF ThrottleInv
<1>2. /\ state' = [t \in Topic |->
           IF state[t].timer = "armed" /\ state[t].left > 0
           THEN [timer |-> "armed", left |-> state[t].left - 1, pending |-> state[t].pending]
           ELSE state[t]]
      /\ since' = [t \in Topic |-> IF since[t] < Interval THEN since[t] + 1 ELSE Interval]
      /\ UNCHANGED <<mode, topics, newest, sent, excused>>
  BY DEF Thr!Tick
<1>3. /\ state' \in [Topic -> [timer : {"off", "armed", "spent"}, left : 0..Interval,
                               pending : 0..MaxValue]]
      /\ since' \in [Topic -> 0..Interval]
  <2>1. ASSUME NEW t \in Topic, state[t].left > 0 PROVE state[t].left - 1 \in 0..Interval
    <3>1. state[t].left \in Nat /\ state[t].left <= Interval /\ Interval \in Nat
      BY <1>1, TopicTypes
    <3> QED BY <2>1, <3>1
  <2>2. ASSUME NEW t \in Topic
        PROVE  (IF since[t] < Interval THEN since[t] + 1 ELSE Interval) \in 0..Interval
    <3>1. since[t] \in Nat /\ Interval \in Nat
      BY <1>1, TopicTypes
    <3> QED BY <3>1
  <2>3. \A t \in Topic : state[t] \in [timer : {"off", "armed", "spent"}, left : 0..Interval,
                                       pending : 0..MaxValue] /\ state[t].pending \in 0..MaxValue
    BY <1>1 DEF ThrottleTypeOK
  <2>4. \A t \in Topic : state'[t] \in [timer : {"off", "armed", "spent"}, left : 0..Interval,
                                        pending : 0..MaxValue]
    BY <1>2, <2>1, <2>3, EntryType
  <2> QED BY <1>2, <2>2, <2>4
<1>4. ThrottleTypeOK'
  BY <1>1, <1>2, <1>3 DEF ThrottleTypeOK
<1>5. ASSUME NEW t \in Topic PROVE TopicInv(t)'
  <2>1. /\ TopicInv(t) /\ sent'[t] = sent[t] /\ newest'[t] = newest[t] /\ excused' = excused
        /\ topics' = topics
    BY <1>1, <1>2
  <2>2. /\ state[t].left \in Nat /\ state[t].pending \in Nat /\ since[t] \in Nat
        /\ since[t] <= Interval /\ Interval \in Nat
        /\ since'[t] = IF since[t] < Interval THEN since[t] + 1 ELSE Interval
    BY <1>1, <1>2, TopicTypes
  <2>3. CASE state[t].timer = "armed" /\ state[t].left > 0
    <3>1. state'[t].timer = "armed" /\ state'[t].left = state[t].left - 1
          /\ state'[t].pending = state[t].pending
      BY <1>2, <2>3
    <3>3. t \in ToSet(topics')
      BY <2>1, <2>3 DEF TopicInv, Fresh
    <3>4. t \notin excused => state[t].left + since[t] = Interval
      BY <2>1, <2>3 DEF TopicInv
    <3>5. t \notin excused => state'[t].left + since'[t] = Interval
      BY <2>2, <2>3, <3>1, <3>4
    <3> QED BY <2>1, <2>3, <3>1, <3>3, <3>5 DEF TopicInv
  <2>4. CASE ~(state[t].timer = "armed" /\ state[t].left > 0)
    <3>1. state'[t] = state[t]
      BY <1>2, <2>4
    <3>2. t \notin excused => since[t] = Interval
      BY <2>1, <2>2, <2>4 DEF TopicInv
    <3>3. t \notin excused => since'[t] = since[t]
      BY <2>2, <3>2
    <3> QED BY <2>1, <3>1, <3>3 DEF TopicInv, Fresh
  <2> QED BY <2>3, <2>4
<1> QED BY <1>4, <1>5 DEF ThrottleInv

\* A topic that a step leaves alone.
LEMMA TopicStays ==
  ASSUME NEW t \in Topic, TopicInv(t),
         state'[t] = state[t], sent'[t] = sent[t], newest'[t] = newest[t], since'[t] = since[t],
         t \in excused' <=> t \in excused,
         t \in ToSet(topics) => t \in ToSet(topics')
  PROVE  TopicInv(t)'
BY DEF TopicInv, Fresh

\* A topic with nothing pending and no timer, all of it sent or excused.
LEMMA TopicRests ==
  ASSUME NEW t \in Topic, state'[t] = Fresh, since'[t] = Interval,
         newest'[t] \in Nat, sent'[t] \in Nat, sent'[t] <= newest'[t],
         t \in excused' \/ sent'[t] = newest'[t]
  PROVE  TopicInv(t)'
BY DEF TopicInv, Fresh
\* The map of topics, when some leave it.
LEMMA TopicsLeave ==
  ASSUME ThrottleTypeOK, NEW T, topics' = Without(topics, T)
  PROVE  /\ topics' \in Seq(Topic) /\ IsInjective(topics') /\ Len(topics') <= MaxTopics
         /\ ToSet(topics') = ToSet(topics) \ T
<1>1. topics \in Seq(Topic) /\ IsInjective(topics) /\ Len(topics) <= MaxTopics
  BY DEF ThrottleTypeOK
<1>2. /\ topics' \in Seq(Topic) /\ Len(topics') <= Len(topics) /\ IsInjective(topics')
      /\ ToSet(topics') = ToSet(topics) \ T
  BY <1>1, WithoutKeeps
<1>3. Len(topics) \in Nat /\ Len(topics') \in Nat /\ MaxTopics \in Nat
  BY <1>1, <1>2, ThrottleAssumption DEF ThrottleAssumption
<1> QED BY <1>1, <1>2, <1>3

\* The topics a call of flush or cancel names are in the map.
LEMMA NamedKeys ==
  ASSUME ThrottleTypeOK, NEW keys \in Thr!Named
  PROVE  keys \in Seq(Topic) /\ ToSet(keys) \subseteq Topic
<1>1. topics \in Seq(Topic) /\ ToSet(topics) \subseteq Topic
  BY DEF ThrottleTypeOK, ToSet
<1>2. keys = topics \/ \E t \in ToSet(topics) : keys = <<t>>
  BY ThrottleNames DEF Thr!Named
<1>3. CASE keys = topics
  BY <1>1, <1>3
<1>4. CASE \E t \in ToSet(topics) : keys = <<t>>
  <2>1. PICK t \in Topic : keys = <<t>>
    BY <1>1, <1>4
  <2> QED BY <2>1 DEF ToSet
<1> QED BY <1>2, <1>3, <1>4

LEMMA CancelKeeps ==
  ASSUME ThrottleInv, NEW keys \in Thr!Named, Thr!Cancel(keys)
  PROVE  ThrottleInv'
<1>1. ThrottleTypeOK /\ \A t \in Topic : TopicInv(t)
  BY DEF ThrottleInv
<1>2. /\ topics' = Without(topics, ToSet(keys))
      /\ state' = [u \in Topic |-> IF u \in ToSet(keys) THEN Fresh ELSE state[u]]
      /\ since' = [u \in Topic |-> IF u \in ToSet(keys) THEN Interval ELSE since[u]]
      /\ excused' = excused \cup ToSet(keys)
      /\ UNCHANGED <<mode, newest, sent>>
  BY ThrottleNames DEF Thr!Cancel
<1>3. ToSet(keys) \subseteq Topic
  BY <1>1, NamedKeys
<1>4. /\ topics' \in Seq(Topic) /\ IsInjective(topics') /\ Len(topics') <= MaxTopics
      /\ ToSet(topics') = ToSet(topics) \ ToSet(keys)
  BY <1>1, <1>2, TopicsLeave
<1>5. ThrottleTypeOK'
  <2>1. Fresh \in [timer : {"off", "armed", "spent"}, left : 0..Interval, pending : 0..MaxValue]
        /\ Interval \in 0..Interval
    BY ThrottleAssumption DEF Fresh, ThrottleAssumption
  <2>2. /\ state' \in [Topic -> [timer : {"off", "armed", "spent"}, left : 0..Interval,
                                 pending : 0..MaxValue]]
        /\ since' \in [Topic -> 0..Interval]
    BY <1>1, <1>2, <2>1 DEF ThrottleTypeOK
  <2> QED BY <1>1, <1>2, <1>3, <1>4, <2>2 DEF ThrottleTypeOK
<1>6. ASSUME NEW t \in Topic PROVE TopicInv(t)'
  <2>1. CASE t \in ToSet(keys)
    <3>1. state'[t] = Fresh /\ since'[t] = Interval /\ newest'[t] = newest[t] /\ sent'[t] = sent[t]
          /\ t \in excused'
      BY <1>2, <2>1
    <3>2. newest[t] \in Nat /\ sent[t] \in Nat
      BY <1>1, TopicTypes
    <3>3. sent[t] <= newest[t]
      BY <1>1 DEF TopicInv
    <3> QED BY <3>1, <3>2, <3>3, TopicRests
  <2>2. CASE t \notin ToSet(keys)
    <3>1. state'[t] = state[t] /\ since'[t] = since[t] /\ newest'[t] = newest[t]
          /\ sent'[t] = sent[t] /\ (t \in excused' <=> t \in excused)
      BY <1>2, <2>2
    <3>2. t \in ToSet(topics) => t \in ToSet(topics')
      BY <1>4, <2>2
    <3> QED BY <1>1, <3>1, <3>2, TopicStays
  <2> QED BY <2>1, <2>2
<1> QED BY <1>5, <1>6 DEF ThrottleInv

\* The entries a failed flush got to have a cleared timer, and are excused.
LEMMA TopicCleared ==
  ASSUME NEW t \in Topic, TopicInv(t), t \in excused', sent'[t] \in {sent[t], state[t].pending},
         newest'[t] = newest[t], t \in ToSet(topics) => t \in ToSet(topics'),
         NEW value \in {0, state[t].pending}, newest[t] \in Nat,
         state[t] = [timer |-> state[t].timer, left |-> state[t].left,
                     pending |-> state[t].pending],
         state'[t] = [timer |-> IF state[t].timer = "off" THEN "off" ELSE "spent",
                      left |-> state[t].left, pending |-> value]
  PROVE  TopicInv(t)'
<1>1. /\ state'[t].timer = (IF state[t].timer = "off" THEN "off" ELSE "spent")
      /\ state'[t].left = state[t].left /\ state'[t].pending = value
  OBVIOUS
<1>2. sent'[t] <= newest'[t] /\ value <= newest'[t]
  BY DEF TopicInv
<1>3. state[t] = Fresh => state'[t] = Fresh
  BY DEF Fresh
<1>4. state'[t].timer = "off" => state[t].timer = "off"
  BY <1>1
<1> QED BY <1>1, <1>2, <1>3, <1>4 DEF TopicInv

LEMMA FlushKeeps ==
  ASSUME ThrottleInv, NEW keys \in Thr!Named, NEW failed \in 0..Len(keys), Thr!Flush(keys, failed)
  PROVE  ThrottleInv'
<1> PICK upTo : upTo = IF failed = 0 THEN keys ELSE SubSeq(keys, 1, failed)
  OBVIOUS
<1> PICK went : went = {upTo[i] : i \in {j \in DOMAIN upTo : state[upTo[j]].pending # 0
                                                             /\ j # failed}}
  OBVIOUS
<1>1. ThrottleTypeOK /\ \A t \in Topic : TopicInv(t)
  BY DEF ThrottleInv
<1>2. /\ topics' = IF failed = 0 THEN Without(topics, ToSet(keys)) ELSE topics
      /\ state' = [u \in Topic |->
           IF u \notin ToSet(upTo) THEN state[u]
           ELSE IF failed = 0 THEN Fresh ELSE Thr!Cleared(state[u], state[u].pending)]
      /\ sent' = [u \in Topic |-> IF u \in went THEN state[u].pending ELSE sent[u]]
      /\ since' = [u \in Topic |-> IF u \in ToSet(upTo) THEN Interval ELSE since[u]]
      /\ excused' = IF failed = 0 THEN excused ELSE excused \cup ToSet(upTo)
      /\ UNCHANGED <<mode, newest>>
  BY ThrottleNames DEF Thr!Flush
<1>3. keys \in Seq(Topic) /\ ToSet(keys) \subseteq Topic
  BY <1>1, NamedKeys
<1>4. upTo \in Seq(Topic) /\ ToSet(upTo) \subseteq Topic
  <2>1. upTo \in Seq(Topic)
    BY <1>3
  <2> QED BY <2>1 DEF ToSet
<1>5. went \subseteq ToSet(upTo)
  BY DEF ToSet
<1>6. failed = 0 => /\ upTo = keys
                    /\ \A u \in ToSet(upTo) : state[u].pending # 0 => u \in went
  <2> SUFFICES ASSUME failed = 0, NEW u \in ToSet(upTo), state[u].pending # 0
               PROVE  u \in went
    OBVIOUS
  <2>1. PICK i \in DOMAIN upTo : u = upTo[i]
    BY DEF ToSet
  <2>2. i # failed
    BY <1>4, <2>1
  <2> QED BY <2>1, <2>2
<1>7. /\ topics' \in Seq(Topic) /\ IsInjective(topics') /\ Len(topics') <= MaxTopics
      /\ \A u \in Topic : u \in ToSet(topics) /\ (failed = 0 => u \notin ToSet(upTo))
                            => u \in ToSet(topics')
  <2>1. CASE failed = 0
    BY <1>1, <1>2, <1>6, <2>1, TopicsLeave
  <2>2. CASE failed # 0
    <3>1. topics' = topics
      BY <1>2, <2>2
    <3> QED BY <1>1, <2>2, <3>1 DEF ThrottleTypeOK
  <2> QED BY <2>1, <2>2
<1>8. ThrottleTypeOK'
  <2>1. Fresh \in [timer : {"off", "armed", "spent"}, left : 0..Interval, pending : 0..MaxValue]
        /\ Interval \in 0..Interval
    BY ThrottleAssumption DEF Fresh, ThrottleAssumption
  <2>2. ASSUME NEW u \in Topic
        PROVE  /\ state'[u] \in [timer : {"off", "armed", "spent"}, left : 0..Interval,
                                 pending : 0..MaxValue]
               /\ sent'[u] \in 0..MaxValue
    <3>1. /\ state[u] \in [timer : {"off", "armed", "spent"}, left : 0..Interval,
                           pending : 0..MaxValue]
          /\ state[u].left \in 0..Interval /\ state[u].pending \in 0..MaxValue
          /\ sent[u] \in 0..MaxValue
      BY <1>1 DEF ThrottleTypeOK
    <3>2. Thr!Cleared(state[u], state[u].pending)
            \in [timer : {"off", "armed", "spent"}, left : 0..Interval, pending : 0..MaxValue]
      BY <3>1, EntryType DEF Thr!Cleared
    <3> QED BY <1>2, <2>1, <3>1, <3>2
  <2>3. /\ state' \in [Topic -> [timer : {"off", "armed", "spent"}, left : 0..Interval,
                                 pending : 0..MaxValue]]
        /\ sent' \in [Topic -> 0..MaxValue]
    BY <1>2, <2>2
  <2>4. since' \in [Topic -> 0..Interval]
    BY <1>1, <1>2, <2>1 DEF ThrottleTypeOK
  <2> QED BY <1>1, <1>2, <1>4, <1>7, <2>3, <2>4 DEF ThrottleTypeOK
<1>9. ASSUME NEW t \in Topic PROVE TopicInv(t)'
  <2>1. /\ TopicInv(t) /\ newest[t] \in Nat /\ sent[t] \in Nat /\ state[t].pending \in Nat
        /\ newest'[t] = newest[t]
        /\ state[t] = [timer |-> state[t].timer, left |-> state[t].left,
                       pending |-> state[t].pending]
    BY <1>1, <1>2, TopicTypes
  <2>2. CASE t \notin ToSet(upTo)
    <3>1. state'[t] = state[t] /\ since'[t] = since[t] /\ sent'[t] = sent[t]
          /\ (t \in excused' <=> t \in excused)
      BY <1>2, <1>5, <2>2
    <3>2. t \in ToSet(topics) => t \in ToSet(topics')
      BY <1>7, <2>2
    <3> QED BY <2>1, <3>1, <3>2, TopicStays
  <2>3. CASE t \in ToSet(upTo) /\ failed = 0
    <3>1. state'[t] = Fresh /\ since'[t] = Interval /\ excused' = excused
      BY <1>2, <2>3
    <3>2. sent'[t] = IF state[t].pending # 0 THEN state[t].pending ELSE sent[t]
      BY <1>2, <1>6, <2>3
    <3>3. sent'[t] <= newest'[t] /\ (t \in excused' \/ sent'[t] = newest'[t])
      BY <2>1, <3>1, <3>2 DEF TopicInv
    <3> QED BY <2>1, <3>1, <3>2, <3>3, TopicRests
  <2>4. CASE t \in ToSet(upTo) /\ failed # 0
    <3>1. state'[t] = Thr!Cleared(state[t], state[t].pending) /\ t \in excused'
          /\ sent'[t] \in {sent[t], state[t].pending}
      BY <1>2, <2>4
    <3>2. t \in ToSet(topics) => t \in ToSet(topics')
      BY <1>7, <2>4
    <3>3. state'[t] = [timer |-> IF state[t].timer = "off" THEN "off" ELSE "spent",
                       left |-> state[t].left, pending |-> state[t].pending]
      BY <3>1 DEF Thr!Cleared
    <3> QED BY <2>1, <3>1, <3>2, <3>3, TopicCleared
  <2> QED BY <2>2, <2>3, <2>4
<1> QED BY <1>8, <1>9 DEF ThrottleInv
LEMMA FireKeeps ==
  ASSUME ThrottleInv, NEW t \in Topic, NEW throws \in BOOLEAN, Thr!Fire(t, throws)
  PROVE  ThrottleInv'
<1> PICK s : s = state[t]
  OBVIOUS
<1>1. ThrottleTypeOK /\ (\A u \in Topic : TopicInv(u)) /\ TopicInv(t)
  BY DEF ThrottleInv
<1>2. /\ s.timer = "armed" /\ s.left = 0
      /\ state' = [state EXCEPT ![t] =
           IF throws THEN Thr!Cleared(s, IF mode = "throttle" THEN 0 ELSE s.pending)
           ELSE IF s.pending # 0 THEN Thr!Fired ELSE Fresh]
      /\ topics' = IF throws \/ state'[t].timer = "armed" THEN topics ELSE Without(topics, {t})
      /\ sent' = IF s.pending # 0 /\ ~throws THEN [sent EXCEPT ![t] = s.pending] ELSE sent
      /\ since' = IF s.pending # 0 /\ ~throws /\ mode = "throttle" THEN [since EXCEPT ![t] = 0]
                  ELSE since
      /\ excused' = IF throws THEN excused \cup {t} ELSE excused
      /\ UNCHANGED <<mode, newest>>
  BY ThrottleNames DEF Thr!Fire
<1>3. /\ s.timer \in {"off", "armed", "spent"} /\ s.left \in 0..Interval
      /\ s.pending \in 0..MaxValue /\ s.pending \in Nat
      /\ s = [timer |-> s.timer, left |-> s.left, pending |-> s.pending]
      /\ newest[t] \in Nat /\ sent[t] \in Nat /\ since[t] \in Nat
      /\ Interval \in Nat /\ MaxValue \in Nat
      /\ state \in [Topic -> [timer : {"off", "armed", "spent"}, left : 0..Interval,
                              pending : 0..MaxValue]]
      /\ sent \in [Topic -> 0..MaxValue] /\ since \in [Topic -> 0..Interval]
  <2>1. /\ state \in [Topic -> [timer : {"off", "armed", "spent"}, left : 0..Interval,
                              pending : 0..MaxValue]]
        /\ sent \in [Topic -> 0..MaxValue] /\ since \in [Topic -> 0..Interval]
    BY <1>1 DEF ThrottleTypeOK
  <2> QED BY <1>1, <2>1, TopicTypes
<1>4. t \notin excused /\ t \in ToSet(topics) /\ since[t] = Interval
  BY <1>1, <1>2, <1>3 DEF TopicInv, Fresh
<1>5. /\ state'[t] = IF throws THEN Thr!Cleared(s, IF mode = "throttle" THEN 0 ELSE s.pending)
                     ELSE IF s.pending # 0 THEN Thr!Fired ELSE Fresh
      /\ sent'[t] = (IF s.pending # 0 /\ ~throws THEN s.pending ELSE sent[t])
      /\ since'[t] = (IF s.pending # 0 /\ ~throws /\ mode = "throttle" THEN 0 ELSE since[t])
      /\ \A u \in Topic \ {t} : state'[u] = state[u] /\ sent'[u] = sent[u] /\ since'[u] = since[u]
  BY <1>2, <1>3
<1>6. /\ topics' \in Seq(Topic) /\ IsInjective(topics') /\ Len(topics') <= MaxTopics
      /\ \A u \in Topic \ {t} : u \in ToSet(topics) => u \in ToSet(topics')
      /\ throws \/ state'[t].timer = "armed" => t \in ToSet(topics')
  <2>1. CASE throws \/ state'[t].timer = "armed"
    <3>1. topics' = topics
      BY <1>2, <2>1
    <3> QED BY <1>1, <1>4, <2>1, <3>1 DEF ThrottleTypeOK
  <2>2. CASE ~(throws \/ state'[t].timer = "armed")
    <3>1. topics' = Without(topics, {t})
      BY <1>2, <2>2
    <3> QED BY <1>1, <2>2, <3>1, TopicsLeave
  <2> QED BY <2>1, <2>2
<1>7. ThrottleTypeOK'
  <2>1. /\ Fresh \in [timer : {"off", "armed", "spent"}, left : 0..Interval, pending : 0..MaxValue]
        /\ 0 \in 0..MaxValue /\ 0 \in 0..Interval /\ Interval \in 0..Interval
    BY <1>3 DEF Fresh
  <2>2. Thr!Fired \in [timer : {"off", "armed", "spent"}, left : 0..Interval, pending : 0..MaxValue]
    BY <2>1, EntryType, ThrottleNames DEF Thr!Fired, Thr!Armed
  <2>3. Thr!Cleared(s, IF mode = "throttle" THEN 0 ELSE s.pending)
          \in [timer : {"off", "armed", "spent"}, left : 0..Interval, pending : 0..MaxValue]
    BY <1>3, <2>1, EntryType DEF Thr!Cleared
  <2>4. state' \in [Topic -> [timer : {"off", "armed", "spent"}, left : 0..Interval,
                              pending : 0..MaxValue]]
    BY <1>2, <1>3, <2>1, <2>2, <2>3
  <2>5. sent' \in [Topic -> 0..MaxValue] /\ since' \in [Topic -> 0..Interval]
    BY <1>2, <1>3, <2>1
  <2>6. excused' \subseteq Topic
    BY <1>1, <1>2 DEF ThrottleTypeOK
  <2> QED BY <1>1, <1>2, <1>6, <2>4, <2>5, <2>6 DEF ThrottleTypeOK
<1>8. ASSUME NEW u \in Topic \ {t} PROVE TopicInv(u)'
  <2>1. u \in excused' <=> u \in excused
    BY <1>2
  <2> QED BY <1>1, <1>2, <1>5, <1>6, <2>1, TopicStays
<1>9. TopicInv(t)'
  <2>1. CASE throws
    <3>1. state'[t] = Thr!Cleared(s, IF mode = "throttle" THEN 0 ELSE s.pending)
          /\ t \in excused' /\ t \in ToSet(topics') /\ sent'[t] = sent[t] /\ newest' = newest
      BY <1>2, <1>5, <1>6, <2>1
    <3> PICK value : value = IF mode = "throttle" THEN 0 ELSE s.pending
      OBVIOUS
    <3>2. /\ value \in {0, state[t].pending}
          /\ state'[t] = [timer |-> IF state[t].timer = "off" THEN "off" ELSE "spent",
                          left |-> state[t].left, pending |-> value]
      BY <3>1 DEF Thr!Cleared
    <3> QED BY <1>1, <1>3, <3>1, <3>2, TopicCleared
  <2>2. CASE ~throws /\ s.pending # 0 /\ mode = "throttle"
    <3>1. state'[t] = [timer |-> "armed", left |-> Interval, pending |-> 0]
      BY <1>5, <2>2 DEF Thr!Fired, Thr!Armed
    <3>2. /\ state'[t].timer = "armed" /\ state'[t].left = Interval /\ state'[t].pending = 0
          /\ sent'[t] = s.pending /\ since'[t] = 0 /\ newest' = newest /\ t \notin excused'
          /\ t \in ToSet(topics')
      BY <1>2, <1>4, <1>5, <1>6, <2>2, <3>1
    <3>3. s.pending = newest[t]
      BY <1>1, <1>4, <2>2 DEF TopicInv
    <3> QED BY <1>3, <3>2, <3>3 DEF TopicInv
  <2>3. CASE ~throws /\ ~(s.pending # 0 /\ mode = "throttle")
    <3>1. state'[t] = Fresh
      BY <1>5, <2>3, ThrottleNames DEF Thr!Fired
    <3>2. since'[t] = Interval /\ sent'[t] = newest'[t]
      BY <1>1, <1>2, <1>4, <1>5, <2>3 DEF TopicInv
    <3>3. newest'[t] \in Nat /\ sent'[t] \in Nat /\ sent'[t] <= newest'[t]
      BY <1>2, <1>3, <3>2
    <3> QED BY <3>1, <3>2, <3>3, TopicRests
  <2> QED BY <2>1, <2>2, <2>3
<1> QED BY <1>7, <1>8, <1>9 DEF ThrottleInv

LEMMA PublishKeeps ==
  ASSUME ThrottleInv, NEW t \in Topic, NEW thrown, Thr!Publish(t, thrown)
  PROVE  ThrottleInv'
<1> PICK out : out = Thr!Victim(t)
  OBVIOUS
<1> PICK flushed : flushed = {v \in out : state[v].pending # 0}
  OBVIOUS
<1> PICK n : n = newest[t] + 1
  OBVIOUS
<1> DEFINE leading == mode = "throttle" /\ state[t].timer = "off"
<1>1. /\ ThrottleTypeOK /\ (\A u \in Topic : TopicInv(u)) /\ TopicInv(t)
      /\ mode \in {"throttle", "debounce"}
  BY DEF ThrottleInv, ThrottleTypeOK
<1>2. /\ n <= MaxValue
      /\ thrown \subseteq flushed \cup IF leading THEN {t} ELSE {}
      /\ topics' = IF t \in ToSet(topics) THEN topics ELSE Append(Without(topics, out), t)
      /\ state' = [u \in Topic |->
           IF u \in out THEN Fresh
           ELSE IF u # t THEN state[u]
           ELSE IF leading
                THEN IF t \in thrown THEN state[t] ELSE Thr!Armed(0)
                ELSE IF mode = "debounce" THEN Thr!Armed(n) ELSE Thr!Keeping(state[t], n)]
      /\ newest' = [newest EXCEPT ![t] = n]
      /\ sent' = [u \in Topic |->
           IF u \in thrown THEN sent[u]
           ELSE IF u \in flushed THEN state[u].pending
           ELSE IF u = t /\ leading THEN n ELSE sent[u]]
      /\ since' = [u \in Topic |->
           IF u \in out THEN Interval
           ELSE IF u = t /\ t \notin thrown /\ (leading \/ mode = "debounce") THEN 0 ELSE since[u]]
      /\ excused' = (excused \ {t}) \cup thrown
                      \cup IF t \in excused /\ state[t].timer = "spent" /\ mode = "throttle"
                           THEN {t} ELSE {}
      /\ UNCHANGED mode
  BY ThrottleNames DEF Thr!Publish
<1>3. /\ Interval \in Nat /\ MaxTopics \in Nat /\ MaxTopics > 0 /\ MaxValue \in Nat
      /\ topics \in Seq(Topic) /\ IsInjective(topics) /\ Len(topics) <= MaxTopics
      /\ newest[t] \in Nat /\ sent[t] \in Nat /\ since[t] \in Nat
      /\ state[t].timer \in {"off", "armed", "spent"} /\ state[t].left \in 0..Interval
      /\ state[t].pending \in Nat
  BY <1>1, TopicTypes DEF ThrottleTypeOK
<1>4. n \in 0..MaxValue /\ n > newest[t] /\ n > 0
  BY <1>2, <1>3
<1>5. /\ out \subseteq Topic /\ t \notin out
      /\ t \in ToSet(topics) => out = {}
      /\ \A v \in out : topics # <<>> /\ v = Head(topics) /\ Len(topics) >= MaxTopics
                        /\ t \notin ToSet(topics)
      /\ t \notin ToSet(topics) /\ Len(topics) >= MaxTopics => out = {Head(topics)}
  <2>1. out = IF t \notin ToSet(topics) /\ Len(topics) >= MaxTopics THEN {Head(topics)} ELSE {}
    BY ThrottleNames DEF Thr!Victim
  <2>2. Len(topics) >= MaxTopics => topics # <<>>
    BY <1>3
  <2>3. topics # <<>> => Head(topics) \in Topic /\ Head(topics) \in ToSet(topics)
    BY <1>3, HeadAndTail
  <2> QED BY <2>1, <2>2, <2>3
<1>6. /\ topics' \in Seq(Topic) /\ IsInjective(topics') /\ Len(topics') <= MaxTopics
      /\ t \in ToSet(topics')
      /\ \A u \in Topic : u \in ToSet(topics) /\ u \notin out => u \in ToSet(topics')
  <2>1. CASE t \in ToSet(topics)
    BY <1>2, <1>3, <2>1
  <2>2. CASE t \notin ToSet(topics)
    <3> PICK l : l = Without(topics, out)
      OBVIOUS
    <3>1. topics' = Append(l, t)
      BY <1>2, <2>2
    <3>2. /\ l \in Seq(Topic) /\ IsInjective(l) /\ Len(l) <= Len(topics)
          /\ ToSet(l) = ToSet(topics) \ out
      BY <1>3, WithoutKeeps
    <3>3. Len(l) < MaxTopics
      <4>1. CASE Len(topics) < MaxTopics
        BY <1>3, <3>2, <4>1
      <4>2. CASE Len(topics) >= MaxTopics
        <5>1. topics # <<>> /\ out = {Head(topics)}
          BY <1>3, <1>5, <2>2, <4>2
        <5>2. Head(topics) \in ToSet(topics)
          BY <1>3, <5>1, HeadAndTail
        <5>3. Len(l) < Len(topics)
          BY <1>3, <5>1, <5>2, WithoutKeeps
        <5> QED BY <1>3, <3>2, <5>3
      <4> QED BY <1>3, <4>1, <4>2
    <3>4. t \notin ToSet(l)
      BY <2>2, <3>2
    <3>5. /\ topics' \in Seq(Topic) /\ IsInjective(topics') /\ ToSet(topics') = ToSet(l) \cup {t}
          /\ Len(topics') = Len(l) + 1
      BY <3>1, <3>2, <3>4, AppendOne
    <3> QED BY <1>3, <3>2, <3>3, <3>5
  <2> QED BY <2>1, <2>2
<1>7. /\ thrown \subseteq out \cup {t} /\ flushed \subseteq out
      /\ t \in thrown => leading
      /\ t \notin flushed
  BY <1>2, <1>5
<1>8. ThrottleTypeOK'
  <2>1. /\ Fresh \in [timer : {"off", "armed", "spent"}, left : 0..Interval, pending : 0..MaxValue]
        /\ 0 \in 0..MaxValue /\ 0 \in 0..Interval /\ Interval \in 0..Interval
    BY <1>3 DEF Fresh
  <2>2. \A value \in 0..MaxValue :
          /\ Thr!Armed(value)
               \in [timer : {"off", "armed", "spent"}, left : 0..Interval, pending : 0..MaxValue]
          /\ Thr!Keeping(state[t], value)
               \in [timer : {"off", "armed", "spent"}, left : 0..Interval, pending : 0..MaxValue]
    BY <1>3, <2>1, EntryType DEF Thr!Armed, Thr!Keeping
  <2>3. ASSUME NEW u \in Topic
        PROVE  /\ state[u] \in [timer : {"off", "armed", "spent"}, left : 0..Interval,
                                pending : 0..MaxValue]
               /\ state[u].pending \in 0..MaxValue /\ sent[u] \in 0..MaxValue
               /\ since[u] \in 0..Interval
    BY <1>1 DEF ThrottleTypeOK
  <2>4. state' \in [Topic -> [timer : {"off", "armed", "spent"}, left : 0..Interval,
                              pending : 0..MaxValue]]
    <3>1. ASSUME NEW u \in Topic
          PROVE  state'[u] \in [timer : {"off", "armed", "spent"}, left : 0..Interval,
                                pending : 0..MaxValue]
      BY <1>2, <1>4, <2>1, <2>2, <2>3
    <3> QED BY <1>2, <3>1
  <2>5. sent' \in [Topic -> 0..MaxValue]
    <3>1. ASSUME NEW u \in Topic PROVE sent'[u] \in 0..MaxValue
      BY <1>2, <1>4, <2>3
    <3> QED BY <1>2, <3>1
  <2>6. since' \in [Topic -> 0..Interval]
    <3>1. ASSUME NEW u \in Topic PROVE since'[u] \in 0..Interval
      BY <1>2, <2>1, <2>3
    <3> QED BY <1>2, <3>1
  <2>7. newest' \in [Topic -> 0..MaxValue] /\ excused' \subseteq Topic
    BY <1>1, <1>2, <1>4, <1>5, <1>7 DEF ThrottleTypeOK
  <2> QED BY <1>1, <1>2, <1>6, <2>4, <2>5, <2>6, <2>7 DEF ThrottleTypeOK
<1>9. ASSUME NEW u \in Topic \ {t} PROVE TopicInv(u)'
  <2>1. TopicInv(u) /\ newest'[u] = newest[u] /\ newest[u] \in Nat /\ sent[u] \in Nat
        /\ state[u].pending \in Nat
    BY <1>1, <1>2, TopicTypes DEF ThrottleTypeOK
  <2>2. CASE u \notin out
    <3>1. /\ state'[u] = state[u] /\ sent'[u] = sent[u] /\ since'[u] = since[u]
          /\ (u \in excused' <=> u \in excused)
      BY <1>2, <1>7, <2>2
    <3>2. u \in ToSet(topics) => u \in ToSet(topics')
      BY <1>6, <2>2
    <3> QED BY <2>1, <3>1, <3>2, TopicStays
  <2>3. CASE u \in out
    <3>1. /\ state'[u] = Fresh /\ since'[u] = Interval
          /\ sent'[u] = IF u \in thrown THEN sent[u]
                        ELSE IF state[u].pending # 0 THEN state[u].pending ELSE sent[u]
          /\ u \in excused' <=> u \in excused \/ u \in thrown
      BY <1>2, <2>3
    <3>2. sent'[u] <= newest'[u] /\ sent'[u] \in Nat /\ (u \in excused' \/ sent'[u] = newest'[u])
      BY <2>1, <3>1 DEF TopicInv
    <3> QED BY <2>1, <3>1, <3>2, TopicRests
  <2> QED BY <2>2, <2>3
<1>10. TopicInv(t)'
  <2>1. /\ newest'[t] = n /\ t \in ToSet(topics')
        /\ state'[t] = IF leading THEN IF t \in thrown THEN state[t] ELSE Thr!Armed(0)
                       ELSE IF mode = "debounce" THEN Thr!Armed(n) ELSE Thr!Keeping(state[t], n)
        /\ sent'[t] = IF t \in thrown THEN sent[t] ELSE IF leading THEN n ELSE sent[t]
        /\ since'[t] = IF t \notin thrown /\ (leading \/ mode = "debounce") THEN 0 ELSE since[t]
    BY <1>1, <1>2, <1>5, <1>6, <1>7 DEF ThrottleTypeOK
  <2>2. t \in excused' <=> \/ t \in thrown
                           \/ t \in excused /\ state[t].timer = "spent" /\ mode = "throttle"
    BY <1>2
  <2>3. CASE leading /\ t \in thrown
    <3>1. state[t] = Fresh /\ state'[t] = Fresh /\ sent'[t] = sent[t]
      BY <1>1, <2>1, <2>3 DEF TopicInv
    <3>2. sent[t] <= n /\ t \in excused'
      BY <1>1, <1>3, <1>4, <2>2, <2>3 DEF TopicInv
    <3> QED BY <1>4, <2>1, <3>1, <3>2 DEF TopicInv, Fresh
  <2>4. CASE leading /\ t \notin thrown
    <3>1. /\ state'[t].timer = "armed" /\ state'[t].left = Interval /\ state'[t].pending = 0
          /\ sent'[t] = n /\ since'[t] = 0 /\ t \notin excused'
      BY <2>1, <2>2, <2>4 DEF Thr!Armed
    <3> QED BY <1>3, <1>4, <2>1, <3>1 DEF TopicInv
  <2>5. CASE ~leading /\ mode = "debounce"
    <3>1. /\ state'[t].timer = "armed" /\ state'[t].left = Interval /\ state'[t].pending = n
          /\ sent'[t] = sent[t] /\ since'[t] = 0 /\ t \notin excused'
      BY <1>7, <2>1, <2>2, <2>5 DEF Thr!Armed
    <3>2. sent[t] < n
      BY <1>1, <1>3, <1>4 DEF TopicInv
    <3> QED BY <1>3, <1>4, <2>1, <3>1, <3>2 DEF TopicInv
  <2>6. CASE ~leading /\ mode = "throttle"
    <3>1. /\ state'[t].timer = state[t].timer /\ state'[t].left = state[t].left
          /\ state'[t].pending = n /\ sent'[t] = sent[t] /\ since'[t] = since[t]
          /\ t \notin thrown /\ state[t].timer \in {"armed", "spent"}
      BY <1>3, <1>7, <2>1, <2>6 DEF Thr!Keeping
    <3>2. sent[t] < n
      BY <1>1, <1>3, <1>4 DEF TopicInv
    <3>3. CASE state[t].timer = "armed"
      <4>1. t \notin excused' /\ state'[t].left + since'[t] = Interval
        BY <1>1, <2>2, <3>1, <3>3 DEF TopicInv
      <4> QED BY <1>3, <1>4, <2>1, <3>1, <3>2, <3>3, <4>1 DEF TopicInv
    <3>4. CASE state[t].timer = "spent"
      <4>1. t \in excused'
        BY <1>1, <2>2, <2>6, <3>4 DEF TopicInv
      <4> QED BY <1>3, <1>4, <2>1, <3>1, <3>2, <3>4, <4>1 DEF TopicInv
    <3> QED BY <3>1, <3>3, <3>4
  <2> QED BY <1>1, <2>3, <2>4, <2>5, <2>6
<1> QED BY <1>8, <1>9, <1>10 DEF ThrottleInv

LEMMA ThrottleNext == ThrottleInv /\ [Thr!Next]_Thr!throttleVars => ThrottleInv'
<1> SUFFICES ASSUME ThrottleInv, [Thr!Next]_Thr!throttleVars PROVE ThrottleInv'
  OBVIOUS
<1>1. ASSUME NEW t \in Topic, NEW thrown, Thr!Publish(t, thrown) PROVE ThrottleInv'
  BY <1>1, PublishKeeps
<1>2. ASSUME NEW t \in Topic, NEW throws \in BOOLEAN, Thr!Fire(t, throws) PROVE ThrottleInv'
  BY <1>2, FireKeeps
<1>3. ASSUME NEW keys \in Thr!Named, Thr!Cancel(keys) PROVE ThrottleInv'
  BY <1>3, CancelKeeps
<1>4. ASSUME NEW keys \in Thr!Named, NEW failed \in 0..Len(keys), Thr!Flush(keys, failed)
      PROVE  ThrottleInv'
  BY <1>4, FlushKeeps
<1>5. CASE Thr!Tick
  BY <1>5, TickKeeps
<1>6. CASE UNCHANGED Thr!throttleVars
  <2>1. UNCHANGED <<mode, topics, state, newest, sent, since, excused>>
    BY <1>6 DEF Thr!throttleVars
  <2> QED BY <2>1 DEF ThrottleInv, ThrottleTypeOK, TopicInv
<1> QED BY <1>1, <1>2, <1>3, <1>4, <1>5, <1>6 DEF Thr!Next

\* What waits is the newest value and waits for a timer that runs, what does not wait
\* has been sent, and no value goes out inside an interval, for any topics, interval
\* and cap, whatever is flushed, cancelled or evicted (throttle and debounce of
\* throttle/server.js); a topic whose publish threw is excused until its next value.
THEOREM LatestAlwaysDelivered == Thr!Spec => []LatestIsDelivered
<1>1. ThrottleInv => LatestIsDelivered
  BY DEF ThrottleInv, TopicInv, LatestIsDelivered
<1> QED BY <1>1, ThrottleInit, ThrottleNext, PTL DEF Thr!Spec
=============================================================================
