------------------------------- MODULE Group -------------------------------
(***************************************************************************)
(* One group of the groups plugin (plugins/groups/server.js, the roster of *)
(* plugins/groups/client.js): how its operations change what GroupRosters  *)
(* describes.  The admission hook runs between the checks and the insertion*)
(* and may call the group back; the socket may be gone.                    *)
(***************************************************************************)
EXTENDS GroupRosters, FiniteSetsExt, Functions

vars == <<open, group, roster, phantoms, nested>>

Nobody == [r \in Role |-> 0]

Init ==
    /\ open = Member
    /\ group = [role |-> [m \in Member |-> NoRole], subs |-> {}, closed |-> FALSE]
    /\ roster = [m \in Member |-> Nobody]
    /\ phantoms = Nobody
    /\ nested = {}

Become(w) == group' = w.group /\ roster' = w.roster /\ phantoms' = w.phantoms

-----------------------------------------------------------------------------
(* The frames, as each subscriber's client applies them.                   *)

Told(w, lists) ==
    [w EXCEPT !.roster = [m \in Member |-> IF m \in w.group.subs THEN lists[m] ELSE @[m]]]

ToldJoin(w, r)  == Told(w, [m \in Member |-> [w.roster[m] EXCEPT ![r] = @ + 1]])
ToldLeave(w, r) == Told(w, [m \in Member |-> [w.roster[m] EXCEPT ![r] = Max({0, @ - 1})]])
ToldClose(w)    == Told(w, [m \in Member |-> Nobody])

\* What the server keeps about m.
Unsubscribed(w, m) == [w EXCEPT !.group.subs = @ \ {m}]
Removed(w, m)      == [w EXCEPT !.group.role[m] = NoRole]

\* Slip: the joiner is subscribed before its join is announced.
InstallEarly(w, m, r) ==
    LET v == [w EXCEPT !.group.role[m] = r]
    IN IF m \notin open
       THEN [Removed(ToldJoin(v, r), m) EXCEPT !.phantoms[r] = @ + 1]
       ELSE LET s == [v EXCEPT !.group.subs = @ \cup {m}]
            IN ToldJoin([s EXCEPT !.roster[m] = RolesOf(s)], r)

\* The member is entered, announced, subscribed and sent the roster; a socket
\* that is gone is taken out again, but nobody is told.
Install(w, m, r) ==
    LET v == ToldJoin([w EXCEPT !.group.role[m] = r], r)
    IN IF m \notin open
       THEN [Removed(v, m) EXCEPT !.phantoms[r] = @ + 1]
       ELSE LET s == [v EXCEPT !.group.subs = @ \cup {m}]
            IN [s EXCEPT !.roster[m] = RolesOf(s)]

\* join with a hook that only decides: NoRole rejects.
Joined(w, m, r) ==
    IF w.group.closed \/ m \in Members(w) \/ Cardinality(Members(w)) >= MaxMembers \/ r = NoRole
    THEN w ELSE Install(w, m, r)

\* leave
Left(w, m) ==
    IF m \notin Members(w) THEN w
    ELSE ToldLeave(Unsubscribed(Removed(w, m), m), w.group.role[m])

\* close
Dissolved(w) ==
    IF w.group.closed THEN w
    ELSE [ToldClose(w) EXCEPT !.group.closed = TRUE, !.group.subs = {},
                              !.group.role = [m \in Member |-> NoRole]]

-----------------------------------------------------------------------------

\* join: the hook decides on a role, and may call the group before it returns, for
\* another socket.
Join(m, r) ==
    /\ ~group.closed /\ m \notin Members(World)
    /\ Cardinality(Members(World)) < MaxMembers
    /\ \/ Become(Joined(World, m, r)) /\ UNCHANGED nested
       \/ \E o \in Member \ {m} :
            /\ Become(Install(Joined(World, o, r), m, r))
            /\ nested' = nested \cup {"join"}
       \/ \E o \in Members(World) : Become(Install(Left(World, o), m, r)) /\ UNCHANGED nested
       \/ Become(Install(Dissolved(World), m, r)) /\ nested' = nested \cup {"close"}
    /\ SumFunction(phantoms') <= MaxPhantoms
    /\ UNCHANGED open

\* leave, called by the application or by the unsubscribe hook.
Leave(m) ==
    /\ m \in Members(World)
    /\ Become(Left(World, m))
    /\ UNCHANGED <<open, nested>>

\* The socket goes away: the native membership ends with it; the close hook,
\* which leaves, runs later.
Drop(m) ==
    /\ m \in open
    /\ open' = open \ {m}
    /\ group' = [group EXCEPT !.subs = @ \ {m}]
    /\ UNCHANGED <<roster, phantoms, nested>>

Reconnect(m) ==
    /\ m \notin open /\ m \notin Members(World)
    /\ open' = open \cup {m}
    /\ UNCHANGED <<group, roster, phantoms, nested>>

Close ==
    /\ ~group.closed
    /\ Become(Dissolved(World))
    /\ UNCHANGED <<open, nested>>

Next ==
    \/ \E m \in Member, r \in Role : Join(m, r)
    \/ \E m \in Member : Leave(m) \/ Drop(m) \/ Reconnect(m)
    \/ Close

Spec == Init /\ [][Next]_vars
=============================================================================
