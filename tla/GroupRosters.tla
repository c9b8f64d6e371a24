---------------------------- MODULE GroupRosters ----------------------------
(***************************************************************************)
(* What one group of the groups plugin consists of (plugins/groups/*.js):  *)
(* membership on the server, the native subscription behind it, the roster *)
(* each member's client builds from the frames it gets, and what these     *)
(* promise each other.  Group says how they change.  A check that looks at *)
(* several components extends this module and instantiates Group.          *)
(***************************************************************************)
EXTENDS Integers, FiniteSets

CONSTANTS
    Member,       \* sockets that may join
    Role,
    NoRole,
    MaxMembers,
    MaxPhantoms   \* bound on the joins announced for a socket that was gone

\* What the constants must satisfy.
GroupAssumption ==
    /\ IsFiniteSet(Member) /\ NoRole \notin Role
    /\ MaxMembers \in Nat

VARIABLES
    open,      \* sockets that are open
    group,     \* role by member, native subscribers, closed
    roster,    \* client -> how many members of each role it lists
    phantoms,  \* history: role -> joins announced for a socket that was gone
    nested     \* history: what admission hooks have called

\* The group and what its clients were told so far.
World == [group |-> group, roster |-> roster, phantoms |-> phantoms]

Members(w) == {m \in Member : w.group.role[m] # NoRole}

RolesOf(w) == [r \in Role |-> Cardinality({m \in Member : w.group.role[m] = r})]

-----------------------------------------------------------------------------

GroupTypeOK ==
    /\ group.role \in [Member -> Role \cup {NoRole}] /\ group.subs \subseteq open
    /\ roster \in [Member -> [Role -> Nat]] /\ nested \subseteq {"join", "close"}

\* Joins, leaves, hooks that call back and sockets that vanish in between: who is
\* a member is who receives the group's frames, and the roster a member's client
\* shows is the membership, plus the joins announced for a socket that was gone
\* already, of which the client is never told. The caps and the closing hold as
\* long as no admission hook joins others or closes the group itself.
RostersAgree ==
    /\ GroupTypeOK
    /\ group.subs = Members(World) \cap open
    /\ nested = {} => Cardinality(Members(World)) <= MaxMembers
    /\ group.closed /\ "close" \notin nested => Members(World) = {}
    /\ \A m \in group.subs : \A r \in Role :
          roster[m][r] - RolesOf(World)[r] \in 0..phantoms[r]
=============================================================================
