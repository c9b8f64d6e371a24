----------------------------- MODULE MCPlugins -----------------------------
(***************************************************************************)
(* The plugins that hand out turns, one at a time: `on` names the one a    *)
(* behaviour runs, and the other stays in its initial state.  They share   *)
(* no state, so one run can check both.                                    *)
(***************************************************************************)
EXTENDS Lock, QueueAccounts

CONSTANTS c1, c2, c3, c4, k1, k2, k3
VARIABLE on

Queue == INSTANCE TaskQueue

PluginsInit ==
  /\ on \in {"lock", "queue"}
  /\ Init
  /\ Queue!Init

PluginsNext ==
  \/ on = "lock" /\ Next /\ UNCHANGED <<on, queueVars>>
  \/ on = "queue" /\ Queue!Next /\ UNCHANGED <<on, vars>>

PluginsSpec ==
  /\ PluginsInit
  /\ [][PluginsNext]_<<on, vars, queueVars>>
  /\ Fairness
  /\ Queue!Fairness

\* The lock's calls are interchangeable and so are its keys: it is enough to let
\* the calls arrive in one order and to let each name a used key or the next one.
\* Arriving is under no fairness condition: progress is judged as without it.
Calls == <<c1, c2, c3, c4>>
Keys  == <<k1, k2, k3>>
ArrivalOrder ==
  /\ \A i \in 2..4 : pc'[Calls[i]] # "idle" => pc'[Calls[i - 1]] # "idle"
  /\ \A i \in 2..3 : Keys[i] \in {key'[c] : c \in Call} => Keys[i - 1] \in {key'[c] : c \in Call}

\* What the queue promises in the end, stated in TaskQueue.
TasksSettle == Queue!TasksSettle
=============================================================================
