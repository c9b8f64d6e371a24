------------------------------ MODULE WorkerSlots ------------------------------
(***************************************************************************)
(* What the cluster primary knows of its worker slots (the per-slot state  *)
(* of src/runtime/restart-supervisor.js) and what it owes them.            *)
(* RestartSupervisor has the calls that change it; ClusterPrimary has the  *)
(* threads it is an account of.                                            *)
(***************************************************************************)
EXTENDS Naturals, FiniteSets

CONSTANTS
  Slot,        \* the fixed worker slots, role#index
  MaxAttempts, \* maxAttempts
  DelayBase,   \* delayBase
  DelayMax,    \* delayMax
  StableTicks  \* stableMs, in sweeps

ASSUME SupervisorAssumption ==
  /\ IsFiniteSet(Slot)
  /\ MaxAttempts \in Nat
  /\ DelayBase \in Nat \ {0}
  /\ DelayMax \in Nat /\ DelayBase <= DelayMax
  /\ StableTicks \in Nat \ {0}

VARIABLES
  live,      \* slots whose worker confirmed alive (readyAt is set exactly then)
  spawning,  \* slots whose worker boots
  pending,   \* slots with a respawn timer
  attempts,  \* slot -> restarts charged against its budget
  delay,     \* slot -> its backoff
  uptime,    \* live slot -> sweeps since noteReady, counted up to StableTicks + 1
  stopping   \* shuttingDown()

supVars == <<live, spawning, pending, attempts, delay, uptime, stopping>>

\* The slots that have spent their budget.
Exhausted == {s \in Slot : attempts[s] > MaxAttempts}

-----------------------------------------------------------------------------
\* Types; the attempt budget and the backoff stay inside their limits.
SlotTypeOK ==
  /\ live     \in SUBSET Slot
  /\ spawning \in SUBSET Slot
  /\ pending  \in SUBSET Slot
  /\ attempts \in [Slot -> 0..MaxAttempts + 1]
  /\ delay    \in [Slot -> 0..DelayMax]
  /\ uptime   \in [Slot -> 0..StableTicks + 1]
  /\ stopping \in BOOLEAN

\* restart-supervisor.js:75-80: until shutdown every slot is in exactly one of
\* the four accounts, so no slot is dropped (and reconcile() is never needed)
\* and none is served twice, whatever the other slots do.
SlotAccounting ==
  ~stopping => \A s \in Slot :
    /\ s \in live \cup spawning \cup pending \cup Exhausted
    /\ s \in live     => s \notin spawning \cup pending \cup Exhausted
    /\ s \in spawning => s \notin pending \cup Exhausted
    /\ s \in pending  => s \notin Exhausted
================================================================================
