----------------------------- MODULE MCThreads -----------------------------
(***************************************************************************)
(* What keeps the threads of a cluster running and talking, one part at a  *)
(* time: the respawns of crashed workers, the life of one worker and the   *)
(* ring between two.  `on` names the part a behaviour runs; the others     *)
(* stay in their initial states.  They share no state, so one run can      *)
(* check them all.                                                         *)
(***************************************************************************)
EXTENDS RestartSupervisor, RingState, ThreadExit

VARIABLE on

Life == INSTANCE Lifecycle
Ring == INSTANCE RelayRing

ASSUME RingAssumption

lifeVars == <<role, bounded, boot, life, phase, latched, stopSignalled, sdReady, stage,
              expired, listener, wire, received, running, notified, ws, sweeping, drained,
              cleaned, cut, condemned, asked, way>>
ringVars == <<cell, writePos, readPos, sizes, spill, age, snapshot, rest, pushed, wpc,
              wwait, wclosed, overflow, rload, acc, delivered, rpc, rwait>>

ThreadsInit ==
  /\ on \in {"respawns", "life", "ring"}
  /\ Init
  /\ Life!Init /\ (on # "life" => role = "main" /\ bounded)
  /\ Ring!Init

ThreadsNext ==
  \/ on = "respawns" /\ Next /\ UNCHANGED <<on, lifeVars, ringVars>>
  \/ on = "life" /\ Life!Next /\ UNCHANGED <<on, supVars, ringVars>>
  \/ on = "ring" /\ Ring!Next /\ UNCHANGED <<on, supVars, lifeVars>>

ThreadsSpec ==
  /\ ThreadsInit
  /\ [][ThreadsNext]_<<on, supVars, lifeVars, ringVars>>
  /\ Life!Fairness
  /\ on = "ring" => Ring!Fairness

SizesWithOversized == {2, 5, 6}

\* What the parts promise, stated in their modules.
BoundedStopEnds       == Life!BoundedStopEnds
StreamSpec            == Ring!StreamSpec
StalledPeerIsReported == Ring!StalledPeerIsReported
=============================================================================
