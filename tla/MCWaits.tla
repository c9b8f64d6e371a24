------------------------------ MODULE MCWaits ------------------------------
(***************************************************************************)
(* Parts in which somebody waits for something, one at a time: the bounded *)
(* gates of a worker, for WebSocket upgrades and for the frames of live    *)
(* connections, and the two sides of a CRDT document.  `on` names the part *)
(* a behaviour runs; the others stay in their initial state.  They share   *)
(* no state, so one run can check them all.                                *)
(***************************************************************************)
EXTENDS MessageGate, UpgradeGate

CONSTANTS u1, u2, u3, u4, c1, c2, c3, f1, f2, f3, f4
CONSTANTS Holder, Flusher, MaxEdits, SnapshotEvery, BufferCap
VARIABLES on,
          rec, calls, holder, flush, stored, edits, gone, waivers,
          mine, others, server, chan, up, down, asked

Upgrades  == INSTANCE UpgradeAdmission
Messages  == INSTANCE MessageAdmission
Authority == INSTANCE CrdtAuthority
Channel   == INSTANCE CrdtChannel

upgradeVars   == <<gate, stage, destroyed, ring, spent, scheduled>>
messageVars   == <<frame, active, counts, waiting>>
authorityVars == <<rec, calls, holder, flush, stored, edits, gone, waivers>>
channelVars   == <<mine, others, server, chan, up, down, asked>>

WaitsInit ==
  /\ on \in {"upgrades", "messages", "authority", "channel"}
  /\ Upgrades!Init
  /\ Messages!Init
  /\ Authority!Init
  /\ Channel!Init

WaitsNext ==
  /\ UNCHANGED on
  /\ \/ on = "upgrades"  /\ Upgrades!Next  /\ UNCHANGED <<messageVars, authorityVars, channelVars>>
     \/ on = "messages"  /\ Messages!Next  /\ UNCHANGED <<upgradeVars, authorityVars, channelVars>>
     \/ on = "authority" /\ Authority!Next /\ UNCHANGED <<upgradeVars, messageVars, channelVars>>
     \/ on = "channel"   /\ Channel!Next   /\ UNCHANGED <<upgradeVars, messageVars, authorityVars>>

WaitsSpec ==
  /\ WaitsInit
  /\ [][WaitsNext]_<<on, upgradeVars, messageVars, authorityVars, channelVars>>
  /\ Upgrades!Fairness
  /\ Messages!Fairness
  /\ Authority!Fairness
  /\ Channel!Fairness

\* The attempts are interchangeable, and so are the frames and the connections:
\* it is enough to let them come up in one order.  None owes it to come up, so
\* progress is judged as without the order.
Upgrade == <<u1, u2, u3, u4>>
Frame   == <<f1, f2, f3, f4>>
Conn    == <<c1, c2, c3>>
Heard   == {frame'[f].conn : f \in Frames} \cup {c \in Conns : counts'[c].closed}
ArrivalOrder ==
  /\ \A i \in 2..4 : stage'[Upgrade[i]] # "new" => stage'[Upgrade[i - 1]] # "new"
  /\ \A i \in 2..4 : frame'[Frame[i]].is # "unsent" => frame'[Frame[i - 1]].is # "unsent"
  /\ \A i \in 2..3 : Conn[i] \in Heard => Conn[i - 1] \in Heard

\* What the parts promise, stated in their modules.
UpgradesSettle    == Upgrades!UpgradesSettle
WaitersSettle     == Messages!WaitersSettle
EditsSettle       == Authority!EditsSettle
Converges         == Channel!Converges
=============================================================================
