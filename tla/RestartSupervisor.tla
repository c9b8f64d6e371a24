--------------------------- MODULE RestartSupervisor ---------------------------
(***************************************************************************)
(* The per-slot crash-restart supervisor of the cluster primary            *)
(* (src/runtime/restart-supervisor.js): which account each worker slot is  *)
(* in, its attempt budget, its backoff and its pending respawn.            *)
(*                                                                         *)
(* The operations say what the calls do; Next says when the primary makes  *)
(* them, which ClusterPrimary shows to be so.  Time is counted in sweeps   *)
(* of the primary's heartbeat interval.                                    *)
(***************************************************************************)
EXTENDS WorkerSlots

\* The slots nothing is going to serve: what reconcile() backfills.
Stranded == Slot \ (live \cup spawning \cup pending \cup Exhausted)

Double(d) == IF d = 0 THEN DelayBase ELSE IF 2 * d < DelayMax THEN 2 * d ELSE DelayMax

\* noteExit() compares the uptime in milliseconds, so at StableTicks sweeps
\* the comparison may go either way.
MayBeStable(s, stable) ==
  /\ stable => s \in live /\ uptime[s] >= StableTicks
  /\ ~stable => s \notin live \/ uptime[s] <= StableTicks

-----------------------------------------------------------------------------
(***************************************************************************)
(* The operations                                                          *)
(***************************************************************************)
NoteSpawn(s) ==
  /\ pending'  = pending \ {s}
  /\ live'     = live \ {s}
  /\ spawning' = spawning \cup {s}
  /\ uptime'   = [uptime EXCEPT ![s] = 0]
  /\ UNCHANGED <<attempts, delay, stopping>>

\* Slip: readiness clears every slot's timer.
NoteReadyClearsAll(s) ==
  /\ pending'  = {}
  /\ live'     = live \cup {s}
  /\ spawning' = spawning \ {s}
  /\ uptime'   = [uptime EXCEPT ![s] = 0]
  /\ UNCHANGED <<attempts, delay, stopping>>

\* Slip: readiness resets the budget.
NoteReadyResets(s) ==
  /\ pending'  = pending \ {s}
  /\ live'     = live \cup {s}
  /\ spawning' = spawning \ {s}
  /\ uptime'   = [uptime EXCEPT ![s] = 0]
  /\ attempts' = [attempts EXCEPT ![s] = 0]
  /\ delay'    = [delay EXCEPT ![s] = 0]
  /\ UNCHANGED stopping

NoteReady(s) ==
  /\ pending'  = pending \ {s}
  /\ live'     = live \cup {s}
  /\ spawning' = spawning \ {s}
  /\ uptime'   = [uptime EXCEPT ![s] = 0]
  /\ UNCHANGED <<attempts, delay, stopping>>

\* One attempt is charged; past the cap onExhausted() is called instead of
\* a respawn being scheduled.
Charge(s, stable) ==
  LET n == (IF stable THEN 0 ELSE attempts[s]) + 1 IN
  /\ attempts' = [attempts EXCEPT ![s] = n]
  /\ IF n > MaxAttempts
     THEN /\ delay' = [delay EXCEPT ![s] = IF stable THEN 0 ELSE @]
          /\ UNCHANGED pending
     ELSE /\ delay'   = [delay EXCEPT ![s] = Double(IF stable THEN 0 ELSE @)]
          /\ pending' = pending \cup {s}

NoteExit(s, stable) ==
  /\ live'     = live \ {s}
  /\ spawning' = spawning \ {s}
  /\ uptime'   = [uptime EXCEPT ![s] = 0]
  /\ IF stopping THEN UNCHANGED <<attempts, delay, pending>> ELSE Charge(s, stable)
  /\ UNCHANGED stopping

StopAll == pending' = {}

\* The heartbeat interval: time passes and reconcile() runs.
Sweep ==
  /\ uptime'  = [s \in Slot |-> IF s \in live /\ uptime[s] <= StableTicks
                                THEN uptime[s] + 1 ELSE uptime[s]]
  /\ pending' = pending \cup Stranded
  /\ UNCHANGED <<live, spawning, attempts, delay, stopping>>

-----------------------------------------------------------------------------
(***************************************************************************)
(* When the primary makes the calls                                        *)
(***************************************************************************)

\* After register() and the first spawn of every slot.
Init ==
  /\ live     = {}
  /\ spawning = Slot
  /\ pending  = {}
  /\ attempts = [s \in Slot |-> 0]
  /\ delay    = [s \in Slot |-> 0]
  /\ uptime   = [s \in Slot |-> 0]
  /\ stopping = FALSE

Ready(s) == s \in spawning /\ NoteReady(s)

Exit(s) ==
  /\ s \in live \cup spawning
  /\ \E stable \in BOOLEAN : MayBeStable(s, stable) /\ NoteExit(s, stable)

\* The respawn timer fires; stopAll() has cancelled it once shutdown began.
TimerFires(s) == s \in pending /\ ~stopping /\ NoteSpawn(s)

Tick == ~stopping /\ Sweep

Stop ==
  /\ ~stopping
  /\ stopping' = TRUE
  /\ StopAll
  /\ UNCHANGED <<live, spawning, attempts, delay, uptime>>

Next ==
  \/ \E s \in Slot : Ready(s) \/ Exit(s) \/ TimerFires(s)
  \/ Tick
  \/ Stop

Spec == Init /\ [][Next]_supVars

-----------------------------------------------------------------------------
(***************************************************************************)
(* Properties                                                              *)
(***************************************************************************)

\* A slot that keeps exiting and is never up for stableMs again spends its
\* budget: it cannot flap forever behind brief spells of being ready.
FlapperExhausts ==
  \A s \in Slot :
    (/\ <>[](uptime[s] < StableTicks)
     /\ []<>(s \in live \cup spawning)
     /\ []<>(s \in pending)) => <>(s \in Exhausted)
=============================================================================
