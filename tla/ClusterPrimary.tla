---------------------------- MODULE ClusterPrimary ----------------------------
(***************************************************************************)
(* The cluster primary and its worker threads (src/runtime/index.js, with  *)
(* worker-watchdog.js and relay-spill-policy.js): health sweeps, requested *)
(* exits with their SIGKILL fallback, respawns through the restart         *)
(* supervisor, and the two-step shutdown with its backstop.                *)
(*                                                                         *)
(* While the primary serves, time is counted in heartbeat intervals; once  *)
(* it shuts down the sweeps are over and time is counted in exit graces.   *)
(***************************************************************************)
EXTENDS WorkerSlots, Sequences

CONSTANTS
  Worker,      \* worker thread identities; one is reused after its exit event
  NoSlot,
  SteadyTicks,         \* HEARTBEAT_TIMEOUT_MS
  RawBootTicks,        \* WORKER_BOOT_TIMEOUT_MS as configured, 0 = no deadline
  FloorTicks,          \* WORKER_BOOT_TIMEOUT_FLOOR_MS
  AckTicks,            \* assumed: a responsive worker is heard within so many
  RingEnabled,         \* CLUSTER_RELAY_RING_KB > 0
  RestartOnDivergence, \* RESTART_ON_STATE_DIVERGENCE = 1
  DrainDelay,          \* SHUTDOWN_DELAY_MS > 0
  Budget               \* SHUTDOWN_TIMEOUT, 0 = no budget

ASSUME PrimaryAssumption ==
  /\ NoSlot \notin Slot
  /\ Cardinality(Worker) > Cardinality(Slot)
  /\ IsFiniteSet(Worker)
  /\ {SteadyTicks, RawBootTicks, FloorTicks, AckTicks, Budget} \subseteq Nat
  /\ {RingEnabled, RestartOnDivergence, DrainDelay} \subseteq BOOLEAN

VARIABLES
  slotOf,   \* thread -> the slot it serves
  thread,   \* thread -> "off", "booting", "up" or "teardown"
  wedged,   \* threads whose event loop is blocked for good
  outbox,   \* thread -> boot messages on their way to the primary
  lost,     \* threads whose relay-attached post failed
  ready,    \* meta.ready
  attached, \* meta.relayAttached
  beatAge,  \* sweeps since meta.lastHeartbeat, or spawnedAt before the first one
  readyAge, \* sweeps since meta.readyAt, counted while not attached
  exitReq,  \* exit_requested: a terminate message and a grace timer are out
  told,     \* threads with an unhandled shutdown message
  early,    \* threads told to shut down while they booted (history)
  tearAge,  \* graces since the thread began its teardown
  backAge,  \* graces since the primary told the workers to shut down
  main,     \* "serving", "delay", "stopping" or "exited"
  forced,   \* force_shutdown ran: shutdown_exit_code = 1
  exitCode  \* how the process ended: "none", "zero", "one", "killed"

primVars == <<slotOf, thread, wedged, outbox, lost, ready, attached, beatAge, readyAge,
              exitReq, told, early, tearAge, backAge, main, forced, exitCode>>
vars     == <<supVars, primVars>>

Sup == INSTANCE RestartSupervisor

Workers == {w \in Worker : thread[w] # "off"}
Responsive(w) == w \in Workers \ wedged

\* Slip: the configured boot deadline is used as it stands.
RawBoot == RawBootTicks

\* resolveBootTimeout().
BootTicks == IF RawBootTicks # 0 /\ RawBootTicks < FloorTicks THEN FloorTicks ELSE RawBootTicks

Init ==
  /\ Sup!Init
  /\ slotOf \in [Worker -> Slot \cup {NoSlot}]
  /\ \A s \in Slot : Cardinality({w \in Worker : slotOf[w] = s}) = 1
  /\ thread = [w \in Worker |-> IF slotOf[w] = NoSlot THEN "off" ELSE "booting"]
  /\ wedged = {} /\ lost = {} /\ ready = {} /\ attached = {}
  /\ exitReq = {} /\ told = {} /\ early = {}
  /\ outbox = [w \in Worker |-> <<>>]
  /\ beatAge = [w \in Worker |-> 0] /\ readyAge = [w \in Worker |-> 0]
  /\ tearAge = [w \in Worker |-> 0] /\ backAge = 0
  /\ main = "serving" /\ forced = FALSE /\ exitCode = "none"

-----------------------------------------------------------------------------
(***************************************************************************)
(* Health: classifyWorkerHealth() and the heartbeat sweep                  *)
(***************************************************************************)
SteadyWedge(w, t) == w \in ready /\ t[w] > SteadyTicks
AttachGap(w, t)   == w \in ready \ attached /\ t[w] > SteadyTicks
BootWedge(w, t)   == w \notin ready /\ BootTicks > 0 /\ t[w] > BootTicks

\* Slip: the attach regime of the verdict is missing.
EscalateNoAttach(w, beat, rdy) == SteadyWedge(w, beat) \/ BootWedge(w, beat)

Escalate(w, beat, rdy) == SteadyWedge(w, beat) \/ AttachGap(w, rdy) \/ BootWedge(w, beat)

\* Model bound: an age past every limit is not counted further.
AgeCap == SteadyTicks + RawBootTicks + FloorTicks + 1
Older(age) == IF age < AgeCap THEN age + 1 ELSE age

\* requestWorkerExit() of each: once per worker.
RequestExit(ws) == exitReq' = exitReq \cup (ws \cap Workers)

\* The heartbeat interval fires: judge every worker, ping those that are kept,
\* reconcile the slots.  Assumed of an interval (10 s): what a worker posted has
\* arrived by its end, and a responsive worker is heard within AckTicks of them.
\* The clock of a worker already asked to exit no longer matters.
Tick ==
  LET judged == Workers \ exitReq
      beat   == [w \in Worker |-> IF w \in judged THEN Older(beatAge[w]) ELSE beatAge[w]]
      rdy    == [w \in Worker |-> IF w \in judged /\ w \in ready \ attached
                                  THEN Older(readyAge[w]) ELSE readyAge[w]]
  IN
  /\ main = "serving"
  /\ \A w \in judged : outbox[w] = <<>> /\ (Responsive(w) => beatAge[w] < AckTicks)
  /\ beatAge' = beat
  /\ readyAge' = rdy
  /\ RequestExit({w \in judged : Escalate(w, beat, rdy)})
  /\ Sup!Tick
  /\ UNCHANGED <<slotOf, thread, wedged, outbox, lost, ready, attached, told, early,
                 tearAge, backAge, main, forced, exitCode>>

-----------------------------------------------------------------------------
(***************************************************************************)
(* The worker's side                                                       *)
(***************************************************************************)
WorkerStep(w) == main # "exited" /\ Responsive(w)

\* start() resolves: `ready` is posted, the backlog replayed, the rings are
\* started and, with rings only, `relay-attached` is posted; that post sits in
\* a swallowing try/catch and may be lost.
Boot(w) ==
  /\ WorkerStep(w)
  /\ thread[w] = "booting"
  /\ thread' = [thread EXCEPT ![w] = "up"]
  /\ \/ /\ RingEnabled
        /\ outbox' = [outbox EXCEPT ![w] = <<"ready", "attached">>]
        /\ UNCHANGED lost
     \/ /\ RingEnabled
        /\ outbox' = [outbox EXCEPT ![w] = <<"ready">>]
        /\ lost' = lost \cup {w}
     \/ /\ ~RingEnabled
        /\ outbox' = [outbox EXCEPT ![w] = <<"ready">>]
        /\ UNCHANGED lost
  /\ UNCHANGED <<supVars, slotOf, wedged, ready, attached, beatAge, readyAge, exitReq,
                 told, early, tearAge, backAge, main, forced, exitCode>>

\* The event loop blocks for good: a synchronous loop, a deadlock.
Wedge(w) ==
  /\ WorkerStep(w)
  /\ wedged' = wedged \cup {w}
  /\ UNCHANGED <<supVars, slotOf, thread, outbox, lost, ready, attached, beatAge, readyAge,
                 exitReq, told, early, tearAge, backAge, main, forced, exitCode>>

\* The shutdown message, from the live dispatch or the boot backlog.
BeginTeardown(w) ==
  /\ WorkerStep(w)
  /\ w \in told
  /\ thread[w] = "up"
  /\ thread' = [thread EXCEPT ![w] = "teardown"]
  /\ told' = told \ {w}
  /\ UNCHANGED <<supVars, slotOf, wedged, outbox, lost, ready, attached, beatAge, readyAge,
                 exitReq, early, tearAge, backAge, main, forced, exitCode>>

-----------------------------------------------------------------------------
(***************************************************************************)
(* The primary's message handler: recordWorkerMessage() and what follows   *)
(***************************************************************************)

\* A heartbeat ack, a relay frame, a posture report: any message will do.
Hear(w) ==
  /\ WorkerStep(w)
  /\ main = "serving"
  /\ beatAge[w] > 0
  /\ beatAge' = [beatAge EXCEPT ![w] = 0]
  /\ UNCHANGED <<supVars, slotOf, thread, wedged, outbox, lost, ready, attached, readyAge,
                 exitReq, told, early, tearAge, backAge, main, forced, exitCode>>

Receive(w) ==
  /\ main # "exited"
  /\ w \in Workers
  /\ outbox[w] # <<>>
  /\ outbox' = [outbox EXCEPT ![w] = Tail(@)]
  /\ beatAge' = [beatAge EXCEPT ![w] = 0]
  /\ readyAge' = [readyAge EXCEPT ![w] = 0]

\* Slip: the supervisor is told at `ready`.
GotReadyTooEarly(w) ==
  /\ Receive(w) /\ Head(outbox[w]) = "ready"
  /\ ready' = ready \cup {w}
  /\ Sup!NoteReady(slotOf[w])
  /\ UNCHANGED attached

GotReady(w) ==
  /\ Receive(w) /\ Head(outbox[w]) = "ready"
  /\ ready' = ready \cup {w}
  /\ UNCHANGED <<supVars, attached>>

\* Only now is the worker up as far as its restart budget is concerned.
GotAttached(w) ==
  /\ Receive(w) /\ Head(outbox[w]) = "attached"
  /\ attached' = attached \cup {w}
  /\ Sup!NoteReady(slotOf[w])
  /\ UNCHANGED ready

Message(w) ==
  /\ GotReady(w) \/ GotAttached(w)
  /\ UNCHANGED <<slotOf, thread, wedged, lost, exitReq, told, early, tearAge, backAge, main,
                 forced, exitCode>>

\* The primary asks a worker to exit: its ring spill crossed a ceiling, or it
\* reported a relay gap or diverged and the restart gate is on.
Retire(w) ==
  /\ main # "exited"
  /\ w \in Workers \ exitReq
  /\ \/ RingEnabled /\ w \in attached
     \/ RestartOnDivergence
  /\ RequestExit({w})
  /\ UNCHANGED <<supVars, slotOf, thread, wedged, outbox, lost, ready, attached, beatAge,
                 readyAge, told, early, tearAge, backAge, main, forced, exitCode>>

-----------------------------------------------------------------------------
(***************************************************************************)
(* Exits and respawns                                                      *)
(***************************************************************************)
ExitProcess(code) == main' = "exited" /\ exitCode' = code

\* Slip: the last worker's exit always ends the process cleanly.
CleanExitCode == "zero"

\* shutdown_exit_code.
ShutdownExitCode == IF forced THEN "one" ELSE "zero"

\* The worker and everything kept for it leaves the primary's maps.
Forget(w) ==
  /\ thread'   = [thread EXCEPT ![w] = "off"]
  /\ slotOf'   = [slotOf EXCEPT ![w] = NoSlot]
  /\ outbox'   = [outbox EXCEPT ![w] = <<>>]
  /\ beatAge'  = [beatAge EXCEPT ![w] = 0]
  /\ readyAge' = [readyAge EXCEPT ![w] = 0]
  /\ tearAge'  = [tearAge EXCEPT ![w] = 0]
  /\ wedged'   = wedged \ {w}
  /\ lost'     = lost \ {w}
  /\ ready'    = ready \ {w}
  /\ attached' = attached \ {w}
  /\ exitReq'  = exitReq \ {w}
  /\ told'     = told \ {w}
  /\ early'    = early \ {w}

\* The exit handler.  While serving the slot is charged and its respawn
\* scheduled, or, past the cap, primaryHardExit() ends the process: by SIGKILL
\* while a worker is left, with code 1 otherwise.  In a shutdown the last
\* worker to go ends it.
OnExit(w) ==
  /\ Forget(w)
  /\ UNCHANGED <<backAge, forced>>
  /\ \/ /\ main = "serving"
        /\ \E stable \in BOOLEAN :
             Sup!MayBeStable(slotOf[w], stable) /\ Sup!NoteExit(slotOf[w], stable)
        /\ IF Exhausted' = {} THEN UNCHANGED <<main, exitCode>>
           ELSE ExitProcess(IF Workers = {w} THEN "one" ELSE "killed")
     \/ /\ main \in {"delay", "stopping"}
        /\ UNCHANGED supVars
        /\ IF Workers = {w} THEN ExitProcess(ShutdownExitCode)
           ELSE UNCHANGED <<main, exitCode>>

\* A worker exits: it crashes, handles the terminate message, or ends its
\* teardown, which the budget bounds when there is one.
Crash(w)      == WorkerStep(w) /\ OnExit(w)
Terminated(w) == WorkerStep(w) /\ w \in exitReq /\ OnExit(w)
TornDown(w)   == WorkerStep(w) /\ thread[w] = "teardown" /\ OnExit(w)

\* The supervisor's timer: spawn_worker() on the slot.
Respawn(s) ==
  /\ main # "exited"
  /\ Sup!TimerFires(s)
  /\ \E w \in Worker \ Workers :
       /\ thread' = [thread EXCEPT ![w] = "booting"]
       /\ slotOf' = [slotOf EXCEPT ![w] = s]
  /\ UNCHANGED <<wedged, outbox, lost, ready, attached, beatAge, readyAge, exitReq, told,
                 early, tearAge, backAge, main, forced, exitCode>>

\* The grace of a requested exit is over and the worker is still there: only a
\* wedged one is (assumed: a responsive worker exits well within it).
GraceFires(w) ==
  /\ main # "exited"
  /\ w \in exitReq \cap wedged
  /\ ExitProcess("killed")
  /\ UNCHANGED <<supVars, slotOf, thread, wedged, outbox, lost, ready, attached, beatAge,
                 readyAge, exitReq, told, early, tearAge, backAge, forced>>

-----------------------------------------------------------------------------
(***************************************************************************)
(* Shutdown                                                                *)
(***************************************************************************)

\* Step 3 of graceful_shutdown(): every worker is told, the backstop armed.
TellWorkers ==
  /\ told'  = Workers
  /\ early' = {w \in Workers : thread[w] = "booting"}
  /\ main'  = "stopping"

\* Slip: the pending respawns are not cancelled.
GracefulKeepsTimers ==
  /\ main = "serving"
  /\ stopping' = TRUE
  /\ IF DrainDelay THEN main' = "delay" /\ UNCHANGED <<told, early>> ELSE TellWorkers
  /\ UNCHANGED <<live, spawning, pending, attempts, delay, uptime, slotOf, thread, wedged,
                 outbox, lost, ready, attached, beatAge, readyAge, exitReq, tearAge,
                 backAge, forced, exitCode>>

\* The first signal: graceful_shutdown() up to its delay, past it when there
\* is none.
GracefulShutdown ==
  /\ main = "serving"
  /\ Sup!Stop
  /\ IF DrainDelay THEN main' = "delay" /\ UNCHANGED <<told, early>> ELSE TellWorkers
  /\ UNCHANGED <<slotOf, thread, wedged, outbox, lost, ready, attached, beatAge, readyAge,
                 exitReq, tearAge, backAge, forced, exitCode>>

DelayOver ==
  /\ main = "delay"
  /\ TellWorkers
  /\ UNCHANGED <<supVars, slotOf, thread, wedged, outbox, lost, ready, attached, beatAge,
                 readyAge, exitReq, tearAge, backAge, forced, exitCode>>

\* A second signal: force_shutdown().
ForceShutdown ==
  /\ main \in {"delay", "stopping"}
  /\ forced' = TRUE
  /\ Sup!StopAll
  /\ RequestExit(Workers)
  /\ IF Workers = {} THEN ExitProcess("one") ELSE UNCHANGED <<main, exitCode>>
  /\ UNCHANGED <<live, spawning, attempts, delay, uptime, stopping, slotOf, thread, wedged,
                 outbox, lost, ready, attached, beatAge, readyAge, told, early, tearAge,
                 backAge>>

\* One exit grace passes.  A responsive worker has handled its shutdown message
\* and its budget has ended its teardown; the backstop, one grace later, has
\* fired when due.
StopTick ==
  /\ main = "stopping"
  /\ Budget > 0
  /\ backAge <= Budget
  /\ \A w \in Workers : Responsive(w) =>
       /\ w \in told => thread[w] # "up"
       /\ thread[w] = "teardown" => tearAge[w] < Budget
  /\ backAge' = backAge + 1
  /\ tearAge' = [w \in Worker |-> IF thread[w] = "teardown" /\ tearAge[w] < Budget
                                  THEN tearAge[w] + 1 ELSE tearAge[w]]
  /\ UNCHANGED <<supVars, slotOf, thread, wedged, outbox, lost, ready, attached, beatAge,
                 readyAge, exitReq, told, early, main, forced, exitCode>>

\* Slip: the backstop is armed with the workers' own budget.
BackstopOnBudget ==
  /\ main = "stopping"
  /\ Budget > 0 /\ backAge >= Budget
  /\ RequestExit(Workers)
  /\ UNCHANGED <<supVars, slotOf, thread, wedged, outbox, lost, ready, attached, beatAge,
                 readyAge, told, early, tearAge, backAge, main, forced, exitCode>>

\* Slip: only the workers still running their teardown are asked.
BackstopInTeardown ==
  /\ main = "stopping"
  /\ Budget > 0 /\ backAge = Budget + 1
  /\ RequestExit({w \in Worker : thread[w] = "teardown"})
  /\ UNCHANGED <<supVars, slotOf, thread, wedged, outbox, lost, ready, attached, beatAge,
                 readyAge, told, early, tearAge, backAge, main, forced, exitCode>>

Backstop ==
  /\ main = "stopping"
  /\ Budget > 0 /\ backAge = Budget + 1
  /\ RequestExit(Workers)
  /\ UNCHANGED <<supVars, slotOf, thread, wedged, outbox, lost, ready, attached, beatAge,
                 readyAge, told, early, tearAge, backAge, main, forced, exitCode>>

\* No worker and no timer is left to hold the event loop: the process ends.
LoopDrains ==
  /\ main = "stopping"
  /\ Workers = {}
  /\ ExitProcess("zero")
  /\ UNCHANGED <<supVars, slotOf, thread, wedged, outbox, lost, ready, attached, beatAge,
                 readyAge, exitReq, told, early, tearAge, backAge, forced>>

-----------------------------------------------------------------------------
Next ==
  \/ Tick
  \/ \E w \in Worker :
       \/ Boot(w) \/ Wedge(w) \/ BeginTeardown(w) \/ Hear(w) \/ Message(w) \/ Retire(w)
       \/ Crash(w) \/ Terminated(w) \/ TornDown(w) \/ GraceFires(w)
  \/ \E s \in Slot : Respawn(s)
  \/ GracefulShutdown \/ DelayOver \/ ForceShutdown \/ StopTick \/ Backstop \/ LoopDrains

\* Timers fire, messages arrive, a responsive worker handles its messages and
\* its init settles; wedges, crashes, signals and retirements need not happen.
Fairness ==
  /\ WF_vars(Tick) /\ WF_vars(DelayOver) /\ WF_vars(StopTick) /\ WF_vars(Backstop)
  /\ WF_vars(LoopDrains)
  /\ \A s \in Slot : WF_vars(Respawn(s))
  /\ \A w \in Worker :
       /\ WF_vars(Boot(w)) /\ WF_vars(BeginTeardown(w)) /\ WF_vars(Message(w))
       /\ WF_vars(Hear(w)) /\ WF_vars(GraceFires(w)) /\ WF_vars(Terminated(w))
       /\ (Budget > 0 => WF_vars(TornDown(w)))

Spec == Init /\ [][Next]_vars
FairSpec == Spec /\ Fairness

-----------------------------------------------------------------------------
(***************************************************************************)
(* Properties                                                              *)
(***************************************************************************)

\* Types, and that everything kept for a thread goes when the thread does.
TypeOK ==
  /\ SlotTypeOK
  /\ slotOf \in [Worker -> Slot \cup {NoSlot}]
  /\ thread \in [Worker -> {"off", "booting", "up", "teardown"}]
  /\ wedged \cup lost \cup ready \cup attached \cup exitReq \cup told \cup early \subseteq Workers
  /\ outbox \in [Worker -> {<<>>, <<"ready">>, <<"attached">>, <<"ready", "attached">>}]
  /\ beatAge \in [Worker -> Nat] /\ readyAge \in [Worker -> Nat]
  /\ tearAge \in [Worker -> Nat] /\ backAge \in Nat
  /\ main \in {"serving", "delay", "stopping", "exited"}
  /\ forced \in BOOLEAN
  /\ exitCode \in {"none", "zero", "one", "killed"}

\* A forced shutdown is never reported as a clean one, whichever event
\* happens to end the process.
ForcedExitsNonzero == main = "exited" /\ forced => exitCode \in {"one", "killed"}

\* The supervisor's accounts tell the truth about the fleet: until shutdown a
\* slot counts as live or booting exactly when one worker thread serves it, as
\* live exactly when that worker attached, so no slot gets two workers and no
\* worker runs unaccounted.
FleetMatchesAccounts ==
  /\ TypeOK
  /\ ForcedExitsNonzero
  /\ main = "serving" =>
       \A s \in Slot :
         LET serving == {w \in Workers : slotOf[w] = s} IN
         /\ Cardinality(serving) = IF s \in live \cup spawning THEN 1 ELSE 0
         /\ s \in live <=> serving \cap attached # {}

\* The primary makes the supervisor's calls in the order the supervisor's
\* accounting is built on: it implements RestartSupervisor.
SupervisorSpec == Sup!Spec

\* A worker is asked to exit only for a reason.  A sweep does it to one that is
\* wedged or whose relay-attached post was lost, so that one that answers its
\* heartbeats, however slowly it boots, is never driven into a restart; the
\* backstop of a shutdown does it to none that was up when it was told to shut
\* down and is inside its own budget.
HealthyNeverKilled ==
  [][LET asked == exitReq' \ exitReq IN
       /\ Tick => asked \subseteq wedged \cup lost
       /\ Backstop => asked \subseteq wedged \cup early]_vars

\* A faulty worker is never left in service: one whose event loop is blocked,
\* in boot (with a boot deadline) as after it, ends the process or meets a
\* shutdown; one that serves without its relay reader is replaced.
FaultsResolved ==
  \A w \in Worker :
    /\ w \in wedged ~> main # "serving"
    /\ w \in lost ~> (w \notin lost \/ main # "serving")

\* With a budget, a shutdown that has begun ends, however many workers wedge,
\* crash or are still booting.
ShutdownEnds == main \in {"delay", "stopping"} ~> main = "exited"
=============================================================================
