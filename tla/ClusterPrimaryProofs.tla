------------------------- MODULE ClusterPrimaryProofs -------------------------
(***************************************************************************)
(* Proofs about ClusterPrimary, for every set of workers and slots and     *)
(* every timeout: the primary implements the restart supervisor, whose     *)
(* accounts match the fleet until a shutdown; no worker is asked to exit   *)
(* without a reason.                                                       *)
(*                                                                         *)
(* The refinement and the invariant are one argument: that noteReady() is  *)
(* called for a booting slot only and noteExit() for a served one is what  *)
(* the correspondence between threads and slots says (FleetInv), and this  *)
(* correspondence is kept because the supervisor's accounts are exclusive. *)
(*                                                                         *)
(* And about Lifecycle: a thread that is told to stop does so in order,    *)
(* with any number of requests and sockets (ExitInv).                      *)
(***************************************************************************)
EXTENDS ClusterPrimary, ThreadExit, FiniteSetTheorems, TLAPS

Life == INSTANCE Lifecycle

\* The process's phase decides what the supervisor may still do.
PhaseInv ==
  /\ main = "serving" => ~stopping /\ ~forced
  /\ main \in {"delay", "stopping"} => stopping /\ pending = {}
  /\ forced /\ main # "exited" => Workers # {}
  /\ ForcedExitsNonzero

\* A thread serves a slot exactly while it runs, and posts "attached" once.
ThreadInv ==
  \A w \in Worker :
    /\ thread[w] = "off" <=> slotOf[w] = NoSlot
    /\ thread[w] \in {"off", "booting"} =>
         outbox[w] = <<>> /\ w \notin ready \cup attached \cup lost
    /\ outbox[w] \in {<<"attached">>, <<"ready", "attached">>} => w \notin attached

\* Threads and slots correspond.
FleetInv ==
  main # "exited" =>
    /\ \A w \in Workers : slotOf[w] \in live \cup spawning
    /\ \A v, w \in Workers : slotOf[v] = slotOf[w] => v = w
    /\ \A w \in Workers : w \in attached <=> slotOf[w] \in live
    /\ main = "serving" => \A s \in live \cup spawning : \E w \in Workers : slotOf[w] = s

SupInv == SlotTypeOK /\ SlotAccounting

\* The inductive invariant of the accounts.
IInv == TypeOK /\ SlotAccounting /\ PhaseInv /\ ThreadInv /\ FleetInv

-----------------------------------------------------------------------------
(***************************************************************************)
(* The supervisor's accounts.  SlotTypeOK and SlotAccounting are inductive *)
(* together: the cap on attempts holds because an exhausted slot has no    *)
(* worker left to exit, and that is accounting.                            *)
(***************************************************************************)

\* The assumptions on the constants, expanded.
LEMMA SupervisorConstants ==
  /\ IsFiniteSet(Slot) /\ NoSlot \notin Slot
  /\ MaxAttempts \in Nat
  /\ DelayBase \in Nat \ {0}
  /\ DelayMax \in Nat /\ DelayBase <= DelayMax
  /\ StableTicks \in Nat \ {0}
  BY PrimaryAssumption, SupervisorAssumption DEF PrimaryAssumption, SupervisorAssumption

\* Registering and spawning every slot establishes the accounts.
LEMMA SupInit == Sup!Init => SupInv
<1> SUFFICES ASSUME Sup!Init
             PROVE  SupInv
  OBVIOUS
<1>1. 0 \in 0..MaxAttempts + 1 /\ 0 \in 0..DelayMax /\ 0 \in 0..StableTicks + 1
  BY SupervisorConstants
<1>2. /\ attempts \in [Slot -> 0..MaxAttempts + 1]
      /\ delay \in [Slot -> 0..DelayMax]
      /\ uptime \in [Slot -> 0..StableTicks + 1]
  BY <1>1 DEF Sup!Init
<1>3. Exhausted = {}
  BY SupervisorConstants DEF Sup!Init, Exhausted
<1> QED BY <1>2, <1>3 DEF Sup!Init, SupInv, SlotTypeOK, SlotAccounting


\* noteExit() leaves the slot with a timer or exhausted.
LEMMA SupExit ==
  ASSUME SupInv, NEW s \in Slot, Sup!Exit(s)
  PROVE  SupInv'
<1> PICK stable \in BOOLEAN : Sup!MayBeStable(s, stable) /\ Sup!NoteExit(s, stable)
  BY DEF Sup!Exit
<1> DEFINE n == (IF stable THEN 0 ELSE attempts[s]) + 1
<1>t. /\ SlotTypeOK /\ SlotAccounting /\ s \in live \cup spawning
      /\ attempts \in [Slot -> 0..MaxAttempts + 1]
      /\ delay \in [Slot -> 0..DelayMax]
  BY DEF SupInv, Sup!Exit, SlotTypeOK
<1>e. /\ live' = live \ {s} /\ spawning' = spawning \ {s}
      /\ uptime' = [uptime EXCEPT ![s] = 0] /\ UNCHANGED stopping
  BY DEF Sup!NoteExit
<1>1. CASE stopping
  <2>1. UNCHANGED <<attempts, delay, pending>>
    BY <1>1 DEF Sup!NoteExit
  <2> QED
    BY <1>t, <1>e, <1>1, <2>1, SupervisorConstants DEF SupInv, SlotTypeOK, SlotAccounting
<1>2. CASE ~stopping
  <2>1. Sup!Charge(s, stable)
    BY <1>2 DEF Sup!NoteExit
  <2>2. attempts[s] <= MaxAttempts /\ s \notin Exhausted
    BY <1>t, <1>2, SupervisorConstants DEF SlotAccounting, Exhausted
  <2>3. n \in 1..MaxAttempts + 1
    BY <1>t, <2>2, SupervisorConstants
  <2>4. attempts' = [attempts EXCEPT ![s] = n]
    BY <2>1 DEF Sup!Charge
  <2>5. Exhausted' = IF n > MaxAttempts THEN Exhausted \cup {s} ELSE Exhausted
    BY <1>t, <2>2, <2>3, <2>4, SupervisorConstants DEF Exhausted
  <2>6. pending' = IF n > MaxAttempts THEN pending ELSE pending \cup {s}
    BY <2>1 DEF Sup!Charge
  <2>7. delay' \in [Slot -> 0..DelayMax]
    <3> DEFINE d == IF stable THEN 0 ELSE delay[s]
    <3>1. d \in 0..DelayMax
      BY <1>t, SupervisorConstants
    <3>2. Sup!Double(d) \in 0..DelayMax
      BY <3>1, SupervisorConstants DEF Sup!Double
    <3>3. delay' = [delay EXCEPT ![s] = d] \/ delay' = [delay EXCEPT ![s] = Sup!Double(d)]
      BY <2>1 DEF Sup!Charge
    <3> QED BY <1>t, <3>1, <3>2, <3>3
  <2>8. SlotTypeOK'
    <3>1. attempts' \in [Slot -> 0..MaxAttempts + 1]
      BY <1>t, <2>3, <2>4, SupervisorConstants
    <3>2. uptime' \in [Slot -> 0..StableTicks + 1]
      BY <1>t, <1>e, SupervisorConstants DEF SlotTypeOK
    <3> QED BY <1>t, <1>e, <2>6, <2>7, <3>1, <3>2 DEF SlotTypeOK
  <2>9. SlotAccounting'
    BY <1>t, <1>e, <1>2, <2>2, <2>5, <2>6 DEF SlotAccounting
  <2> QED BY <2>8, <2>9 DEF SupInv
<1> QED BY <1>1, <1>2

\* Every step of the supervisor keeps its accounts.
LEMMA SupStep ==
  ASSUME SupInv, [Sup!Next]_supVars
  PROVE  SupInv'
<1>1. ASSUME NEW s \in Slot, Sup!Ready(s) PROVE SupInv'
  <2>1. SlotTypeOK'
    BY <1>1, SupervisorConstants DEF SupInv, Sup!Ready, Sup!NoteReady, SlotTypeOK
  <2>2. SlotAccounting'
    BY <1>1 DEF SupInv, Sup!Ready, Sup!NoteReady, SlotTypeOK, SlotAccounting, Exhausted
  <2> QED BY <2>1, <2>2 DEF SupInv
<1>2. ASSUME NEW s \in Slot, Sup!TimerFires(s) PROVE SupInv'
  <2>1. SlotTypeOK'
    BY <1>2, SupervisorConstants DEF SupInv, Sup!TimerFires, Sup!NoteSpawn, SlotTypeOK
  <2>2. SlotAccounting'
    BY <1>2 DEF SupInv, Sup!TimerFires, Sup!NoteSpawn, SlotTypeOK, SlotAccounting, Exhausted
  <2> QED BY <2>1, <2>2 DEF SupInv
<1>3. CASE Sup!Tick
  <2>1. Sup!Stranded = {}
    BY <1>3 DEF SupInv, Sup!Tick, SlotAccounting, Sup!Stranded, Sup!Exhausted, Exhausted
  <2>2. SlotTypeOK'
    BY <1>3, <2>1, SupervisorConstants DEF SupInv, Sup!Tick, Sup!Sweep, SlotTypeOK
  <2>3. SlotAccounting'
    BY <1>3, <2>1 DEF SupInv, Sup!Tick, Sup!Sweep, SlotAccounting, Exhausted
  <2> QED BY <2>2, <2>3 DEF SupInv
<1>4. CASE Sup!Stop
  BY <1>4 DEF SupInv, Sup!Stop, Sup!StopAll, SlotTypeOK, SlotAccounting
<1>5. CASE UNCHANGED supVars
  BY <1>5 DEF SupInv, SlotTypeOK, SlotAccounting, Exhausted, supVars
<1> QED BY <1>1, <1>2, <1>3, <1>4, <1>5, SupExit DEF Sup!Next

\* The attempts never pass the cap by more than the one that exhausts the
\* slot, and the backoff stays within delayMax.
THEOREM TypeCorrect == Sup!Spec => []SlotTypeOK
<1>1. SupInv => SlotTypeOK
  BY DEF SupInv
<1> QED BY SupInit, SupStep, <1>1, PTL DEF Sup!Spec, Sup!supVars, supVars

\* Until shutdown every slot is live, booting, pending or exhausted, and only
\* one of these: the capacity of the cluster is never lost to bookkeeping.
THEOREM AccountsExact == Sup!Spec => []SlotAccounting
<1>1. SupInv => SlotAccounting
  BY DEF SupInv
<1> QED BY SupInit, SupStep, <1>1, PTL DEF Sup!Spec, Sup!supVars, supVars

\* reconcile() has never anything to backfill (its comment: "A correct event
\* sequence never needs this").
THEOREM ReconcileNeverNeeded == Sup!Spec => [](~stopping => Sup!Stranded = {})
<1>1. SupInv => (~stopping => Sup!Stranded = {})
  BY DEF SupInv, SlotAccounting, Sup!Stranded, Sup!Exhausted, Exhausted
<1> QED BY SupInit, SupStep, <1>1, PTL DEF Sup!Spec, Sup!supVars, supVars

-----------------------------------------------------------------------------
(***************************************************************************)
(* One lemma per kind of step: what it is to the supervisor, and that it   *)
(* keeps the invariant                                                     *)
(***************************************************************************)

\* The first workers serve one slot each.
LEMMA InitInv == Init => IInv
<1> SUFFICES ASSUME Init
             PROVE  IInv
  OBVIOUS
<1>1. SupInv
  BY SupInit DEF Init
<1>2. TypeOK
  BY <1>1 DEF Init, TypeOK, SupInv
<1>3. PhaseInv
  BY DEF Init, Sup!Init, PhaseInv, ForcedExitsNonzero
<1>4. ThreadInv
  BY SupervisorConstants DEF Init, ThreadInv
<1>5. FleetInv
  <2>1. \A s \in Slot : \E w \in Worker : {v \in Worker : slotOf[v] = s} = {w}
    <3> TAKE s \in Slot
    <3> DEFINE serving == {v \in Worker : slotOf[v] = s}
    <3>1. IsFiniteSet(serving)
      BY PrimaryAssumption, FS_Subset, serving \subseteq Worker DEF PrimaryAssumption
    <3>2. Cardinality(serving) = 1
      BY DEF Init
    <3>3. \E w : serving = {w}
      BY <3>1, <3>2, FS_Singleton
    <3> QED BY <3>3
  <2>2. \A w \in Workers : slotOf[w] \in Slot
    BY DEF Init, Workers
  <2> QED BY <2>1, <2>2, SupervisorConstants DEF Init, Sup!Init, FleetInv, Workers
<1> QED BY <1>1, <1>2, <1>3, <1>4, <1>5 DEF IInv, SupInv

\* What leaves the fleet, its messages and the phase alone keeps the invariant.
LEMMA QuietInv ==
  ASSUME IInv, TypeOK',
         UNCHANGED <<supVars, slotOf, thread, outbox, lost, ready, attached, main, forced,
                     exitCode>>
  PROVE  IInv'
<1>1. Workers' = Workers
  BY DEF Workers
<1>2. SupInv'
  BY SupStep DEF IInv, TypeOK, SupInv
<1>3. PhaseInv'
  BY <1>1 DEF IInv, PhaseInv, ForcedExitsNonzero, supVars
<1>4. ThreadInv'
  BY <1>1 DEF IInv, ThreadInv
<1>5. FleetInv'
  BY <1>1 DEF IInv, FleetInv, supVars
<1> QED BY <1>2, <1>3, <1>4, <1>5 DEF IInv, SupInv

\* The heartbeat interval is the supervisor's sweep.
LEMMA TickStep ==
  ASSUME IInv, Tick
  PROVE  [Sup!Next]_supVars /\ IInv'
<1>1. Sup!Next /\ Workers' = Workers
  BY DEF Tick, Sup!Next, Workers
<1>2. SupInv'
  BY <1>1, SupStep DEF IInv, TypeOK, SupInv
<1>3. UNCHANGED <<live, spawning, stopping>>
  BY DEF Tick, Sup!Tick, Sup!Sweep
<1>4. TypeOK'
  <2>1. \A a \in Nat : Older(a) \in Nat
    BY DEF Older
  <2>2. beatAge' \in [Worker -> Nat] /\ readyAge' \in [Worker -> Nat]
    BY <2>1 DEF Tick, IInv, TypeOK
  <2>3. exitReq' \subseteq Workers
    BY DEF Tick, RequestExit, IInv, TypeOK
  <2> QED BY <1>1, <1>2, <2>2, <2>3 DEF Tick, IInv, TypeOK, SupInv
<1>5. PhaseInv'
  BY <1>1, <1>3 DEF Tick, IInv, PhaseInv, ForcedExitsNonzero
<1>6. ThreadInv'
  BY <1>1 DEF Tick, IInv, ThreadInv
<1>7. FleetInv'
  BY <1>1, <1>3 DEF Tick, IInv, FleetInv
<1> QED BY <1>1, <1>2, <1>4, <1>5, <1>6, <1>7 DEF IInv, SupInv

\* Messages, faults and requests that stay in the worker's own thread.
LEMMA ThreadStep ==
  ASSUME IInv, NEW w \in Worker,
         Boot(w) \/ Wedge(w) \/ BeginTeardown(w) \/ Hear(w) \/ Retire(w)
  PROVE  UNCHANGED supVars /\ IInv'
<1>s. UNCHANGED supVars
  BY DEF Boot, Wedge, BeginTeardown, Hear, Retire
<1>u. SupInv'
  BY <1>s, SupStep DEF IInv, TypeOK, SupInv
<1>1. CASE Boot(w)
  <2>1. main # "exited" /\ thread[w] = "booting" /\ w \in Workers
    BY <1>1 DEF Boot, WorkerStep, Responsive
  <2>2. thread' = [thread EXCEPT ![w] = "up"]
    BY <1>1 DEF Boot
  <2>3. Workers' = Workers
    BY <2>1, <2>2 DEF Workers, IInv, TypeOK
  <2>4. /\ \/ outbox' = [outbox EXCEPT ![w] = <<"ready", "attached">>]
           \/ outbox' = [outbox EXCEPT ![w] = <<"ready">>]
        /\ lost' = lost \/ lost' = lost \cup {w}
    BY <1>1 DEF Boot
  <2>5. UNCHANGED <<slotOf, wedged, ready, attached, beatAge, readyAge, exitReq, told, early,
                    tearAge, backAge, main, forced, exitCode>>
    BY <1>1 DEF Boot
  <2>6. TypeOK'
    <3>1. /\ outbox' \in [Worker -> {<<>>, <<"ready">>, <<"attached">>, <<"ready", "attached">>}]
          /\ thread' \in [Worker -> {"off", "booting", "up", "teardown"}]
      BY <2>2, <2>4 DEF IInv, TypeOK
    <3>2. wedged \cup lost \cup ready \cup attached \cup exitReq \cup told \cup early \cup {w}
             \subseteq Workers
      BY <2>1 DEF IInv, TypeOK
    <3> QED BY <1>u, <2>3, <2>4, <2>5, <3>1, <3>2 DEF IInv, TypeOK, SupInv
  <2>7. PhaseInv'
    BY <1>s, <2>3, <2>5 DEF IInv, PhaseInv, ForcedExitsNonzero, supVars
  <2>8. ThreadInv'
    BY <2>1, <2>2, <2>4, <2>5 DEF IInv, TypeOK, ThreadInv
  <2>9. FleetInv'
    BY <1>s, <2>3, <2>5 DEF IInv, FleetInv, supVars
  <2> QED BY <1>s, <1>u, <2>6, <2>7, <2>8, <2>9 DEF IInv, SupInv
<1>2. CASE Wedge(w) \/ Hear(w) \/ Retire(w)
  <2>1. Workers' = Workers
    BY <1>2 DEF Wedge, Hear, Retire, Workers
  <2>2. TypeOK'
    BY SMTT(30), <1>2, <1>u, <2>1
    DEF Wedge, Hear, Retire, RequestExit, WorkerStep, Responsive, IInv, TypeOK, SupInv
  <2> QED BY <1>2, <2>2, QuietInv DEF Wedge, Hear, Retire
<1>3. CASE BeginTeardown(w)
  <2>1. thread[w] = "up" /\ thread' = [thread EXCEPT ![w] = "teardown"]
    BY <1>3 DEF BeginTeardown
  <2>2. Workers' = Workers
    BY <2>1 DEF Workers, IInv, TypeOK
  <2>3. TypeOK'
    BY <1>3, <1>u, <2>1, <2>2 DEF BeginTeardown, IInv, TypeOK, SupInv
  <2>4. PhaseInv' /\ FleetInv'
    BY <1>3, <1>s, <2>2 DEF BeginTeardown, IInv, PhaseInv, ForcedExitsNonzero, FleetInv, supVars
  <2>5. ThreadInv'
    BY <1>3, <2>1 DEF BeginTeardown, IInv, TypeOK, ThreadInv
  <2> QED BY <1>s, <1>u, <2>3, <2>4, <2>5 DEF IInv, SupInv
<1> QED BY <1>s, <1>1, <1>2, <1>3

\* `ready` and `relay-attached`: noteReady() is called for a booting slot.
LEMMA MessageStep ==
  ASSUME IInv, NEW w \in Worker, Message(w)
  PROVE  [Sup!Next]_supVars /\ IInv'
<1>1. /\ main # "exited" /\ w \in Workers /\ outbox[w] # <<>>
      /\ outbox' = [outbox EXCEPT ![w] = Tail(outbox[w])]
      /\ beatAge' = [beatAge EXCEPT ![w] = 0] /\ readyAge' = [readyAge EXCEPT ![w] = 0]
  BY DEF Message, GotReady, GotAttached, Receive
<1>2. UNCHANGED <<slotOf, thread, wedged, lost, exitReq, told, early, tearAge, backAge, main,
                  forced, exitCode>>
  BY DEF Message
<1>3. Workers' = Workers
  BY <1>2 DEF Workers
<1>4. \/ outbox[w] = <<"ready">> /\ Head(outbox[w]) = "ready" /\ Tail(outbox[w]) = <<>>
      \/ outbox[w] = <<"attached">> /\ Head(outbox[w]) = "attached" /\ Tail(outbox[w]) = <<>>
      \/ /\ outbox[w] = <<"ready", "attached">> /\ Head(outbox[w]) = "ready"
         /\ Tail(outbox[w]) = <<"attached">>
  <2>1. outbox[w] \in {<<>>, <<"ready">>, <<"attached">>, <<"ready", "attached">>}
    BY DEF IInv, TypeOK
  <2>2. /\ Head(<<"ready">>) = "ready" /\ Tail(<<"ready">>) = <<>>
        /\ Head(<<"attached">>) = "attached" /\ Tail(<<"attached">>) = <<>>
        /\ Head(<<"ready", "attached">>) = "ready"
        /\ Tail(<<"ready", "attached">>) = <<"attached">>
    OBVIOUS
  <2> QED BY <1>1, <2>1, <2>2, Zenon
<1>5. thread[w] \notin {"off", "booting"}
  BY <1>1 DEF IInv, ThreadInv
<1>6. slotOf[w] \in Slot /\ slotOf[w] \in live \cup spawning
  BY <1>1 DEF IInv, FleetInv, TypeOK, SlotTypeOK
<1>7. CASE GotReady(w)
  <2>1. UNCHANGED supVars /\ attached' = attached /\ ready' = ready \cup {w}
    BY <1>7 DEF GotReady
  <2>2. SupInv'
    BY <2>1, SupStep DEF IInv, TypeOK, SupInv
  <2>3. TypeOK'
    BY <1>1, <1>2, <1>3, <1>4, <2>1, <2>2 DEF IInv, TypeOK, SupInv
  <2>4. PhaseInv' /\ FleetInv'
    BY <1>2, <1>3, <2>1 DEF IInv, PhaseInv, ForcedExitsNonzero, FleetInv, supVars
  <2>5. ThreadInv'
    <3>1. outbox'[w] # <<>> => w \notin attached
      <4>1. outbox'[w] # <<>> => outbox[w] = <<"ready", "attached">>
        BY <1>1, <1>4 DEF IInv, TypeOK
      <4> QED BY <4>1 DEF IInv, ThreadInv
    <3>2. <<>> \notin {<<"attached">>, <<"ready", "attached">>}
      OBVIOUS
    <3>3. \A v \in Worker \ {w} : outbox'[v] = outbox[v]
      BY <1>1 DEF IInv, TypeOK
    <3> QED BY <1>2, <1>5, <2>1, <3>1, <3>2, <3>3 DEF IInv, ThreadInv
  <2> QED BY <2>1, <2>2, <2>3, <2>4, <2>5 DEF IInv, SupInv
<1>8. CASE GotAttached(w)
  <2> DEFINE s == slotOf[w]
  <2>1. /\ attached' = attached \cup {w} /\ ready' = ready
        /\ Sup!NoteReady(s) /\ Head(outbox[w]) = "attached"
    BY <1>8 DEF GotAttached
  <2>2. outbox[w] = <<"attached">> /\ w \notin attached
    BY <1>4, <2>1 DEF IInv, ThreadInv
  <2>3. s \in spawning
    BY <1>1, <1>6, <2>2 DEF IInv, FleetInv
  <2>4. Sup!Next
    BY <1>6, <2>1, <2>3 DEF Sup!Next, Sup!Ready
  <2>5. SupInv'
    BY <2>4, SupStep DEF IInv, TypeOK, SupInv
  <2>6. /\ pending' = pending \ {s} /\ live' = live \cup {s} /\ spawning' = spawning \ {s}
        /\ stopping' = stopping
    BY <2>1 DEF Sup!NoteReady
  <2>7. TypeOK'
    BY <1>1, <1>2, <1>3, <1>4, <2>1, <2>5 DEF IInv, TypeOK, SupInv
  <2>8. PhaseInv'
    BY <1>2, <1>3, <2>6 DEF IInv, PhaseInv, ForcedExitsNonzero
  <2>9. ThreadInv'
    <3>1. outbox'[w] = <<>>
      BY <1>1, <1>4, <2>2 DEF IInv, TypeOK
    <3>2. <<>> \notin {<<"attached">>, <<"ready", "attached">>}
      OBVIOUS
    <3>3. \A v \in Worker \ {w} : outbox'[v] = outbox[v]
      BY <1>1 DEF IInv, TypeOK
    <3> QED BY <1>2, <1>5, <2>1, <3>1, <3>2, <3>3 DEF IInv, ThreadInv
  <2>10. FleetInv'
    BY <1>1, <1>2, <1>3, <2>1, <2>3, <2>6 DEF IInv, FleetInv
  <2> QED BY <2>4, <2>5, <2>7, <2>8, <2>9, <2>10 DEF IInv, SupInv
<1> QED BY <1>7, <1>8 DEF Message

\* The exit handler: noteExit() is called for a slot that is served.
LEMMA ExitStep ==
  ASSUME IInv, NEW w \in Worker, WorkerStep(w), OnExit(w)
  PROVE  [Sup!Next]_supVars /\ IInv'
<1> DEFINE s == slotOf[w]
<1>1. main # "exited" /\ w \in Workers
  BY DEF WorkerStep, Responsive
<1>2. s \in Slot /\ s \in live \cup spawning
  BY <1>1 DEF IInv, FleetInv, TypeOK, SlotTypeOK
<1>3. Forget(w) /\ UNCHANGED <<backAge, forced>>
  BY DEF OnExit
<1>4. Workers' = Workers \ {w}
  BY <1>3 DEF Forget, Workers, IInv, TypeOK
<1>5. ThreadInv'
  <2>1. <<>> \notin {<<"attached">>, <<"ready", "attached">>}
    OBVIOUS
  <2> QED BY <1>3, <2>1 DEF Forget, IInv, TypeOK, ThreadInv
<1>6. SupInv' /\ main' \in {"serving", "delay", "stopping", "exited"}
              /\ exitCode' \in {"none", "zero", "one", "killed"} => TypeOK'
  <2>1. /\ slotOf' \in [Worker -> Slot \cup {NoSlot}]
        /\ thread' \in [Worker -> {"off", "booting", "up", "teardown"}]
        /\ outbox' \in [Worker -> {<<>>, <<"ready">>, <<"attached">>, <<"ready", "attached">>}]
    BY <1>3 DEF Forget, IInv, TypeOK
  <2>2. /\ beatAge' \in [Worker -> Nat] /\ readyAge' \in [Worker -> Nat]
        /\ tearAge' \in [Worker -> Nat] /\ backAge' \in Nat /\ forced' \in BOOLEAN
    BY <1>3 DEF Forget, IInv, TypeOK
  <2>3. (wedged \cup lost \cup ready \cup attached \cup exitReq \cup told \cup early)'
           \subseteq Workers \ {w}
    BY <1>3 DEF Forget, IInv, TypeOK
  <2> QED BY <1>4, <2>1, <2>2, <2>3 DEF TypeOK, SupInv
<1>7. \A v \in Workers \ {w} : slotOf'[v] = slotOf[v]
  BY <1>3 DEF Forget, Workers, IInv, TypeOK
<1>8. CASE main = "serving"
  <2>1. PICK stable \in BOOLEAN : Sup!MayBeStable(s, stable) /\ Sup!NoteExit(s, stable)
    BY <1>8 DEF OnExit
  <2>2. Sup!Next
    BY <1>2, <2>1 DEF Sup!Next, Sup!Exit
  <2>3. SupInv'
    BY <2>2, SupStep DEF IInv, TypeOK, SupInv
  <2>4. live' = live \ {s} /\ spawning' = spawning \ {s} /\ UNCHANGED stopping
    BY <2>1 DEF Sup!NoteExit
  <2>5. \/ UNCHANGED <<main, exitCode>>
        \/ main' = "exited" /\ exitCode' \in {"one", "killed"}
    BY <1>8 DEF OnExit, ExitProcess
  <2>6. TypeOK'
    BY <1>6, <2>3, <2>5 DEF IInv, TypeOK
  <2>7. PhaseInv'
    BY <1>3, <1>8, <2>4, <2>5 DEF IInv, PhaseInv, ForcedExitsNonzero
  <2>8. FleetInv'
    BY <1>1, <1>3, <1>4, <1>7, <1>8, <2>4, <2>5 DEF Forget, IInv, FleetInv
  <2> QED BY <1>5, <2>2, <2>3, <2>6, <2>7, <2>8 DEF IInv, SupInv
<1>9. CASE main \in {"delay", "stopping"}
  <2>1. UNCHANGED supVars
    BY <1>9 DEF OnExit
  <2>2. SupInv'
    BY <2>1, SupStep DEF IInv, TypeOK, SupInv
  <2>3. IF Workers = {w} THEN main' = "exited" /\ exitCode' = ShutdownExitCode
        ELSE UNCHANGED <<main, exitCode>>
    BY <1>9 DEF OnExit, ExitProcess
  <2>4. TypeOK'
    BY <1>6, <2>2, <2>3 DEF IInv, TypeOK, ShutdownExitCode
  <2>5. PhaseInv'
    BY <1>1, <1>3, <1>4, <1>9, <2>1, <2>3
    DEF IInv, PhaseInv, ForcedExitsNonzero, ShutdownExitCode, supVars
  <2>6. FleetInv'
    BY <1>1, <1>3, <1>4, <1>7, <1>9, <2>1, <2>3 DEF Forget, IInv, FleetInv, supVars
  <2> QED BY <1>5, <2>1, <2>2, <2>4, <2>5, <2>6 DEF IInv, SupInv
<1> QED BY <1>8, <1>9 DEF OnExit

\* A respawn timer: the slot it is for has no worker.
LEMMA RespawnStep ==
  ASSUME IInv, NEW s \in Slot, Respawn(s)
  PROVE  [Sup!Next]_supVars /\ IInv'
<1>1. Sup!Next
  BY DEF Respawn, Sup!Next
<1>2. SupInv'
  BY <1>1, SupStep DEF IInv, TypeOK, SupInv
<1>3. /\ main # "exited" /\ s \in pending /\ ~stopping
      /\ live' = live \ {s} /\ spawning' = spawning \cup {s} /\ stopping' = stopping
  BY DEF Respawn, Sup!TimerFires, Sup!NoteSpawn
<1>4. main = "serving"
  BY <1>3 DEF IInv, PhaseInv, TypeOK
<1>5. s \notin live \cup spawning
  BY <1>3 DEF IInv, SlotAccounting
<1>6. PICK w \in Worker \ Workers : /\ thread' = [thread EXCEPT ![w] = "booting"]
                                    /\ slotOf' = [slotOf EXCEPT ![w] = s]
  BY DEF Respawn
<1>7. UNCHANGED <<wedged, outbox, lost, ready, attached, beatAge, readyAge, exitReq, told,
                  early, tearAge, backAge, main, forced, exitCode>>
  BY DEF Respawn
<1>8. Workers' = Workers \cup {w} /\ thread[w] = "off"
  BY <1>6 DEF Workers, IInv, TypeOK
<1>9. TypeOK'
  <2>1. /\ slotOf' \in [Worker -> Slot \cup {NoSlot}]
        /\ thread' \in [Worker -> {"off", "booting", "up", "teardown"}]
    BY <1>6 DEF IInv, TypeOK
  <2> QED BY <1>2, <1>7, <1>8, <2>1 DEF IInv, TypeOK, SupInv
<1>10. PhaseInv'
  BY <1>3, <1>4, <1>7, <1>8 DEF IInv, PhaseInv, ForcedExitsNonzero
<1>11. ThreadInv'
  BY <1>6, <1>7, <1>8, SupervisorConstants DEF IInv, TypeOK, ThreadInv
<1>12. FleetInv'
  <2>1. /\ \A v \in Workers : slotOf'[v] = slotOf[v] /\ slotOf[v] # s
        /\ slotOf'[w] = s /\ w \notin attached
    BY <1>3, <1>5, <1>6, <1>8 DEF IInv, TypeOK, ThreadInv, FleetInv, Workers
  <2> QED BY <1>3, <1>4, <1>5, <1>7, <1>8, <2>1 DEF IInv, FleetInv
<1> QED BY <1>1, <1>2, <1>9, <1>10, <1>11, <1>12 DEF IInv, SupInv

\* The signals, the backstop and what ends the process.
LEMMA ShutdownStep ==
  ASSUME IInv,
         \/ GracefulShutdown \/ DelayOver \/ ForceShutdown \/ StopTick \/ Backstop \/ LoopDrains
         \/ \E w \in Worker : GraceFires(w)
  PROVE  [Sup!Next]_supVars /\ IInv'
<1>1. Workers' = Workers
  BY DEF GracefulShutdown, DelayOver, ForceShutdown, StopTick, Backstop, LoopDrains, GraceFires,
         Workers
<1>2. [Sup!Next]_supVars /\ live' = live /\ spawning' = spawning
  <2>1. CASE GracefulShutdown
    BY <2>1 DEF GracefulShutdown, Sup!Stop, Sup!Next
  <2>2. CASE ForceShutdown
    BY <2>2 DEF ForceShutdown, Sup!StopAll, IInv, PhaseInv, supVars
  <2> QED BY <2>1, <2>2 DEF DelayOver, StopTick, Backstop, LoopDrains, GraceFires, supVars
<1>3. SupInv'
  BY <1>2, SupStep DEF IInv, TypeOK, SupInv
<1>4. UNCHANGED <<slotOf, thread, wedged, outbox, lost, ready, attached, beatAge, readyAge>>
  BY DEF GracefulShutdown, DelayOver, ForceShutdown, StopTick, Backstop, LoopDrains, GraceFires
<1>5. ThreadInv'
  BY <1>4 DEF IInv, ThreadInv
<1>6. CASE GracefulShutdown \/ DelayOver
  <2>1. /\ stopping' /\ pending' = {} /\ forced' = forced /\ main # "exited"
        /\ main' \in {"delay", "stopping"} /\ exitCode' = exitCode
    BY <1>6 DEF GracefulShutdown, DelayOver, Sup!Stop, Sup!StopAll, TellWorkers, IInv,
        PhaseInv, supVars
  <2>2. told' \cup early' \subseteq Workers
    BY <1>6 DEF GracefulShutdown, DelayOver, TellWorkers, IInv, TypeOK, Workers
  <2>3. UNCHANGED <<exitReq, tearAge, backAge>>
    BY <1>6 DEF GracefulShutdown, DelayOver
  <2>4. TypeOK'
    BY <1>1, <1>3, <1>4, <2>1, <2>2, <2>3 DEF IInv, TypeOK, SupInv
  <2>5. PhaseInv'
    BY <1>1, <2>1 DEF IInv, PhaseInv, ForcedExitsNonzero
  <2>6. FleetInv'
    BY <1>1, <1>2, <1>4, <2>1 DEF IInv, FleetInv
  <2> QED BY <1>2, <1>3, <1>5, <2>4, <2>5, <2>6 DEF IInv, SupInv
<1>7. CASE ForceShutdown
  <2>1. /\ main \in {"delay", "stopping"} /\ forced' = TRUE /\ pending' = {}
        /\ IF Workers = {} THEN main' = "exited" /\ exitCode' = "one"
           ELSE UNCHANGED <<main, exitCode>>
        /\ UNCHANGED <<stopping, told, early, tearAge, backAge>>
    BY <1>7 DEF ForceShutdown, ExitProcess, Sup!StopAll
  <2>2. exitReq' \subseteq Workers
    BY <1>7 DEF ForceShutdown, RequestExit, IInv, TypeOK
  <2>3. TypeOK'
    BY <1>1, <1>3, <1>4, <2>1, <2>2 DEF IInv, TypeOK, SupInv
  <2>4. PhaseInv'
    BY <1>1, <2>1 DEF IInv, PhaseInv, ForcedExitsNonzero
  <2>5. FleetInv'
    BY <1>1, <1>2, <1>4, <2>1 DEF IInv, FleetInv
  <2> QED BY <1>2, <1>3, <1>5, <2>3, <2>4, <2>5 DEF IInv, SupInv
<1>8. CASE StopTick \/ Backstop
  <2>1. tearAge' \in [Worker -> Nat] /\ backAge' \in Nat /\ exitReq' \subseteq Workers
    BY <1>8 DEF StopTick, Backstop, RequestExit, IInv, TypeOK
  <2>2. UNCHANGED <<supVars, told, early, main, forced, exitCode>>
    BY <1>8 DEF StopTick, Backstop
  <2>3. TypeOK'
    BY <1>1, <1>3, <1>4, <2>1, <2>2 DEF IInv, TypeOK, SupInv
  <2> QED BY <1>2, <1>4, <2>2, <2>3, QuietInv
<1>9. CASE LoopDrains \/ \E w \in Worker : GraceFires(w)
  <2>1. /\ main # "exited" /\ main' = "exited"
        /\ \/ main = "stopping" /\ Workers = {} /\ exitCode' = "zero"
           \/ exitCode' = "killed"
        /\ UNCHANGED <<exitReq, told, early, tearAge, backAge, forced>>
    BY <1>9 DEF LoopDrains, GraceFires, ExitProcess
  <2>2. TypeOK'
    BY <1>1, <1>3, <1>4, <2>1 DEF IInv, TypeOK, SupInv
  <2>3. PhaseInv' /\ FleetInv'
    BY <2>1 DEF IInv, PhaseInv, ForcedExitsNonzero, FleetInv
  <2> QED BY <1>2, <1>3, <1>5, <2>2, <2>3 DEF IInv, SupInv
<1> QED BY <1>6, <1>7, <1>8, <1>9

\* Every step of the primary is one of the supervisor or none, and keeps the
\* invariant.
LEMMA NextInv == IInv /\ [Next]_vars => [Sup!Next]_supVars /\ IInv'
<1> SUFFICES ASSUME IInv, [Next]_vars
             PROVE  [Sup!Next]_supVars /\ IInv'
  OBVIOUS
<1>1. CASE Tick
  BY <1>1, TickStep
<1>2. ASSUME NEW w \in Worker,
             Boot(w) \/ Wedge(w) \/ BeginTeardown(w) \/ Hear(w) \/ Retire(w)
      PROVE  [Sup!Next]_supVars /\ IInv'
  BY <1>2, ThreadStep DEF supVars
<1>3. ASSUME NEW w \in Worker, Message(w)
      PROVE  [Sup!Next]_supVars /\ IInv'
  BY <1>3, MessageStep
<1>4. ASSUME NEW w \in Worker, Crash(w) \/ Terminated(w) \/ TornDown(w)
      PROVE  [Sup!Next]_supVars /\ IInv'
  BY <1>4, ExitStep DEF Crash, Terminated, TornDown
<1>5. ASSUME NEW s \in Slot, Respawn(s)
      PROVE  [Sup!Next]_supVars /\ IInv'
  BY <1>5, RespawnStep
<1>6. CASE \/ GracefulShutdown \/ DelayOver \/ ForceShutdown \/ StopTick \/ Backstop
           \/ LoopDrains \/ \E w \in Worker : GraceFires(w)
  BY <1>6, ShutdownStep
<1>7. CASE UNCHANGED vars
  <2>1. TypeOK'
    BY <1>7 DEF vars, primVars, supVars, IInv, TypeOK, SlotTypeOK, Workers
  <2> QED BY <1>7, <2>1, QuietInv DEF vars, primVars, supVars
<1> QED BY <1>1, <1>2, <1>3, <1>4, <1>5, <1>6, <1>7 DEF Next

\* FleetInv says with sets of threads what FleetMatchesAccounts says with numbers.
LEMMA FleetCounts == IInv => FleetMatchesAccounts
<1> SUFFICES ASSUME IInv, main = "serving", NEW s \in Slot
             PROVE  LET serving == {w \in Workers : slotOf[w] = s} IN
                    /\ Cardinality(serving) = IF s \in live \cup spawning THEN 1 ELSE 0
                    /\ s \in live <=> serving \cap attached # {}
  BY DEF FleetMatchesAccounts, IInv, PhaseInv
<1> DEFINE serving == {w \in Workers : slotOf[w] = s}
<1>1. CASE s \in live \cup spawning
  <2>1. PICK w \in Workers : slotOf[w] = s
    BY <1>1 DEF IInv, FleetInv
  <2>2. serving = {w}
    BY <2>1 DEF IInv, FleetInv
  <2>3. Cardinality(serving) = 1
    BY <2>2, FS_Singleton
  <2>4. s \in live <=> w \in attached
    BY <2>1 DEF IInv, FleetInv
  <2> QED BY <1>1, <2>2, <2>3, <2>4
<1>2. CASE s \notin live \cup spawning
  <2>1. serving = {}
    BY <1>2 DEF IInv, FleetInv
  <2> QED BY <1>2, <2>1, FS_EmptySet
<1> QED BY <1>1, <1>2

\* The primary makes the supervisor's calls in the order its accounting needs.
THEOREM ImplementsSupervisor == Spec => SupervisorSpec
<1>1. Init => Sup!Init
  BY DEF Init
<1> QED BY <1>1, InitInv, NextInv, PTL DEF Spec, SupervisorSpec, Sup!Spec, supVars, Sup!supVars

\* Until shutdown a slot counts as live or booting exactly when one worker
\* thread serves it, as live exactly when that worker attached; and a forced
\* shutdown never exits with code 0.
THEOREM FleetIsAccountedFor == Spec => []FleetMatchesAccounts
<1> QED BY InitInv, NextInv, FleetCounts, PTL DEF Spec

-----------------------------------------------------------------------------
(***************************************************************************)
(* Nobody is asked to exit without a reason                                *)
(***************************************************************************)

\* With rings, a worker that is ready is attached, about to be, or lost.
AttachInv ==
  RingEnabled =>
    /\ \A w \in Worker : outbox[w] = <<"ready">> => w \in lost
    /\ \A w \in ready : w \in lost \cup attached \/ outbox[w] = <<"attached">>

\* Nobody is told to shut down before the shutdown's second step.
NoneToldYet ==
  main \in {"serving", "delay"} =>
    /\ told = {} /\ early = {} /\ backAge = 0
    /\ \A w \in Worker : thread[w] # "teardown"

\* The budget bounds a teardown's clock, which runs in no other state.
TeardownClock ==
  \A w \in Worker : tearAge[w] <= Budget /\ (thread[w] # "teardown" => tearAge[w] = 0)

\* A worker that was up when it was told runs its teardown for as long as the
\* backstop's clock does: time passes for both or for neither.
ClocksAgree ==
  main = "stopping" =>
    \A w \in Workers \ (wedged \cup early) :
      \/ w \in told /\ thread[w] = "up" /\ backAge = 0
      \/ w \notin told /\ thread[w] = "teardown" /\ tearAge[w] = backAge

\* The clocks of a shutdown.
StopInv == NoneToldYet /\ TeardownClock /\ ClocksAgree

\* `relay-attached` follows `ready` unless its post failed.
LEMMA AttachStep == IInv /\ AttachInv /\ [Next]_vars => AttachInv'
<1> SUFFICES ASSUME IInv, AttachInv, [Next]_vars, RingEnabled
             PROVE  AttachInv'
  BY DEF AttachInv
<1>t. /\ ready \subseteq Worker
      /\ outbox \in [Worker -> {<<>>, <<"ready">>, <<"attached">>, <<"ready", "attached">>}]
  BY DEF IInv, TypeOK, Workers
<1>d. /\ <<>> # <<"ready">> /\ <<"attached">> # <<"ready">>
      /\ <<"ready", "attached">> # <<"ready">>
      /\ Tail(<<"ready">>) = <<>> /\ Tail(<<"attached">>) = <<>>
      /\ Tail(<<"ready", "attached">>) = <<"attached">>
      /\ Head(<<"attached">>) = "attached"
  OBVIOUS
<1>1. CASE UNCHANGED <<ready, lost, attached, outbox>>
  BY <1>1 DEF AttachInv
<1>2. ASSUME NEW w \in Worker, Boot(w)
      PROVE  AttachInv'
  <2>1. /\ thread[w] = "booting" /\ ready' = ready /\ attached' = attached
        /\ lost \subseteq lost'
        /\ \A v \in Worker \ {w} : outbox'[v] = outbox[v]
    BY <1>2, <1>t DEF Boot
  <2>2. w \notin ready
    BY <2>1 DEF IInv, ThreadInv
  <2>3. w \in lost' \/ outbox'[w] = <<"ready", "attached">>
    BY <1>2, <1>t DEF Boot
  <2> QED BY <1>t, <1>d, <2>1, <2>2, <2>3, Zenon DEF AttachInv
<1>3. ASSUME NEW w \in Worker, Message(w)
      PROVE  AttachInv'
  <2>1. /\ outbox[w] # <<>> /\ lost' = lost
        /\ outbox'[w] = Tail(outbox[w])
        /\ \A v \in Worker \ {w} : outbox'[v] = outbox[v]
    BY <1>3, <1>t DEF Message, GotReady, GotAttached, Receive
  <2>2. outbox[w] \in {<<"ready">>, <<"attached">>, <<"ready", "attached">>}
    BY <1>t, <2>1
  <2>3. outbox'[w] # <<"ready">> /\ (outbox'[w] = <<>> \/ outbox'[w] = <<"attached">>)
    BY <1>d, <2>1, <2>2, Zenon
  <2>4. CASE GotReady(w)
    <3>1. attached' = attached /\ ready' = ready \cup {w} /\ Head(outbox[w]) = "ready"
      BY <2>4 DEF GotReady
    <3>2. outbox[w] \in {<<"ready">>, <<"ready", "attached">>}
      BY <1>d, <2>2, <3>1, "ready" # "attached", Zenon
    <3>3. w \in lost \/ outbox'[w] = <<"attached">>
      BY <1>d, <2>1, <3>2, Zenon DEF AttachInv
    <3> QED BY <1>t, <2>1, <2>3, <3>1, <3>3, Zenon DEF AttachInv
  <2>5. CASE GotAttached(w)
    BY <1>t, <2>1, <2>3, <2>5, Zenon DEF GotAttached, AttachInv
  <2> QED BY <1>3, <2>4, <2>5 DEF Message
<1>4. ASSUME NEW w \in Worker, Forget(w)
      PROVE  AttachInv'
  <2>1. /\ outbox'[w] = <<>> /\ ready' = ready \ {w} /\ lost' = lost \ {w}
        /\ attached' = attached \ {w}
        /\ \A v \in Worker \ {w} : outbox'[v] = outbox[v]
    BY <1>4, <1>t DEF Forget
  <2> QED BY <1>t, <1>d, <2>1, Zenon DEF AttachInv
<1>5. ASSUME NEW w \in Worker, Wedge(w) \/ BeginTeardown(w) \/ Hear(w) \/ Retire(w) \/ GraceFires(w)
      PROVE  AttachInv'
  BY <1>1, <1>5 DEF Wedge, BeginTeardown, Hear, Retire, GraceFires
<1>6. ASSUME NEW s \in Slot, Respawn(s)
      PROVE  AttachInv'
  BY <1>1, <1>6 DEF Respawn
<1>7. CASE \/ Tick \/ GracefulShutdown \/ DelayOver \/ ForceShutdown \/ StopTick \/ Backstop
           \/ LoopDrains
  BY <1>1, <1>7 DEF Tick, GracefulShutdown, DelayOver, ForceShutdown, StopTick, Backstop, LoopDrains
<1>8. CASE UNCHANGED vars
  BY <1>1, <1>8 DEF vars, primVars
<1> QED
  BY <1>2, <1>3, <1>4, <1>5, <1>6, <1>7, <1>8 DEF Next, Crash, Terminated, TornDown, OnExit

\* The clocks of a shutdown.
LEMMA StopStep == IInv /\ StopInv /\ [Next]_vars => StopInv'
<1> SUFFICES ASSUME IInv, StopInv, [Next]_vars
             PROVE  StopInv'
  OBVIOUS
<1>t. /\ Budget \in Nat /\ backAge \in Nat /\ tearAge \in [Worker -> Nat]
      /\ main \in {"serving", "delay", "stopping", "exited"}
      /\ thread \in [Worker -> {"off", "booting", "up", "teardown"}]
      /\ told \cup early \subseteq Workers
  BY PrimaryAssumption DEF PrimaryAssumption, IInv, TypeOK
<1>1. CASE UNCHANGED <<main, thread, wedged, told, early, tearAge, backAge>>
  BY <1>1 DEF StopInv, NoneToldYet, TeardownClock, ClocksAgree, Workers
<1>2. ASSUME NEW w \in Worker, Boot(w)
      PROVE  StopInv'
  <2>1. /\ main # "exited" /\ w \notin wedged /\ thread[w] = "booting"
        /\ thread' = [thread EXCEPT ![w] = "up"]
        /\ UNCHANGED <<main, wedged, told, early, tearAge, backAge>>
    BY <1>2 DEF Boot, WorkerStep, Responsive
  <2>2. Workers' = Workers /\ w \in Workers
    BY <1>t, <2>1 DEF Workers
  <2>3. main = "stopping" => w \in early
    BY <2>1, <2>2 DEF StopInv, NoneToldYet, TeardownClock, ClocksAgree
  <2>4. /\ \A v \in Worker : (thread'[v] = "teardown") = (thread[v] = "teardown")
        /\ \A v \in Worker \ {w} : thread'[v] = thread[v]
    BY <1>t, <2>1
  <2>5. NoneToldYet' /\ TeardownClock'
    BY <2>1, <2>4, Zenon DEF StopInv, NoneToldYet, TeardownClock, ClocksAgree
  <2>6. ClocksAgree'
    BY <2>1, <2>2, <2>3, <2>4 DEF StopInv, NoneToldYet, TeardownClock, ClocksAgree
  <2> QED BY <2>5, <2>6 DEF StopInv, NoneToldYet, TeardownClock, ClocksAgree
<1>3. ASSUME NEW w \in Worker, Wedge(w)
      PROVE  StopInv'
  BY <1>3 DEF Wedge, StopInv, NoneToldYet, TeardownClock, ClocksAgree, Workers
<1>4. ASSUME NEW w \in Worker, BeginTeardown(w)
      PROVE  StopInv'
  <2>1. /\ main # "exited" /\ w \in told /\ w \notin wedged /\ thread[w] = "up"
        /\ thread' = [thread EXCEPT ![w] = "teardown"] /\ told' = told \ {w}
        /\ UNCHANGED <<main, wedged, early, tearAge, backAge>>
    BY <1>4 DEF BeginTeardown, WorkerStep, Responsive
  <2>2. Workers' = Workers /\ w \in Workers
    BY <1>t, <2>1 DEF Workers
  <2>3. main = "stopping" /\ tearAge[w] = 0 /\ (w \in early \/ backAge = 0)
    BY <1>t, <2>1, <2>2 DEF StopInv, NoneToldYet, TeardownClock, ClocksAgree
  <2> QED BY <1>t, <2>1, <2>2, <2>3 DEF StopInv, NoneToldYet, TeardownClock, ClocksAgree
<1>5. ASSUME NEW w \in Worker, Forget(w), backAge' = backAge,
             main' = main \/ main' = "exited"
      PROVE  StopInv'
  <2>1. /\ Workers' = Workers \ {w} /\ thread'[w] = "off" /\ tearAge'[w] = 0
        /\ \A v \in Worker \ {w} : thread'[v] = thread[v] /\ tearAge'[v] = tearAge[v]
        /\ wedged' = wedged \ {w} /\ told' = told \ {w} /\ early' = early \ {w}
    BY <1>t, <1>5 DEF Forget, Workers
  <2>2. NoneToldYet'
    BY <1>t, <1>5, <2>1 DEF StopInv, NoneToldYet
  <2>3. TeardownClock'
    BY <1>t, <2>1 DEF StopInv, TeardownClock
  <2>4. ClocksAgree'
    BY <1>5, <2>1 DEF StopInv, ClocksAgree, Workers
  <2> QED BY <2>2, <2>3, <2>4 DEF StopInv
<1>6. ASSUME NEW s \in Slot, Respawn(s)
      PROVE  StopInv'
  <2>1. PICK w \in Worker \ Workers : thread' = [thread EXCEPT ![w] = "booting"]
    BY <1>6 DEF Respawn
  <2>2. UNCHANGED <<main, wedged, told, early, tearAge, backAge>>
    BY <1>6 DEF Respawn
  <2>3. main = "serving"
    BY <1>6 DEF Respawn, Sup!TimerFires, IInv, PhaseInv, TypeOK
  <2>4. thread[w] = "off"
    BY DEF Workers
  <2> QED BY <1>t, <2>1, <2>2, <2>3, <2>4 DEF StopInv, NoneToldYet, TeardownClock, ClocksAgree
<1>7. CASE GracefulShutdown \/ DelayOver
  <2>1. /\ main \in {"serving", "delay"}
        /\ UNCHANGED <<thread, wedged, tearAge, backAge>>
        /\ \/ main' = "delay" /\ UNCHANGED <<told, early>>
           \/ TellWorkers
    BY <1>7 DEF GracefulShutdown, DelayOver
  <2>2. backAge = 0 /\ \A w \in Worker : thread[w] # "teardown"
    BY <2>1 DEF StopInv, NoneToldYet, TeardownClock, ClocksAgree
  <2>3. CASE TellWorkers
    BY <1>t, <2>1, <2>2, <2>3
    DEF TellWorkers, StopInv, NoneToldYet, TeardownClock, ClocksAgree, Workers
  <2>4. CASE main' = "delay" /\ UNCHANGED <<told, early>>
    BY <2>1, <2>4 DEF StopInv, NoneToldYet, TeardownClock, ClocksAgree
  <2> QED BY <2>1, <2>3, <2>4
<1>8. CASE StopTick
  <2>1. /\ main = "stopping" /\ backAge' = backAge + 1
        /\ tearAge' = [w \in Worker |-> IF thread[w] = "teardown" /\ tearAge[w] < Budget
                                        THEN tearAge[w] + 1 ELSE tearAge[w]]
        /\ UNCHANGED <<main, thread, wedged, told, early>>
    BY <1>8 DEF StopTick
  <2>2. ASSUME NEW w \in Workers \ (wedged \cup early)
        PROVE  w \notin told /\ thread[w] = "teardown" /\ tearAge'[w] = backAge'
    <3>1. /\ w \in told => thread[w] # "up"
          /\ thread[w] = "teardown" => tearAge[w] < Budget
      BY <1>8 DEF StopTick, Responsive
    <3>2. w \notin told /\ thread[w] = "teardown" /\ tearAge[w] = backAge
      BY <2>1, <3>1 DEF StopInv, NoneToldYet, TeardownClock, ClocksAgree
    <3> QED BY <2>1, <3>1, <3>2 DEF Workers
  <2>3. \A w \in Worker : tearAge'[w] <= Budget /\ (thread'[w] # "teardown" => tearAge'[w] = 0)
    BY <1>t, <2>1 DEF StopInv, NoneToldYet, TeardownClock, ClocksAgree
  <2> QED BY <2>1, <2>2, <2>3 DEF StopInv, NoneToldYet, TeardownClock, ClocksAgree, Workers
<1>9. CASE ForceShutdown
  BY <1>t, <1>9 DEF ForceShutdown, ExitProcess, StopInv, NoneToldYet,
      TeardownClock, ClocksAgree, Workers
<1>10. CASE LoopDrains \/ \E w \in Worker : GraceFires(w)
  BY <1>t, <1>10 DEF LoopDrains, GraceFires, ExitProcess, StopInv, NoneToldYet,
      TeardownClock, ClocksAgree, Workers
<1>11. CASE \/ Tick \/ Backstop \/ UNCHANGED vars
            \/ \E w \in Worker : Hear(w) \/ Message(w) \/ Retire(w)
  BY <1>1, <1>11 DEF Tick, Backstop, Hear, Message, Retire, vars, primVars
<1>12. ASSUME NEW w \in Worker, OnExit(w)
       PROVE  StopInv'
  <2>1. main' = main \/ main' = "exited"
    BY <1>12 DEF OnExit, ExitProcess
  <2> QED BY <1>5, <1>12, <2>1 DEF OnExit
<1> QED
  BY <1>2, <1>3, <1>4, <1>6, <1>7, <1>8, <1>9, <1>10, <1>11, <1>12
  DEF Next, Crash, Terminated, TornDown

\* A sweep asks no worker to exit that is heard within AckTicks and whose
\* attach message is not lost, when the limits leave AckTicks room.
LEMMA SweepSparesTheHealthy ==
  ASSUME RingEnabled, AckTicks <= SteadyTicks, AckTicks <= FloorTicks,
         IInv, AttachInv, Tick
  PROVE  exitReq' \ exitReq \subseteq wedged \cup lost
<1> DEFINE judged == Workers \ exitReq
           beat   == [w \in Worker |-> IF w \in judged THEN Older(beatAge[w]) ELSE beatAge[w]]
           rdy    == [w \in Worker |-> IF w \in judged /\ w \in ready \ attached
                                       THEN Older(readyAge[w]) ELSE readyAge[w]]
<1>1. exitReq' = exitReq \cup ({w \in judged : Escalate(w, beat, rdy)} \cap Workers)
  BY DEF Tick, RequestExit
<1>2. {SteadyTicks, RawBootTicks, FloorTicks, AckTicks} \subseteq Nat
  BY PrimaryAssumption DEF PrimaryAssumption
<1> SUFFICES ASSUME NEW w \in judged, Escalate(w, beat, rdy), w \notin wedged, w \notin lost
             PROVE  FALSE
  BY <1>1
<1>3. w \in Worker /\ outbox[w] = <<>> /\ beatAge[w] < AckTicks /\ beatAge[w] \in Nat
  BY DEF Tick, Responsive, Workers, IInv, TypeOK
<1>4. beat[w] <= AckTicks
  BY <1>2, <1>3 DEF Older
<1>5. ~SteadyWedge(w, beat)
  BY <1>2, <1>3, <1>4 DEF SteadyWedge, Older
<1>6. ~BootWedge(w, beat)
  BY <1>2, <1>3, <1>4 DEF BootWedge, BootTicks, Older
<1>7. ~AttachGap(w, rdy)
  <2>1. outbox[w] # <<"attached">>
    BY <1>3
  <2> QED BY <2>1 DEF AttachGap, AttachInv
<1> QED BY <1>5, <1>6, <1>7 DEF Escalate

\* The backstop comes one grace after the budget: a worker that was up when
\* told and is not wedged has ended its teardown by then.
LEMMA BackstopSparesTheHealthy ==
  ASSUME IInv, StopInv, Backstop
  PROVE  exitReq' \ exitReq \subseteq wedged \cup early
<1>1. main = "stopping" /\ backAge = Budget + 1 /\ exitReq' \subseteq exitReq \cup Workers
  BY DEF Backstop, RequestExit
<1>2. Budget \in Nat /\ Workers \subseteq Worker
  BY PrimaryAssumption DEF PrimaryAssumption, Workers
<1> SUFFICES ASSUME NEW w \in Workers \ (wedged \cup early)
             PROVE  FALSE
  BY <1>1
<1>3. tearAge[w] <= Budget /\ (backAge = 0 \/ tearAge[w] = backAge)
  BY <1>1, <1>2 DEF StopInv, NoneToldYet, TeardownClock, ClocksAgree
<1> QED BY <1>1, <1>2, <1>3

\* With rings, and with limits no shorter than the time a responsive worker
\* takes to be heard, a worker is asked to exit by a sweep only if it is wedged
\* or its relay-attached post was lost, by the backstop only if it is wedged or
\* was told to shut down while it booted.
THEOREM HealthyAreSpared ==
  ASSUME RingEnabled, AckTicks <= SteadyTicks, AckTicks <= FloorTicks
  PROVE  Spec => HealthyNeverKilled
<1> DEFINE Inv == IInv /\ AttachInv /\ StopInv
<1>1. Init => Inv
  <2>1. Init => AttachInv /\ StopInv
    <3> SUFFICES ASSUME Init
                 PROVE  AttachInv /\ StopInv
      OBVIOUS
    <3>1. <<>> # <<"ready">> /\ Budget \in Nat
      BY PrimaryAssumption DEF PrimaryAssumption
    <3> QED BY <3>1 DEF Init, AttachInv, StopInv, NoneToldYet, TeardownClock, ClocksAgree
  <2> QED BY <2>1, InitInv
<1>2. Inv /\ [Next]_vars => Inv'
  BY NextInv, AttachStep, StopStep
<1>3. Inv /\ [Next]_vars =>
        [LET requested == exitReq' \ exitReq IN
           /\ Tick => requested \subseteq wedged \cup lost
           /\ Backstop => requested \subseteq wedged \cup early]_vars
  BY SweepSparesTheHealthy, BackstopSparesTheHealthy
<1> QED BY <1>1, <1>2, <1>3, PTL DEF Spec, HealthyNeverKilled

(***************************************************************************)
(* The stop of one serving thread                                          *)
(***************************************************************************)
\* Where the shutdown sequence stands once it has closed the door, and once it
\* has cut the exchanges off.
DoorShut == {"sockets", "requests", "listener", "cleanup", "flush"}
CutOff == {"listener", "cleanup", "flush"}

\* A thread that is told to stop drains at once, except that a signal taken
\* before the handler is imported waits for the import.
BootInv ==
    /\ boot = "import" => life = "starting"
    /\ boot \in {"import", "bind"} => listener = "unbound"
    /\ phase = "running" => boot = "done"
    /\ stage # "none" => boot = "done" /\ phase = "shutting-down"
    /\ condemned => life \in {"draining", "closed"} \/ (boot = "import" /\ latched)
    /\ latched => condemned

\* The door: nothing is accepted once it is shut, and nothing is left inside
\* once the listener has reported its close.
DoorInv ==
    /\ role = "compute" => listener = "unbound"
    /\ listener = "unbound" =>
          (\A r \in Request : wire[r] = "none") /\ (\A c \in Socket : ws[c] = "none")
    /\ listener = "closed" =>
          (\A r \in Request : wire[r] # "open") /\ (\A c \in Socket : ws[c] \in {"none", "gone"})
    /\ stage \in DoorShut => listener # "listening"
    /\ stage \in CutOff => \A r \in Request : wire[r] # "open"
    /\ stage = "listener" => role # "compute"

\* The result of the drain, and what was dropped for it.
ResultInv ==
    /\ stage \notin CutOff => cut = {}
    /\ drained => cut = {}
    /\ stage \in {"cleanup", "flush"} /\ drained => listener \in {"unbound", "closed"}
    /\ way = "graceful" => stage = "flush"

\* A request and its signal: registered while its exchange is open, and not
\* aborted by a disconnect before the exchange is gone.
SignalInv ==
    /\ \A r \in Request : wire[r] = "open" => r \in running
    /\ \A r \in running : wire[r] # "none"
    /\ \A r \in Request : wire[r] # "gone" => notified[r] # "disconnect"
    /\ \A r \in cut : wire[r] = "gone"
    /\ stage = "flush" => \A r \in running : notified[r] # "nobody"
    /\ ExitTellsRequests

ExitInv == LifeTypeOK /\ BootInv /\ DoorInv /\ ResultInv /\ SignalInv

LEMMA ImportKeeps ==
  ASSUME ExitInv, Life!Import
  PROVE  ExitInv'
<1>1. LifeTypeOK'
  BY DEF ExitInv, LifeTypeOK, Budgeted, Life!Import, Life!Alive, Life!BeginDrain, Life!config,
         Life!stops, Life!exchanges, Life!sockets, Life!outcome
<1>2. BootInv'
  BY DEF ExitInv, BootInv, Life!Import, Life!BeginDrain, Life!stops
<1>3. DoorInv'
  BY DEF ExitInv, DoorInv, DoorShut, CutOff, Life!Import, Life!config, Life!exchanges,
         Life!sockets
<1>4. ResultInv'
  BY DEF ExitInv, ResultInv, CutOff, Life!Import, Life!exchanges, Life!outcome
<1>5. SignalInv'
  BY DEF ExitInv, SignalInv, ExitTellsRequests, CutOff, Life!Import, Life!Alive, Life!exchanges
<1> QED
  BY <1>1, <1>2, <1>3, <1>4, <1>5 DEF ExitInv

LEMMA BindKeeps ==
  ASSUME ExitInv, Life!Bind
  PROVE  ExitInv'
<1>1. LifeTypeOK'
  BY DEF ExitInv, LifeTypeOK, Budgeted, Life!Bind, Life!Alive, Life!config, Life!stops,
         Life!exchanges, Life!sockets, Life!outcome
<1>2. BootInv'
  BY DEF ExitInv, BootInv, Life!Bind, Life!stops
<1>3. DoorInv'
  BY DEF ExitInv, LifeTypeOK, BootInv, DoorInv, DoorShut, CutOff, Life!Bind, Life!Alive,
         Life!config, Life!stops, Life!exchanges, Life!sockets, Life!outcome
<1>4. ResultInv'
  BY DEF ExitInv, BootInv, DoorInv, ResultInv, CutOff, Life!Bind, Life!Alive, Life!config,
         Life!stops, Life!exchanges, Life!sockets, Life!outcome
<1>5. SignalInv'
  BY DEF ExitInv, SignalInv, ExitTellsRequests, CutOff, Life!Bind, Life!Alive, Life!exchanges
<1> QED
  BY <1>1, <1>2, <1>3, <1>4, <1>5 DEF ExitInv

LEMMA BootDoneKeeps ==
  ASSUME ExitInv, Life!BootDone
  PROVE  ExitInv'
<1>1. LifeTypeOK'
  BY DEF ExitInv, LifeTypeOK, Budgeted, Life!BootDone, Life!Alive, Life!Start, Life!BeginDrain,
         Life!Commit, Life!config, Life!stops, Life!exchanges, Life!sockets, Life!outcome
<1>2. BootInv'
  BY DEF ExitInv, BootInv, Life!BootDone, Life!Start, Life!BeginDrain, Life!Commit, Life!stops
<1>3. DoorInv'
  BY DEF ExitInv, DoorInv, DoorShut, CutOff, Life!BootDone, Life!Start, Life!config,
         Life!exchanges, Life!sockets
<1>4. ResultInv'
  BY DEF ExitInv, BootInv, DoorInv, ResultInv, CutOff, Life!BootDone, Life!Alive, Life!Start,
         Life!BeginDrain, Life!Commit, Life!config, Life!stops, Life!exchanges, Life!sockets,
         Life!outcome
<1>5. SignalInv'
  BY DEF ExitInv, SignalInv, ExitTellsRequests, CutOff, Life!BootDone, Life!Alive, Life!Start,
         Life!exchanges
<1> QED
  BY <1>1, <1>2, <1>3, <1>4, <1>5 DEF ExitInv

LEMMA CrashKeeps ==
  ASSUME ExitInv, Life!Crash
  PROVE  ExitInv'
<1>1. LifeTypeOK'
  BY DEF ExitInv, LifeTypeOK, Budgeted, Life!Crash, Life!Alive, Life!config, Life!stops,
         Life!exchanges, Life!sockets, Life!outcome
<1>2. BootInv'
  BY DEF ExitInv, BootInv, Life!Crash, Life!stops
<1>3. DoorInv'
  BY DEF ExitInv, DoorInv, DoorShut, CutOff, Life!Crash, Life!config, Life!exchanges,
         Life!sockets
<1>4. ResultInv'
  BY DEF ExitInv, ResultInv, CutOff, Life!Crash, Life!exchanges, Life!outcome
<1>5. SignalInv'
  BY DEF ExitInv, SignalInv, ExitTellsRequests, CutOff, Life!Crash, Life!Alive, Life!exchanges
<1> QED
  BY <1>1, <1>2, <1>3, <1>4, <1>5 DEF ExitInv

LEMMA WorkerFailsKeeps ==
  ASSUME ExitInv, Life!WorkerFails
  PROVE  ExitInv'
<1>1. LifeTypeOK'
  BY DEF ExitInv, LifeTypeOK, Budgeted, Life!WorkerFails, Life!Alive, Life!Leave,
         Life!AbortInFlight, Life!config, Life!stops, Life!sockets, Life!outcome
<1>2. BootInv'
  BY DEF ExitInv, BootInv, Life!WorkerFails, Life!stops
<1>3. DoorInv'
  BY DEF ExitInv, DoorInv, DoorShut, CutOff, Life!WorkerFails, Life!config, Life!sockets
<1>4. ResultInv'
  BY DEF ExitInv, ResultInv, CutOff, Life!WorkerFails, Life!Leave, Life!outcome
<1>5. SignalInv'
  BY DEF ExitInv, LifeTypeOK, DoorInv, ResultInv, SignalInv, ExitTellsRequests, CutOff,
         Life!WorkerFails, Life!Alive, Life!Leave, Life!AbortInFlight, Life!config, Life!stops,
         Life!sockets, Life!outcome
<1> QED
  BY <1>1, <1>2, <1>3, <1>4, <1>5 DEF ExitInv

LEMMA LatchSignalKeeps ==
  ASSUME ExitInv, Life!LatchSignal
  PROVE  ExitInv'
<1>1. LifeTypeOK'
  BY DEF ExitInv, LifeTypeOK, Budgeted, Life!LatchSignal, Life!Alive, Life!BeginDrain,
         Life!config, Life!exchanges, Life!sockets, Life!outcome
<1>2. BootInv'
  BY DEF ExitInv, BootInv, Life!LatchSignal, Life!BeginDrain
<1>3. DoorInv'
  BY DEF ExitInv, DoorInv, DoorShut, CutOff, Life!LatchSignal, Life!config, Life!exchanges,
         Life!sockets
<1>4. ResultInv'
  BY DEF ExitInv, ResultInv, CutOff, Life!LatchSignal, Life!exchanges, Life!outcome
<1>5. SignalInv'
  BY DEF ExitInv, SignalInv, ExitTellsRequests, CutOff, Life!LatchSignal, Life!Alive,
         Life!exchanges
<1> QED
  BY <1>1, <1>2, <1>3, <1>4, <1>5 DEF ExitInv

LEMMA StopSignalKeeps ==
  ASSUME ExitInv, Life!StopSignal
  PROVE  ExitInv'
<1>1. LifeTypeOK'
  BY DEF ExitInv, LifeTypeOK, Budgeted, Life!StopSignal, Life!Alive, Life!Start,
         Life!BeginDrain, Life!config, Life!exchanges, Life!sockets, Life!outcome
<1>2. BootInv'
  BY DEF ExitInv, BootInv, Life!StopSignal, Life!Start, Life!BeginDrain
<1>3. DoorInv'
  BY DEF ExitInv, DoorInv, DoorShut, CutOff, Life!StopSignal, Life!Start, Life!config,
         Life!exchanges, Life!sockets
<1>4. ResultInv'
  BY DEF ExitInv, BootInv, DoorInv, ResultInv, CutOff, Life!StopSignal, Life!Alive, Life!Start,
         Life!BeginDrain, Life!config, Life!exchanges, Life!sockets, Life!outcome
<1>5. SignalInv'
  BY DEF ExitInv, SignalInv, ExitTellsRequests, CutOff, Life!StopSignal, Life!Alive, Life!Start,
         Life!exchanges
<1> QED
  BY <1>1, <1>2, <1>3, <1>4, <1>5 DEF ExitInv

LEMMA SecondSignalKeeps ==
  ASSUME ExitInv, Life!SecondSignal
  PROVE  ExitInv'
<1>1. LifeTypeOK'
  BY DEF ExitInv, LifeTypeOK, Budgeted, Life!SecondSignal, Life!Alive, Life!Leave,
         Life!AbortInFlight, Life!config, Life!stops, Life!sockets, Life!outcome
<1>2. BootInv'
  BY DEF ExitInv, BootInv, Life!SecondSignal, Life!stops
<1>3. DoorInv'
  BY DEF ExitInv, DoorInv, DoorShut, CutOff, Life!SecondSignal, Life!config, Life!sockets
<1>4. ResultInv'
  BY DEF ExitInv, ResultInv, CutOff, Life!SecondSignal, Life!Leave, Life!outcome
<1>5. SignalInv'
  BY DEF ExitInv, LifeTypeOK, DoorInv, ResultInv, SignalInv, ExitTellsRequests, CutOff,
         Life!SecondSignal, Life!Alive, Life!Leave, Life!AbortInFlight, Life!config, Life!stops,
         Life!sockets, Life!outcome
<1> QED
  BY <1>1, <1>2, <1>3, <1>4, <1>5 DEF ExitInv

LEMMA RecvDrainKeeps ==
  ASSUME ExitInv, Life!RecvDrain
  PROVE  ExitInv'
<1>1. LifeTypeOK'
  BY DEF ExitInv, LifeTypeOK, Budgeted, Life!RecvDrain, Life!Alive, Life!BeginDrain,
         Life!config, Life!exchanges, Life!sockets, Life!outcome
<1>2. BootInv'
  BY DEF ExitInv, BootInv, Life!RecvDrain, Life!BeginDrain
<1>3. DoorInv'
  BY DEF ExitInv, DoorInv, DoorShut, CutOff, Life!RecvDrain, Life!config, Life!exchanges,
         Life!sockets
<1>4. ResultInv'
  BY DEF ExitInv, ResultInv, CutOff, Life!RecvDrain, Life!exchanges, Life!outcome
<1>5. SignalInv'
  BY DEF ExitInv, SignalInv, ExitTellsRequests, CutOff, Life!RecvDrain, Life!Alive,
         Life!exchanges
<1> QED
  BY <1>1, <1>2, <1>3, <1>4, <1>5 DEF ExitInv

LEMMA RecvShutdownKeeps ==
  ASSUME ExitInv, Life!RecvShutdown
  PROVE  ExitInv'
<1>1. LifeTypeOK'
  <2>1. /\ latched' \in BOOLEAN /\ life' \in {"starting", "ready", "draining", "closed"}
        /\ phase' \in {"boot", "running", "shutting-down"}
        /\ stage' \in Budgeted \cup {"none", "delay", "flush"}
    BY DEF ExitInv, LifeTypeOK, Budgeted, Life!RecvShutdown, Life!Start, Life!BeginDrain
  <2>2. /\ asked' = TRUE
        /\ UNCHANGED <<role, bounded, boot, stopSignalled, condemned, sdReady, expired, listener,
                       wire, received, running, notified, cut, ws, sweeping, drained, cleaned,
                       way>>
    BY DEF Life!RecvShutdown, Life!config, Life!exchanges, Life!sockets, Life!outcome
  <2> QED
    BY <2>1, <2>2 DEF ExitInv, LifeTypeOK
<1>2. BootInv'
  BY DEF ExitInv, BootInv, Life!RecvShutdown, Life!Start, Life!BeginDrain
<1>3. DoorInv'
  BY DEF ExitInv, DoorInv, DoorShut, CutOff, Life!RecvShutdown, Life!Start, Life!config,
         Life!exchanges, Life!sockets
<1>4. ResultInv'
  BY DEF ExitInv, BootInv, DoorInv, ResultInv, CutOff, Life!RecvShutdown, Life!Alive,
         Life!Start, Life!BeginDrain, Life!config, Life!exchanges, Life!sockets, Life!outcome
<1>5. SignalInv'
  BY DEF ExitInv, SignalInv, ExitTellsRequests, CutOff, Life!RecvShutdown, Life!Alive,
         Life!Start, Life!exchanges
<1> QED
  BY <1>1, <1>2, <1>3, <1>4, <1>5 DEF ExitInv

LEMMA RecvTerminateKeeps ==
  ASSUME ExitInv, Life!RecvTerminate
  PROVE  ExitInv'
<1>1. LifeTypeOK'
  BY DEF ExitInv, LifeTypeOK, Budgeted, Life!RecvTerminate, Life!Alive, Life!Leave,
         Life!AbortInFlight, Life!config, Life!stops, Life!sockets, Life!outcome
<1>2. BootInv'
  BY DEF ExitInv, BootInv, Life!RecvTerminate, Life!stops
<1>3. DoorInv'
  BY DEF ExitInv, DoorInv, DoorShut, CutOff, Life!RecvTerminate, Life!config, Life!sockets
<1>4. ResultInv'
  BY DEF ExitInv, ResultInv, CutOff, Life!RecvTerminate, Life!Leave, Life!outcome
<1>5. SignalInv'
  BY DEF ExitInv, LifeTypeOK, DoorInv, ResultInv, SignalInv, ExitTellsRequests, CutOff,
         Life!RecvTerminate, Life!Alive, Life!Leave, Life!AbortInFlight, Life!config,
         Life!stops, Life!sockets, Life!outcome
<1> QED
  BY <1>1, <1>2, <1>3, <1>4, <1>5 DEF ExitInv

LEMMA DelayOverKeeps ==
  ASSUME ExitInv, Life!DelayOver
  PROVE  ExitInv'
<1>1. LifeTypeOK'
  BY DEF ExitInv, LifeTypeOK, Budgeted, Life!DelayOver, Life!Alive, Life!config, Life!stops,
         Life!exchanges, Life!sockets, Life!outcome
<1>2. BootInv'
  BY DEF ExitInv, BootInv, Life!DelayOver, Life!stops
<1>3. DoorInv'
  BY DEF ExitInv, DoorInv, DoorShut, CutOff, Life!DelayOver, Life!config, Life!exchanges,
         Life!sockets
<1>4. ResultInv'
  BY DEF ExitInv, ResultInv, CutOff, Life!DelayOver, Life!exchanges, Life!outcome
<1>5. SignalInv'
  BY DEF ExitInv, SignalInv, ExitTellsRequests, CutOff, Life!DelayOver, Life!Alive,
         Life!exchanges
<1> QED
  BY <1>1, <1>2, <1>3, <1>4, <1>5 DEF ExitInv

LEMMA ExpireKeeps ==
  ASSUME ExitInv, Life!Expire
  PROVE  ExitInv'
<1>1. LifeTypeOK'
  BY DEF ExitInv, LifeTypeOK, Budgeted, Life!Budgeted, Life!Expire, Life!Alive, Life!config,
         Life!stops, Life!exchanges, Life!sockets, Life!outcome
<1>2. BootInv'
  BY DEF ExitInv, BootInv, Life!Budgeted, Life!Expire, Life!stops
<1>3. DoorInv'
  BY DEF ExitInv, DoorInv, DoorShut, CutOff, Life!Budgeted, Life!Expire, Life!config,
         Life!exchanges, Life!sockets
<1>4. ResultInv'
  BY DEF ExitInv, ResultInv, CutOff, Life!Budgeted, Life!Expire, Life!exchanges, Life!outcome
<1>5. SignalInv'
  BY DEF ExitInv, SignalInv, ExitTellsRequests, CutOff, Life!Budgeted, Life!Expire, Life!Alive,
         Life!exchanges
<1> QED
  BY <1>1, <1>2, <1>3, <1>4, <1>5 DEF ExitInv

LEMMA CloseDoorKeeps ==
  ASSUME ExitInv, Life!CloseDoor
  PROVE  ExitInv'
<1>1. LifeTypeOK'
  BY DEF ExitInv, LifeTypeOK, Budgeted, Life!CloseDoor, Life!Alive, Life!config, Life!stops,
         Life!exchanges, Life!sockets, Life!outcome
<1>2. BootInv'
  BY DEF ExitInv, BootInv, Life!CloseDoor, Life!stops
<1>3. DoorInv'
  BY DEF ExitInv, DoorInv, DoorShut, CutOff, Life!CloseDoor, Life!config, Life!exchanges,
         Life!sockets
<1>4. ResultInv'
  BY DEF ExitInv, ResultInv, CutOff, Life!CloseDoor, Life!exchanges, Life!outcome
<1>5. SignalInv'
  BY DEF ExitInv, SignalInv, ExitTellsRequests, CutOff, Life!CloseDoor, Life!Alive,
         Life!exchanges
<1> QED
  BY <1>1, <1>2, <1>3, <1>4, <1>5 DEF ExitInv

LEMMA ListenerWaitedKeeps ==
  ASSUME ExitInv, Life!ListenerWaited
  PROVE  ExitInv'
<1>1. LifeTypeOK'
  BY DEF ExitInv, LifeTypeOK, Budgeted, Life!ListenerWaited, Life!Alive, Life!config,
         Life!stops, Life!exchanges, Life!sockets
<1>2. BootInv'
  BY DEF ExitInv, BootInv, Life!ListenerWaited, Life!stops
<1>3. DoorInv'
  BY DEF ExitInv, DoorInv, DoorShut, CutOff, Life!ListenerWaited, Life!config, Life!exchanges,
         Life!sockets
<1>4. ResultInv'
  BY DEF ExitInv, ResultInv, CutOff, Life!ListenerWaited, Life!exchanges
<1>5. SignalInv'
  BY DEF ExitInv, SignalInv, ExitTellsRequests, CutOff, Life!ListenerWaited, Life!Alive,
         Life!exchanges
<1> QED
  BY <1>1, <1>2, <1>3, <1>4, <1>5 DEF ExitInv

LEMMA CleanupDoneKeeps ==
  ASSUME ExitInv, Life!CleanupDone
  PROVE  ExitInv'
<1>1. LifeTypeOK'
  BY ZenonT(60) DEF ExitInv, LifeTypeOK, Budgeted, Life!CleanupDone, Life!Alive, Life!AbortInFlight,
         Life!config, Life!stops, Life!sockets
<1>2. BootInv'
  BY DEF ExitInv, BootInv, Life!CleanupDone, Life!stops
<1>3. DoorInv'
  BY DEF ExitInv, DoorInv, DoorShut, CutOff, Life!CleanupDone, Life!config, Life!sockets
<1>4. ResultInv'
  BY DEF ExitInv, ResultInv, CutOff, Life!CleanupDone
<1>5. SignalInv'
  BY DEF ExitInv, LifeTypeOK, DoorInv, ResultInv, SignalInv, ExitTellsRequests, CutOff,
         Life!CleanupDone, Life!Alive, Life!AbortInFlight, Life!config, Life!stops,
         Life!sockets
<1> QED
  BY <1>1, <1>2, <1>3, <1>4, <1>5 DEF ExitInv

LEMMA FlushKeeps ==
  ASSUME ExitInv, Life!Flush
  PROVE  ExitInv'
<1>1. LifeTypeOK'
  BY DEF ExitInv, LifeTypeOK, Budgeted, Life!Flush, Life!Alive, Life!config, Life!stops,
         Life!exchanges, Life!sockets, Life!outcome
<1>2. BootInv'
  BY DEF ExitInv, BootInv, Life!Flush, Life!stops
<1>3. DoorInv'
  BY DEF ExitInv, DoorInv, DoorShut, CutOff, Life!Flush, Life!config, Life!exchanges,
         Life!sockets
<1>4. ResultInv'
  BY DEF ExitInv, ResultInv, CutOff, Life!Flush, Life!exchanges, Life!outcome
<1>5. SignalInv'
  BY DEF ExitInv, SignalInv, ExitTellsRequests, CutOff, Life!Flush, Life!Alive, Life!exchanges
<1> QED
  BY <1>1, <1>2, <1>3, <1>4, <1>5 DEF ExitInv

\* What is in flight is the same thing for the steps and for the promises.
LEMMA SameSets == Life!InFlight = InFlight /\ Life!Connections = Connections
  BY DEF Life!InFlight, InFlight, Life!Connections, Connections

\* The exchanges in flight, one by one.
LEMMA InFlightIsOpen ==
  /\ InFlight = {} <=> \A r \in Request : wire[r] # "open"
  /\ \A r \in Request : InFlight = {r} => \A q \in Request \ {r} : wire[q] # "open"
  BY DEF InFlight

LEMMA ArriveKeeps ==
  ASSUME ExitInv, NEW r \in Request, Life!Arrive(r)
  PROVE  ExitInv'
<1>1. LifeTypeOK'
  BY DEF ExitInv, LifeTypeOK, Budgeted, Life!Arrive, Life!Alive, Life!config, Life!stops,
         Life!sockets, Life!outcome
<1>2. BootInv'
  BY DEF ExitInv, BootInv, Life!Arrive, Life!config, Life!stops
<1>3. /\ wire \in [Request -> {"none", "open", "gone"}]
      /\ wire[r] = "none" /\ wire' = [wire EXCEPT ![r] = "open"]
      /\ running' = running \cup {r}
      /\ UNCHANGED <<role, stage, listener, ws, notified, cut, way>>
  BY DEF ExitInv, LifeTypeOK, Life!Arrive, Life!config, Life!sockets
<1>4. /\ listener \in {"listening", "closing"}
      /\ listener = "closing" => ~(\A q \in Request : wire[q] # "open")
  BY InFlightIsOpen, SameSets DEF Life!Arrive
<1>5. DoorInv'
  BY <1>3, <1>4 DEF ExitInv, DoorInv, DoorShut, CutOff
<1>6. ResultInv'
  BY DEF ExitInv, ResultInv, Life!Arrive, Life!outcome
<1>7. stage # "flush"
  BY <1>4 DEF ExitInv, DoorInv, DoorShut, CutOff
<1>8. way = "alive"
  BY DEF Life!Arrive, Life!Alive
<1>9. SignalInv'
  <2>1. /\ \A q \in Request : wire'[q] = IF q = r THEN "open" ELSE wire[q]
        /\ cut \subseteq Request /\ running \subseteq Request
    BY <1>3 DEF ExitInv, LifeTypeOK
  <2> QED
    BY <1>3, <1>7, <1>8, <2>1 DEF ExitInv, SignalInv, ExitTellsRequests
<1> QED
  BY <1>1, <1>2, <1>5, <1>6, <1>9 DEF ExitInv

\* The exchange that ends leaves the wire; the last one of a drain ends it.
LEMMA EndedKeepsDoor ==
  ASSUME ExitInv, NEW r \in Request, wire[r] = "open", wire' = Life!Gone({r}),
         NEW t, Life!Ended(r, t),
         UNCHANGED <<role, listener, ws>>
  PROVE  DoorInv'
<1>1. \A q \in Request : wire'[q] = IF q = r THEN "gone" ELSE wire[q]
  BY DEF Life!Gone
<1>2. \/ UNCHANGED stage
      \/ /\ stage = "requests" /\ stage' = IF role = "compute" THEN "cleanup" ELSE "listener"
         /\ \A q \in Request \ {r} : wire[q] # "open"
  BY InFlightIsOpen, SameSets DEF Life!Ended
<1>3. \A q \in Request : wire[q] # "open" => wire'[q] # "open"
  BY <1>1
<1> QED
  BY <1>1, <1>2, <1>3 DEF ExitInv, DoorInv, DoorShut, CutOff

LEMMA BodyArrivesKeeps ==
  ASSUME ExitInv, NEW r \in Request, Life!BodyArrives(r)
  PROVE  ExitInv'
<1>1. LifeTypeOK'
  BY DEF ExitInv, LifeTypeOK, Budgeted, Life!BodyArrives, Life!Alive, Life!config, Life!stops,
         Life!sockets, Life!outcome
<1>2. BootInv'
  BY DEF ExitInv, BootInv, Life!BodyArrives, Life!stops
<1>3. DoorInv'
  BY DEF ExitInv, DoorInv, DoorShut, CutOff, Life!BodyArrives, Life!config, Life!sockets
<1>4. ResultInv'
  BY DEF ExitInv, ResultInv, CutOff, Life!BodyArrives, Life!outcome
<1>5. SignalInv'
  BY DEF ExitInv, SignalInv, ExitTellsRequests, CutOff, Life!BodyArrives, Life!Alive
<1> QED
  BY <1>1, <1>2, <1>3, <1>4, <1>5 DEF ExitInv

LEMMA AnswerKeeps ==
  ASSUME ExitInv, NEW r \in Request, Life!Answer(r)
  PROVE  ExitInv'
<1>1. LifeTypeOK'
  BY ZenonT(60) DEF ExitInv, LifeTypeOK, Budgeted, Life!Answer, Life!Alive, Life!Gone, Life!Ended,
         Life!AbortInFlight, Life!config, Life!stops, Life!sockets
<1>2. BootInv'
  BY DEF ExitInv, BootInv, Life!Answer, Life!Ended, Life!stops
<1>3. DoorInv'
  BY EndedKeepsDoor DEF Life!Answer, Life!config, Life!sockets
<1>4. ResultInv'
  BY DEF ExitInv, BootInv, DoorInv, ResultInv, CutOff, Life!Answer, Life!Alive, Life!Gone,
         Life!Ended, Life!AbortInFlight, Life!config, Life!stops, Life!sockets
<1>5. SignalInv'
  BY DEF ExitInv, LifeTypeOK, DoorInv, ResultInv, SignalInv, ExitTellsRequests, CutOff,
         Life!Answer, Life!Alive, Life!Gone, Life!Ended, Life!AbortInFlight, Life!config,
         Life!stops, Life!sockets
<1> QED
  BY <1>1, <1>2, <1>3, <1>4, <1>5 DEF ExitInv

LEMMA DisconnectKeeps ==
  ASSUME ExitInv, NEW r \in Request, Life!Disconnect(r)
  PROVE  ExitInv'
<1>1. LifeTypeOK'
  BY ZenonT(60) DEF ExitInv, LifeTypeOK, Budgeted, Life!Disconnect, Life!Alive, Life!Disconnected,
         Life!Gone, Life!Ended, Life!AbortInFlight, Life!config, Life!stops, Life!sockets
<1>2. BootInv'
  BY DEF ExitInv, BootInv, Life!Disconnect, Life!Ended, Life!stops
<1>3. DoorInv'
  BY EndedKeepsDoor DEF Life!Disconnect, Life!config, Life!sockets
<1>4. ResultInv'
  BY DEF ExitInv, BootInv, DoorInv, ResultInv, CutOff, Life!Disconnect, Life!Alive,
         Life!Disconnected, Life!Gone, Life!Ended, Life!AbortInFlight, Life!config, Life!stops,
         Life!sockets
<1>5. SignalInv'
  BY DEF ExitInv, LifeTypeOK, DoorInv, ResultInv, SignalInv, ExitTellsRequests, CutOff,
         Life!Disconnect, Life!Alive, Life!Disconnected, Life!Gone, Life!Ended,
         Life!AbortInFlight, Life!config, Life!stops, Life!sockets
<1> QED
  BY <1>1, <1>2, <1>3, <1>4, <1>5 DEF ExitInv

LEMMA HandlerReturnsKeeps ==
  ASSUME ExitInv, NEW r \in Request, Life!HandlerReturns(r)
  PROVE  ExitInv'
<1>1. LifeTypeOK'
  BY DEF ExitInv, LifeTypeOK, Budgeted, Life!HandlerReturns, Life!Alive, Life!config,
         Life!stops, Life!sockets, Life!outcome
<1>2. BootInv'
  BY DEF ExitInv, BootInv, Life!HandlerReturns, Life!stops
<1>3. DoorInv'
  BY DEF ExitInv, DoorInv, DoorShut, CutOff, Life!HandlerReturns, Life!config, Life!sockets
<1>4. ResultInv'
  BY DEF ExitInv, ResultInv, CutOff, Life!HandlerReturns, Life!outcome
<1>5. SignalInv'
  BY DEF ExitInv, SignalInv, ExitTellsRequests, CutOff, Life!HandlerReturns, Life!Alive
<1> QED
  BY <1>1, <1>2, <1>3, <1>4, <1>5 DEF ExitInv

\* Cutting the exchanges off: whoever is still on the wire has heard of the
\* shutdown before the wire is cut, and nobody's notice is taken back.
LEMMA CutTells ==
  ASSUME ExitInv, Life!Cut(InFlight)
  PROVE  /\ wire' \in [Request -> {"none", "open", "gone"}]
         /\ notified' \in [Request -> {"nobody", "disconnect", "shutdown"}]
         /\ \A r \in Request : wire'[r] = IF wire[r] = "open" THEN "gone" ELSE wire[r]
         /\ \A r \in Request : wire[r] = "open" => notified'[r] = "shutdown"
         /\ \A r \in Request : notified'[r] = notified[r] \/ notified'[r] = "shutdown"
         /\ \A r \in Request : notified[r] # "nobody" => notified'[r] = notified[r]
         /\ cut' = cut \cup {r \in Request : wire[r] = "open"}
         /\ drained' \in BOOLEAN /\ (drained' <=> InFlight = {})
         /\ stage' = IF role = "compute" THEN "cleanup" ELSE "listener"
<1> DEFINE t == Life!AbortInFlight(notified)
<1>1. /\ t \in [Request -> {"nobody", "disconnect", "shutdown"}]
      /\ \A r \in Request :
            t[r] = IF r \in running /\ notified[r] = "nobody" THEN "shutdown" ELSE notified[r]
  BY DEF ExitInv, LifeTypeOK, Life!AbortInFlight
<1>2. notified' = Life!Disconnected(t, InFlight)
  BY DEF Life!Cut
<1>3. /\ notified' = [r \in Request |->
               IF r \in (InFlight \cap running) \ received /\ t[r] = "nobody"
               THEN "disconnect" ELSE t[r]]
  BY <1>2 DEF Life!Disconnected
<1> HIDE DEF t
<1>4. \A r \in Request : notified'[r] = t[r]
  BY <1>1, <1>3
<1>5. notified' \in [Request -> {"nobody", "disconnect", "shutdown"}]
  BY <1>1, <1>3
<1>6. \A r \in Request : wire[r] = "open" => r \in running /\ notified[r] # "disconnect"
  BY DEF ExitInv, SignalInv
<1>7. \A r \in Request : notified[r] \in {"nobody", "disconnect", "shutdown"}
  BY DEF ExitInv, LifeTypeOK
<1>8. \A r \in Request : wire[r] = "open" => notified'[r] = "shutdown"
  BY <1>1, <1>4, <1>6, <1>7
<1>9. /\ \A r \in Request : notified'[r] = notified[r] \/ notified'[r] = "shutdown"
      /\ \A r \in Request : notified[r] # "nobody" => notified'[r] = notified[r]
  BY <1>1, <1>4
<1>10. wire \in [Request -> {"none", "open", "gone"}]
  BY DEF ExitInv, LifeTypeOK
<1>11. wire' = [r \in Request |-> IF wire[r] = "open" THEN "gone" ELSE wire[r]]
  BY DEF Life!Cut, Life!Gone, InFlight
<1>12. /\ wire' \in [Request -> {"none", "open", "gone"}]
       /\ \A r \in Request : wire'[r] = IF wire[r] = "open" THEN "gone" ELSE wire[r]
  BY <1>10, <1>11
<1>13. /\ cut' = cut \cup {r \in Request : wire[r] = "open"}
       /\ drained' = (InFlight = {})
       /\ stage' = IF role = "compute" THEN "cleanup" ELSE "listener"
  BY DEF Life!Cut, InFlight
<1> QED
  BY <1>5, <1>8, <1>9, <1>12, <1>13

\* What is left to check of a step that cuts the exchanges off.
LEMMA CutKeeps ==
  ASSUME ExitInv, Life!Cut(InFlight), stage \in {"sockets", "requests"}, way = "alive",
         ws' \in [Socket -> {"none", "admitting", "open", "closing", "gone"}],
         \A c \in Socket : ws[c] \in {"none", "gone"} => ws'[c] = ws[c],
         UNCHANGED <<role, bounded, boot, life, phase, latched, stopSignalled, condemned, asked,
                     sdReady, expired, listener, received, running, sweeping, cleaned, way>>
  PROVE  ExitInv'
<1>1. LifeTypeOK'
  <2>1. cut' \subseteq Request
    BY CutTells DEF ExitInv, LifeTypeOK
  <2> QED
    BY CutTells, <2>1 DEF ExitInv, LifeTypeOK, Budgeted
<1>2. BootInv'
  BY CutTells DEF ExitInv, BootInv
<1>3. DoorInv'
  BY CutTells DEF ExitInv, DoorInv, DoorShut, CutOff
<1>4. ResultInv'
  <2>1. cut = {}
    BY DEF ExitInv, ResultInv, CutOff
  <2>2. drained' => cut' = {}
    BY CutTells, InFlightIsOpen, <2>1
  <2>3. stage' \in CutOff /\ (stage' = "cleanup" => role = "compute") /\ stage' # "flush"
    BY CutTells DEF CutOff
  <2> QED
    BY <2>2, <2>3 DEF ExitInv, ResultInv, DoorInv
<1>5. SignalInv'
  <2>1. cut = {} /\ running \subseteq Request
    BY DEF ExitInv, ResultInv, CutOff, LifeTypeOK
  <2>2. /\ \A r \in cut' : r \in Request /\ wire'[r] = "gone" /\ notified'[r] = "shutdown"
        /\ \A r \in Request : wire'[r] # "open"
    BY CutTells, <2>1
  <2>3. stage' # "flush"
    BY CutTells
  <2>4. \A r \in running : wire'[r] # "none"
    BY CutTells, <2>1 DEF ExitInv, SignalInv
  <2>5. \A r \in Request : wire'[r] # "gone" => notified'[r] # "disconnect"
    BY CutTells DEF ExitInv, SignalInv
  <2> QED
    BY <2>2, <2>3, <2>4, <2>5 DEF SignalInv, ExitTellsRequests
<1> QED
  BY <1>1, <1>2, <1>3, <1>4, <1>5 DEF ExitInv

LEMMA DrainAbandonedKeeps ==
  ASSUME ExitInv, Life!DrainAbandoned
  PROVE  ExitInv'
<1>1. ws \in [Socket -> {"none", "admitting", "open", "closing", "gone"}]
  BY DEF ExitInv, LifeTypeOK
<1> QED
  BY CutKeeps, SameSets, <1>1
  DEF Life!DrainAbandoned, Life!Alive, Life!config, Life!stops, Life!sockets

LEMMA SocketsDoneKeeps ==
  ASSUME ExitInv, Life!SocketsDone
  PROVE  ExitInv'
<1>1. /\ way = "alive" /\ stage = "sockets"
      /\ UNCHANGED <<role, bounded, boot, life, phase, latched, stopSignalled, condemned, asked,
                     sdReady, expired, listener, received, running, sweeping, cleaned, way>>
  BY DEF Life!SocketsDone, Life!Alive, Life!config, Life!stops
<1>2. ws' = [c \in Socket |-> IF ws[c] \in {"open", "closing"} THEN "gone" ELSE ws[c]]
  BY SameSets DEF Life!SocketsDone, Connections
<1>3. ws \in [Socket -> {"none", "admitting", "open", "closing", "gone"}]
  BY DEF ExitInv, LifeTypeOK
<1>4. /\ ws' \in [Socket -> {"none", "admitting", "open", "closing", "gone"}]
      /\ \A c \in Socket : ws[c] \in {"none", "gone"} => ws'[c] = ws[c]
  BY <1>2, <1>3
<1>5. CASE Life!Cut(InFlight)
  BY CutKeeps, <1>1, <1>4, <1>5
<1>6. CASE stage' = "requests" /\ UNCHANGED <<drained, notified, wire, cut>>
  <2>1. LifeTypeOK'
    BY <1>1, <1>4, <1>6 DEF ExitInv, LifeTypeOK, Budgeted
  <2>2. BootInv'
    BY <1>1, <1>6 DEF ExitInv, BootInv
  <2>3. DoorInv'
    BY <1>1, <1>4, <1>6 DEF ExitInv, DoorInv, DoorShut, CutOff
  <2>4. ResultInv'
    BY <1>1, <1>6 DEF ExitInv, ResultInv, CutOff
  <2>5. SignalInv'
    BY <1>1, <1>6 DEF ExitInv, SignalInv, ExitTellsRequests
  <2> QED
    BY <2>1, <2>2, <2>3, <2>4, <2>5 DEF ExitInv
<1> QED
  BY <1>5, <1>6, SameSets DEF Life!SocketsDone

LEMMA ListenerSettlesKeeps ==
  ASSUME ExitInv, Life!ListenerSettles
  PROVE  ExitInv'
<1>1. /\ listener = "closing" /\ listener' = "closed" /\ way = "alive"
      /\ UNCHANGED <<role, bounded, boot, life, phase, latched, stopSignalled, condemned, asked,
                     sdReady, stage, expired, wire, received, running, notified, cut, ws,
                     sweeping, drained, cleaned, way>>
  BY DEF Life!ListenerSettles, Life!Alive, Life!config, Life!stops, Life!exchanges,
         Life!sockets, Life!outcome
<1>2. \A r \in Request : wire[r] # "open"
  BY InFlightIsOpen, SameSets DEF Life!ListenerSettles
<1>3. \A c \in Socket : ws[c] \notin {"admitting", "open", "closing"}
  BY SameSets DEF Life!ListenerSettles, Connections
<1>4. \A c \in Socket : ws[c] \in {"none", "gone"}
  BY <1>3 DEF ExitInv, LifeTypeOK
<1>5. LifeTypeOK'
  BY <1>1 DEF ExitInv, LifeTypeOK
<1>6. BootInv'
  BY <1>1 DEF ExitInv, BootInv
<1>7. DoorInv'
  BY <1>1, <1>2, <1>4 DEF ExitInv, DoorInv, DoorShut
<1>8. ResultInv'
  BY <1>1 DEF ExitInv, ResultInv
<1>9. SignalInv'
  BY <1>1 DEF ExitInv, SignalInv, ExitTellsRequests
<1> QED
  BY <1>5, <1>6, <1>7, <1>8, <1>9 DEF ExitInv

\* A WebSocket connection moves.
LEMMA WsStepKeeps ==
  ASSUME ExitInv, NEW c \in Socket, Life!Upgrade(c) \/ Life!Admit(c) \/ Life!WsGone(c)
  PROVE  ExitInv'
<1>1. PICK to \in {"admitting", "open", "closing", "gone"} :
        /\ ws' = [ws EXCEPT ![c] = to]
        /\ \/ to = "admitting" /\ listener = "listening"
           \/ ws[c] \in {"admitting", "open", "closing"}
  BY DEF Life!Upgrade, Life!Admit, Life!WsGone, Life!WsStep
<1>2. /\ way = "alive"
      /\ UNCHANGED <<role, bounded, boot, life, phase, latched, stopSignalled, condemned, asked,
                     sdReady, stage, expired, listener, wire, received, running, notified, cut,
                     sweeping, drained, cleaned, way>>
  BY DEF Life!Upgrade, Life!Admit, Life!WsGone, Life!WsStep, Life!Alive, Life!config,
         Life!stops, Life!exchanges, Life!outcome
<1>3. LifeTypeOK'
  BY <1>1, <1>2 DEF ExitInv, LifeTypeOK
<1>4. BootInv'
  BY <1>2 DEF ExitInv, BootInv
<1>5. listener \notin {"unbound", "closed"}
  BY <1>1 DEF ExitInv, DoorInv
<1>6. DoorInv'
  BY <1>2, <1>5 DEF ExitInv, DoorInv
<1>7. ResultInv'
  BY <1>2 DEF ExitInv, ResultInv
<1>8. SignalInv'
  BY <1>2 DEF ExitInv, SignalInv, ExitTellsRequests
<1> QED
  BY <1>3, <1>4, <1>6, <1>7, <1>8 DEF ExitInv

LEMMA ExitInvHoldsAtTheStart ==
  ASSUME Life!Init
  PROVE  ExitInv
  BY DEF Life!Init, ExitInv, LifeTypeOK, BootInv, DoorInv, ResultInv, SignalInv,
         ExitTellsRequests, DoorShut, CutOff, Budgeted

LEMMA ExitInvIsKept ==
  ASSUME ExitInv, [Life!Next]_(Life!vars)
  PROVE  ExitInv'
<1>1. CASE Life!Progress
  BY <1>1, DelayOverKeeps, ExpireKeeps, CloseDoorKeeps, SocketsDoneKeeps, DrainAbandonedKeeps,
     ListenerSettlesKeeps, ListenerWaitedKeeps, CleanupDoneKeeps, FlushKeeps
  DEF Life!Progress, Life!HookAbandoned
<1>2. CASE Life!Import \/ Life!Bind \/ Life!BootDone \/ Life!Crash \/ Life!WorkerFails
  BY <1>2, ImportKeeps, BindKeeps, BootDoneKeeps, CrashKeeps, WorkerFailsKeeps
<1>3. CASE Life!LatchSignal \/ Life!StopSignal \/ Life!SecondSignal
  BY <1>3, LatchSignalKeeps, StopSignalKeeps, SecondSignalKeeps
<1>4. CASE Life!RecvDrain \/ Life!RecvShutdown \/ Life!RecvTerminate
  BY <1>4, RecvDrainKeeps, RecvShutdownKeeps, RecvTerminateKeeps
<1>5. CASE Life!HookSettles \/ Life!CleanupDone
  BY <1>5, CloseDoorKeeps, CleanupDoneKeeps DEF Life!HookSettles
<1>6. ASSUME NEW r \in Request,
             \/ Life!Arrive(r) \/ Life!BodyArrives(r) \/ Life!Answer(r)
             \/ Life!Disconnect(r) \/ Life!HandlerReturns(r)
      PROVE  ExitInv'
  BY <1>6, ArriveKeeps, BodyArrivesKeeps, AnswerKeeps, DisconnectKeeps, HandlerReturnsKeeps
<1>7. ASSUME NEW c \in Socket, Life!Upgrade(c) \/ Life!Admit(c) \/ Life!WsGone(c)
      PROVE  ExitInv'
  BY <1>7, WsStepKeeps
<1>8. CASE UNCHANGED Life!vars
  BY <1>8 DEF Life!vars, Life!config, Life!stops, Life!exchanges, Life!sockets, Life!outcome,
     ExitInv, LifeTypeOK, BootInv, DoorInv, ResultInv, SignalInv, ExitTellsRequests
<1> QED
  BY <1>1, <1>2, <1>3, <1>4, <1>5, <1>6, <1>7, <1>8 DEF Life!Next

LEMMA ExitInvPromises ==
  ASSUME ExitInv
  PROVE  OrderlyStop
<1>1. StopIsFinal
  BY DEF ExitInv, BootInv, StopIsFinal
<1>2. CleanMeansNothingLost
  <2> SUFFICES ASSUME way = "graceful", drained
               PROVE  /\ cut = {} /\ InFlight = {}
                      /\ \A c \in Socket : ws[c] \in {"none", "gone"}
    BY DEF CleanMeansNothingLost
  <2>1. cut = {} /\ stage = "flush" /\ listener \in {"unbound", "closed"}
    BY DEF ExitInv, ResultInv
  <2>2. \A r \in Request : wire[r] # "open"
    BY <2>1 DEF ExitInv, DoorInv, CutOff
  <2>3. \A c \in Socket : ws[c] \in {"none", "gone"}
    BY <2>1 DEF ExitInv, DoorInv
  <2> QED
    BY <2>1, <2>2, <2>3, InFlightIsOpen
<1> QED
  BY <1>1, <1>2 DEF ExitInv, SignalInv, OrderlyStop

\* A stop is final, is called clean only when nothing was lost, and reaches
\* every request before it is cut off: in every interleaving of the boot, the
\* signals, the requests and the sockets, of which there may be any number
\* (performShutdown of index.js, runShutdown of handler.js).
THEOREM StopsAreOrderly == Life!Spec => []OrderlyStop
<1>1. Life!Init => ExitInv
  BY ExitInvHoldsAtTheStart
<1>2. ExitInv /\ [Life!Next]_(Life!vars) => ExitInv'
  BY ExitInvIsKept
<1>3. ExitInv => OrderlyStop
  BY ExitInvPromises
<1> QED
  BY <1>1, <1>2, <1>3, PTL DEF Life!Spec

=============================================================================
