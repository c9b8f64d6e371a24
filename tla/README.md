# A TLA+ development of svelte-adapter-ws

This directory holds TLA+ models of the adapter's runtime, TLC configurations
that check them on small instances, and TLAPS proofs of results that hold for
every value of the constants. Paths below are relative to the repository
(`src/runtime/…`); line numbers are those of the commit the models were written
from. `PROJECT.json` maps every definition to its lines.

Contents: 1 the system, 2 what is modelled, 3 runs, 4 disagreements with the
text of the repository, 5 fairness, 6 proofs, 7 what is only model-checked,
8 what is not modelled, 9 the plan.

## 1. The system

The adapter turns a SvelteKit application into a Node process that serves HTTP
and WebSocket traffic. It runs as one process, or as a primary with worker
threads ("io" workers listen, "compute" workers do not). Topics are published to
the local subscribers and relayed to the other threads.

    primary (index.js) ── restart-supervisor, worker-watchdog, relay-spill-policy
       │  heartbeat, drain, shutdown, terminate          ▲ ready, relay-attached,
       ▼                                                 │ heartbeat-ack, exit
    worker thread (index.js ▸ handler.js ▸ handler/lifecycle.js)
       │ publish ▸ handler/relay.js ▸ up-ring ▸ primary ▸ down-rings ▸ handler/state.js
       ▼
    HTTP request ▸ handler/request.js, ssr.js      WebSocket ▸ handler/realtime.js ▸ plugins

### Components, state, operations, what is hard, what makes them correct

| component | state | operations | hard because | correct when |
|---|---|---|---|---|
| restart supervisor (`restart-supervisor.js`) | per slot: live, spawning, respawn timer, attempts, delay, readyAt | noteSpawn, noteReady, noteExit, reconcile, stopAll | slots interleave; a budget can be reset by a brief ready | every slot in exactly one account; a flapper exhausts its budget |
| cluster primary (`index.js` 560-1330, `worker-watchdog.js`, `relay-spill-policy.js`) | a meta per thread (spawnedAt, lastHeartbeat, ready, relayAttached, exit_requested), grace timers, shutdown phase | spawn, sweep, message and exit handlers, retire, signals, backstop | wedged or lost workers, signals at any moment, timers of several parties racing | accounts match the fleet; only faulty workers are ended; a shutdown ends with the right exit code |
| relay ring (`relay-ring.js`) | shared positions and bytes; the writer's spill, snapshot and age; the reader's remainder; two `waitAsync` waits | write, flush, age timer, drain, close on both sides | two threads without a lock; positions modulo 2^32; a notification can come before the wait is registered | it is a FIFO stream of whole frames; nothing sleeps through work; a dead peer is reported |
| relay sender and audit (`handler/relay.js`, `handler/state.js` 404-871) | a batch deferred by one tick; ordinal per topic; per origin a watermark, exact ordinals and ranges above a hole, the hole's age, a forgotten floor | batchRelay, flush, relayBatched, recordOriginStream, takeConfirmedGaps, markRelayAttached | two lanes reorder; the record is bounded; a false report restarts a healthy worker | reports name lost frames only, none twice, none skipped |
| thread lifecycle (`index.js` 1334-1887, `handler.js`, `handler/lifecycle.js`, `app-shutdown-hook.js`) | boot progress, lifecycle state, latched signal, boot backlog, budget, in-flight exchanges and their AbortControllers, sockets being drained | start, drain, shutdown, terminate, request begin and end, upgrade | a stop lands inside any await of the boot; one budget is shared by six awaits | no readiness after a stop; requests are told before they are cut; a clean ending lost nothing; the end comes within the budget |
| lock plugin (`plugins/lock/server.js`) | key → state object (running, queue); timers | withLock, hand-over, timeout, clear | the hand-over runs in another call's `finally`; state objects outlive their entries | mutual exclusion, FIFO, no orphaned waiter, no leaked key |
| queue plugin (`plugins/queue/server.js`) | key → items, running, drains, place in the service line; totals | push, schedule, pump, settle, cleanup, clear, drain | incremental accounts, a lazily maintained line, callbacks in any order | accounts exact, no forgotten or starving key, drains never early |
| subscription protocol (`handler/realtime.js`, `handler/platform.js`, `utils/ws-symbols.js`, `utils/subscribe-policy.js`) | per connection: native and logical memberships, the pending record with its tokens, held and granted topics, the grant gate | subscribe, batch, unsubscribe, platform and plugin calls, revocation, arming, close | two hooks are awaited in the middle of an operation while every other one may touch the topic | the books agree; an acknowledgement is the truth; a landing acts on the present |
| sequences and their bound (`utils/seq-bound.js`, `utils/epoch.js`, `handler/state.js`, `handler/seq-bound.js`) | counters, observed maxima, floors, high-water mark, back-off, the reporter's verdicts | publish, observe, evict, report | eviction against reuse of a number, hash collisions, a verdict that ages | numbers never repeat; an eviction is justified |
| resume capture (`handler/resume-buffer.js`, `handler/state.js`, `handler/realtime.js`) | an entry per capture: frames, overflow, the number before the window | begin, capture, flush, discard | publishes during the awaited hook; a bounded buffer; a socket that refuses | a recovered client has every frame, or is told |
| upgrade admission (`utils/upgrade-admission.js`, `utils/connection-permit.js`) | counters, permits, the deferral ring, the tick's budget | acquire, admit, defer, drain, release | a hook, a deferral, a destroyed socket and a close each give things back | every counter is what is held; nobody waits for ever |
| message admission (`utils/message-admission.js`) | permits, the bounded queue | enter, release, close | a release drains the queue a close takes entries out of | permits exact, no capacity idle |
| browser client (`client.js`) | socket, timers with generations, preflight, attempt counter, status store; topics used, refused and recovering, an offset per topic | connect, close, pause, browser events, socket events; subscribe, release, unsubscribe, retry, dispatch | events of an earlier socket, timer or ask arrive late; subscribers call back; live frames overtake a tail that is owed | exactly one way on; retries counted once; both sides agree on the topics; an offset passes no missing frame |
| throttle plugin (`plugins/throttle/server.js`) | per topic a timer and a pending value | publish, tick, flush, cancel, evict | eviction and flush against the timer; a publish that throws | the newest value goes out, once per interval |
| groups plugin (`plugins/groups`) | members with roles; the roster on each client | join, leave, close | the admission hook calls back; the socket may be gone | rosters are the membership |
| presence plugin (`plugins/presence`) | per socket its topics, per topic its users with their sockets counted, observers, net changes of a tick; the roster on each client | join, leave, sync, update, flush, heartbeat; diff, sweep | a user has several sockets and a socket two roles; changes collapse; eviction; publishes that throw | what a client shows is the roster |
| crdt plugin (`plugins/crdt/replica.js`, `channel.js`) | a record per document, a chain of stores, flushes; a channel per client | acquire, release, update, store, flush, drop; sync, retry, gap check | stores fail, are abandoned or answer late; frames are lost on a connection that drops | no edit is lost; both sides converge |
| detectors and collectors (`state-hash-detector.js`, `metrics-collector.js`, `posture-collector.js`) | epoch buckets; one outstanding collection | report, judge, scatter, gather, worker exit | workers come and go inside an epoch or collection | a verdict is about workers that were all there |
| other plugins (dedup, session, replay, ratelimit, webhooks, cursor, smooth, channels, middleware) | one map each, mostly with timers and eviction | see `PROJECT.json` | eviction and timers racing the application | see sections 8 and 9 |
| the rest: SSR, static assets, warmup, codecs, TLS reload, tracing, diagnostics, build, dev server | | | pure, I/O or sequential | out of scope, see section 8 |

`PROJECT.json` lists all of them with their sources, and under `hazards` each
place where this code is hard to test, with the properties that watch it.

## 2. What is modelled

A JavaScript thread runs one task at a time, so a task, with every chain of
calls in it, is one step, except where another *thread* can see in between (the
ring, whose steps are single accesses to shared memory) and where a
synchronous loop is worth unrolling (the queue's scheduler, whose `turn` keeps
every other action out until it is idle).

### WorkerSlots and RestartSupervisor — `src/runtime/restart-supervisor.js`
`WorkerSlots` is the supervisor's state with the accounts it promises, which the primary
shares; `RestartSupervisor` has the operations.
`live`, `spawning`, `pending`, `attempts`, `delay` are the supervisor's maps;
`uptime` stands for `readyAt`. `NoteSpawn`, `NoteReady`, `NoteExit`, `Sweep`
(reconcile) and `StopAll` are its methods; the actions of `Next` are the calls
made of them, and `TimerFires` is the respawn timer together with the spawn it
makes. Time is counted in sweeps; an uptime of exactly `StableTicks` sweeps may
or may not reach `stableMs`, so both outcomes are allowed.

### ClusterPrimary — `src/runtime/index.js`, `worker-watchdog.js`, `relay-spill-policy.js`
Composes the supervisor (`Sup == INSTANCE RestartSupervisor`, whose operations
it calls from the handlers that call them in the code) with the worker threads.
A thread boots, posts `ready` and, from the relay branch, `relay-attached` (a
post that may be lost: it sits in a swallowing `try`), may wedge (event loop
blocked for good), crash, spill or diverge. A sweep (`Tick`) judges the three
regimes of `worker-watchdog.js` (boot, attach, steady), counts beats and
reconciles. `Escalate` sends `terminate` and arms the grace; `GraceFires` is the
SIGKILL fallback, which ends *the whole process* if the thread is wedged.
`GracefulShutdown`, `DelayOver`, `ForceShutdown`, `Backstop` and `LoopDrains`
are the two-step shutdown. A thread identity is reused after its exit event.
While it serves, time is counted in heartbeat intervals; during shutdown in exit
graces. `AckTicks` is the one assumption about the environment: a worker that is
not wedged is heard from within that many sweeps.

### FrameStream, RingState and RelayRing — `src/runtime/relay-ring.js`
`FrameStream` is the promise of the file's header comment: frames come out whole
and in order, and eventually while both sides are open. `RingState` holds the
constants, the variables and the invariant (`spill` is the code's `pending`), `RelayRing` the
implementation, one access to shared memory per step: `Write`, `Store`, `Arm`,
`Notify` and the flush steps on the writer's side, `Load`, `Parse`, `FreeSpace`,
`WakeWriter`, `ArmWait` on the reader's. Positions are integers modulo `Mod`
(2^32 in the code), the data area holds bytes tagged with the frame they belong
to, so that a torn or shifted frame is visible. `waitAsync` compares the value
when it registers: a stale value returns at once, as in the code. The spill, its
byte ceiling and its age (with the re-armed timer) are modelled; the codec is not.
The refinement maps `accepted` to the frames `write()` said yes to and `open` to
neither side having closed.

### RelayStream — `handler/relay.js`, `handler/state.js` 404-871, `handler/platform.js`
One topic of one worker, as another worker audits it. The sender queues publishes
for the deferred flush or sends a batch at once and numbers them at the wire;
each goes by the ring or, when its encoding throws, by `postMessage` (two FIFO lanes),
or is refused by the ceiling, or is lost on the way. The receiver is `recordOriginStream` and `takeConfirmedGaps` with both
bounded records (`st.above`, `st.ranged`), the forgotten `floor`, the staged
report and the age of the hole. The array of ranges is the set of ordinals it
covers. A frame's events are folded in one after the other (`Folded`). `reported`,
`count`, `arrived`, `lost`, `forgot` are history.

### QueueAccounts and TaskQueue — `src/plugins/queue/server.js`
`QueueAccounts` is what a queue keeps and what its accounts promise, `TaskQueue` has
`push` with its four bounds, the service line, `schedule`/`pump`/`start`,
settlement, `cleanup`, `clear` and `drain` of one key and of all. `turn` unrolls
a synchronous turn. A task is a model value, pushed again once settled, so the
instance is finite but never stops.

### Lock — `src/plugins/lock/server.js`
A `Call` is one `withLock()` promise. The state object a call captured outlives
its registry entry, so it has an identity (the call that allocated it); `home`
is what each call captured. `Settle` is the `finally` with the whole hand-over
loop; a timed-out entry stays in the queue and is stepped over, as in the code.

### ThreadExit and Lifecycle — `index.js` 1334-1887, `handler.js`, `handler/lifecycle.js`, `handler/realtime.js` drain
One serving thread of any role from boot to exit (`ThreadExit`: its state and the promise
of an orderly stop; `Lifecycle`: its steps). `boot` says which await the
boot stands in, `stage` which await of the shutdown sequence: delay, application
hook, sockets, exchanges, listener, cleanup, flush. One budget (`expired`) serves
all. An exchange has a connection (`wire`), a body, a handler that may outlive
both (`running`), and a signal (`notified`). WebSocket connections may be admitted
after the sweep and are then closed at once. `Crash` and `WorkerFails` are the
ends without and with notice to the requests.

### Subscription — `handler/realtime.js`, `handler/platform.js`, `utils/ws-symbols.js`, `utils/subscribe-policy.js`
One connection, its topics and the frames or calls in flight (`call`). `ud` is the
`userData` of the socket: native membership, logical set, pending record with its
revocation epochs, held attempts, the charge the accountant holds. An attempt
enrols (`Begin`), is judged before the hook, is awaited (`HookReturns`, then
`ResumeReturns` when it recovers), and lands: `FreshLanding`, `HeldLanding`,
`Denied`, `LandOne` of a batch. `WireUnsubscribe`, `PlatformUnsubscribe`, `Evict`,
`PluginJoin`, `PluginLeave`, `Arm`, `AuthorizeDerived` and `CloseConnection` run in
between. History: `backed`, the topics some authority stands behind, and `stale`,
the items a revocation has overtaken.

### SeqBound — `utils/seq-bound.js`, `utils/epoch.js`, `handler/state.js`, `handler/seq-bound.js`
The two insertion-ordered maps of a worker and everything that evicts from them:
`Sweep` is `evictOldestUnprotected` with both rotating passes and the back-off,
`Evict` keeps a floor per hash and, when floors no longer fit, one high-water
mark. `Report` is the reporter's tick, whose verdict (`Quiet`) the bound asks.

### ResumedClients and ResumeCapture — `handler/resume-buffer.js`, `handler/realtime.js`
`ResumedClients` is what the worker and its clients hold meanwhile, with the promise.
A client away from a topic comes back with the highest number it has. `Begin`
opens the capture, `HookReads`/`HookReturns`/`HookThrows` are the awaited hook,
`FlushResume` is the flush with each way the socket may answer a frame or a
marker, `LandHeld` the discard when another lane installed the topic meanwhile.
A capture is the set of the numbers of its frames, which the code keeps and flushes in the
order they were published in. The client's own bookkeeping is external: it takes the
highest number as its offset and cannot see a hole.

### UpgradeGate, UpgradeAdmission, MessageGate and MessageAdmission — `utils/upgrade-admission.js`, `connection-permit.js`, `message-admission.js`
In `UpgradeGate` (the state and its promise) `gate` holds the counters and, as history, what each attempt holds; `ring` is the
deferral ring with its indices. `UpgradeAdmission` changes them: `Admit`, `Drain` and `Accept` with its `Outcomes`
(opened, answered by the library, thrown, failed in its set-up) are the code's;
`Destroy` and `SocketClosed` are the two halves of a peer that leaves. `MessageGate` is
the state of the message gate and its promise, `MessageAdmission` its calls: a frame
enters, waits, runs and releases; `Close` cancels the waiting frames of one connection
and drains the rest. Each call edits an account (`Put`, `Grant`). The code's drain starts
its search again after each grant; a grant only takes room away, so `Drain` is one walk
of the queue that stops at each frame (`Visit`).

### ThrottleTopics, Throttle, GroupRosters and Group — `plugins/throttle/server.js`, `plugins/groups`
`throttle()` and `debounce()` over a clock in ticks, each publish of which may
throw (`ThrottleTopics`: what is kept per topic; `Throttle`: the calls and the tick). A group (`GroupRosters`: its state and its promise; `Group`: its operations) with
the roster of each client, as the frames build it; the admission hook of a join may join
or remove another member or close the group.

### Presence — `plugins/presence/server.js`, `plugins/presence/client.js`
One topic of the tracker, whose maps are the record `tracker`, and the roster each
client builds (`shown`), with the hooks and calls as actions. Other topics of the
tracker appear as evictions: of a connection (`EvictConnection`, and inside `Join`)
or of the topic (`EvictTopic`). A field is durable (`status`) or transient (`typing`)
and toggles. Frames to one socket stay in order and no answer depends on them, so
they arrive in the step that sends them; a publish that throws is a frame lost.
`lostFrames`, `cut` and `evicted` are history. `PresenceAssumption` has finitely many
sockets and at least one heartbeat before a client forgets a user: the server warns of
a heartbeat that is off and asks for one well inside `maxAge` (`server.js:395-411`). With
`maxAge: 0` nobody is swept, which is a client that never takes `SweepView`.

### BrowserLink and ClientConnection — `src/client.js`
One connection of the browser: its state and its promise in `BrowserLink`, its events in
`ClientConnection`. Operators on a record are the functions the
handlers share (`DoConnect`, `Schedule`, `ClearReconnect`, `Outcome`), actions
the events: timers, preflight answers, socket events, visibility, network and
page events, the application's calls. `Notify` lets the application call back
out of a status update, once per step. Generations are compared for equality
only, so a holder remembers whether its own is current.

### ClientTopics — `src/client.js`
The topics over that connection. `client` holds the maps: use counts, the batch
of the running task, refused topics with their attempts, pending recoveries,
offsets. `Subscribe`, `Release`, `Unsubscribe` and `Flush` are the application's
side, `TimerFires` the retry, `Open` the resubscription, the `Hear` actions the
dispatch. The server is external in outline (its own modules have it in full): it takes asks in
order, answers them in any, reads the missed tail, installs, refuses, and its open
hook may have granted topics beforehand. References are compared within one
connection only, so each starts again at one. `view` is history: what the
subscriber has been shown.

### CrdtRecord, CrdtAuthority, CrdtChannel — `plugins/crdt/replica.js`, `plugins/crdt/channel.js`
The authority of one document (`CrdtRecord`: its state and its promise; `CrdtAuthority`: its
operations): reference counts, load, the dirty mark, the chain
of stores, flushes with a deadline that abandons a store (cancelled, or left to
a longer flush), drop and unload. The merge of the CRDT library is commutative,
so a document is the set of its edits. The channel is the client's side: vector
exchange, buffered frames, the upload of what the server lacks, the retry and
the gap check; an author's edits apply in order, so a replica is a count per
author and what waits for a gap. The host's backend, the server's mount and the
connection are external: they answer, refuse, lose and break.

## 3. Runs

Bounds are chosen so that each limit of the code binds with the fewest actors
that make it bind; none is a state constraint (the two `ArrivalOrder`s are
symmetry reductions among interchangeable actors, whose arrival no fairness
concerns). Four of the runs check several components that share no state: their
MC module has one variable `on`, chosen in the initial state, that says which of
them moves while the others stand still. The states are the sum of the parts,
each part is explored in full, and a property about a part speaks of the
behaviours in which it moves.

| run | parts and instance | shows |
|---|---|---|
| `primary` | 3 threads for 2 slots, one restart each, ring and divergence restarts on | accounts match the fleet and a forced exit is not zero, `RestartSupervisor` is implemented, a sweep ends only faulty workers and the backstop none that had booted and is inside its budget |
| `primary_progress` | 1 slot, 2 threads, all regimes on | wedged and unattached workers are dealt with, a shutdown ends. One slot suffices: two interfere only through the accounts that `primary` checks |
| `threads` | *respawns*: 2 slots, 3 attempts, delays 2→4→7. *life*: 2 exchanges, 1 WebSocket, every role, with and without a budget. *ring*: 4 bytes, positions modulo 8, frames of 2, 5 and 6 bytes, reader limit 5, spill ceiling 2 | exact accounts and a flapper that exhausts; a stop that is final, clean only when nothing was lost, told to each request before it is cut, and that ends within its budget; a ring that tears, reorders and sleeps through nothing and reports a peer that stopped. Three frames are the fewest with one in the reader, one in the ring and one in the spill |
| `subscription` | 3 topics (one of a plugin, one an observer tap of another), 2 attempts, batches of two (one names a topic twice), 2 places, 2 pending | the books, the acknowledgements, the landings and the right to history, with every other operation between the awaits |
| `plugins` | *lock*: 4 calls, 3 keys of which 2 fit, 2 waiters per key, one `clear()`. *queue*: 3 keys for 2 live places, 4 tasks, 2 running per key and in total, backlog 2, 1 waiting per key, 1 drain | exclusion per key until `clear()`, truthful registry, FIFO, every waiter resolves; exact accounts and line, no overtaking, no early drain, no starvation |
| `waits` | *upgrades*: 4 attempts, 3 in flight, one a cursor's, 3 permits, 1 accept per tick, 2 deferred. *messages*: 4 frames of 3 connections, 2 permits, 1 each, 2 waiting. *authority*: 2 mounts, 1 flush, 2 edits. *channel*: 2 edits on each side, a buffer of one | counters equal what is held on every path out; upgrades and frames are decided; edits reach the backend; the two sides converge |
| `parts` | *numbers*: 3 topics, two of one hash, ceiling 1. *resume*: 1 client, buffer 2, 5 frames. *stream*: 7 frames, one exact ordinal and one range above a hole. *throttle*: 3 topics, map of 2. *client*: 3 sockets at a time, 2 attempts. *group*: 3 sockets, room for 2. *document*: 2 mounts, 2 flushes, 2 edits. *presence*: 2 sockets of one user or of two, 1 heartbeat until a user is forgotten, one field set or one frame lost at a time. *ledger*: 2 topics, 2 subscribers each, 2 asks per connection, 1 retry. *offset*: 1 numbered topic, 3 frames, 3 asks, 2 retries | eleven promises of safety: no number twice, no silent hole, no false or skipped report, the latest value, one way on with counted retries, agreeing rosters of groups and of presence, no lost edit, agreeing topics, earned offsets, justified evictions |
| `primary_no_ring`, `subscription_cap`, `resume_race`, `throttle_throw`, `crdt_flush` | small | violations, section 4. The last three check a component's module as it is, without an MC module |

Why the less obvious bounds suffice: seven frames overflow both records of the
audit, so that it forgets and catches up again; three topics over a ceiling of
one with colliding hashes reach a floor, a collision and the high-water mark; a
third socket exists only while two are closing; two edits are one captured by a
store and one that arrives after it; three asks of one connection are the
resubscription, a retry that overtakes its answer, and the retry after that. Two
sockets of one user reach every count that matters, two of two users every pair of
an observer and one that comes and goes.

A property that speaks of a part's books has the part's type invariant as a
conjunct. Every property of a passing run has at least one mutant: a slip in one
definition (marked `\* Slip:` in the modules), the way a plausible bug would put
it, under which TLC finds the property violated in the instance it is checked in.

`CHECK_DEADLOCK FALSE` is set where the system may stop: all calls of an instance
settled, the process exited, the ring closed, every number issued.

## 4. Where code and text disagree

1. **`primary_no_ring`** — with `CLUSTER_RELAY_RING_KB=0`, documented as
   "postMessage only" (`README.md:760`, `index.js:93`), no worker posts
   `relay-attached` (1836-1874) while each meta starts with `relayAttached`
   false (684): the attach regime escalates every healthy worker one steady timeout
   after it reported ready. The passing runs have the rings on.
2. **`subscription_cap`** — the single lane asks for the cap before it awaits the
   resume hook (`realtime.js:2158`) and not at the landing: subscribes that wait
   there at the last free place all land. `caps.js:12-13` calls it the maximum.
   `AccountsExact` therefore says nothing of the cap.
3. **`resume_race`** — a topic found held after the resume hook has its capture
   discarded as duplicates (`resume-buffer.js:57-59`, `realtime.js:2206`); what was
   published between the hook's read and the other lane's install is only there.
   `NoSilentGap` excuses a raced install.
4. **`throttle_throw`** — a publish that throws in the trailing tick
   (`throttle/server.js:244`), or in `flush()`, leaves a fired timer behind: the
   topic's later values wait for a tick that is not armed, where 174-175 promises
   one per interval. `LatestIsDelivered` excuses a topic whose publish threw.
5. **`crdt_flush`** — `ok` is judged on a dirty mark that a newer, unanswered store
   has cleared (`replica.js:653`), where `replica.d.ts:122-126` says an ok flush can
   be followed by `destroy()` without loss. `NoEditIsLost` states what an ok flush
   does cover: the edits it was called for.

Met while modelling, and written into the models without a run of their own:

- After `clear()`, a call of the lock that was running still ends with
  `states.delete(key)` (`lock/server.js:175`) and removes the entry a later call
  registered; the comment at 281-283 says it will no-op. `ExclusivePerKey` and
  `HeldIsActive` are stated until the first `clear()`; exclusion per state object
  holds always and is proved.
- A worker still booting when told to shut down starts its own budget when its boot
  ends, the backstop counts from the primary's post (`index.js:1305`; the comment at
  1292-1295 rules that race out). `HealthyNeverKilled` excuses those workers (`early`).
- Both ceilings of the ring are judged on a spill and an age that only an
  asynchronous flush refreshes (`relay-ring.js:143`), so a burst in one task closes
  the writer on a peer that has drained everything; 25-27 say otherwise.
- A worker whose up-ring overflows exits from `index.js:1856` without aborting its
  requests' signals, although 1677-1679 says its signal comes first. `Crash` is the
  exception `ExitTellsRequests` makes.
- On a compute worker whose hook the budget cut off, and without an asynchronous
  cleanup listener, the ending can still be reported complete.
  `CleanMeansNothingLost` speaks of exchanges and connections only.
- The quiet probe answers from the last report: a topic published since may be
  evicted before the next one, where `realtime.js:282-289` says that eviction never
  takes a topic whose number moved inside the window. `EvictionIsJustified` speaks of
  the judgement.
- A group join whose subscription fails has been announced and is never announced as
  left: other clients keep a phantom. A hook that joins others can pass `maxMembers`,
  one that closes the group leaves a member in it.
- Where `maxTopics` evicts a topic of the presence plugin (`presence/server.js:1023`)
  its sockets keep their entries: their observers are told of nobody's departure, a
  later leave returns at 934 without releasing the tap, and once the user is there
  again by another socket, the leave of an old one counts it out. `CountsExact` and
  `ChannelExact` speak of a topic that was never evicted (`evicted`).
- An unsubscribe of the topic releases the presence tap first (`realtime.js:1942`), also
  of a socket that observes: its entry in `syncObservers` outlives the tap.
  `test/presence.test.js:601-605` calls the hook alone, where the tap stays.
  `ChannelExact` excuses such an observer (`cut`).
- A short flush that gives up a queued store while a longer one keeps an older store
  lets the retry run beside it, and the two writes may land in either order
  (`waivers` "overlap"). A mount that releases after `drop()` and a new acquisition
  decrements the new record (`waivers` "stolen").
- A topic the open hook granted receives live frames although its recovery was
  refused `RATE_LIMITED`: `finishRecovery` drops the pending mark (`client.js:1500`), the
  frames move the offset, and the retry asks from beyond the hole, where 1584-1588 says
  that it asks for the tail. `OffsetIsEarned` excuses such a topic (`raced`).
- An offset outlives the release of its topic, so the retry of a topic released and
  used again carries one; 1588-1590 says none does outside a reconnect.
- `flushRateLimitedRetries` asks for every refused topic, also one whose retry is
  under way (another topic armed the timer): the second refusal can arrive after the
  topic was given up and start its count again, where 1561-1566 says it gives up.

## 5. Fairness

| module | assumed | because |
|---|---|---|
| Lock | each running `fn()` settles (WF `Settle`) | the plugin promises nothing otherwise; arrivals, timeouts and `clear()` are free |
| RestartSupervisor | none; `FlapperExhausts` is conditional on the slot continuing to run and to be respawned | the supervisor only reacts |
| ClusterPrimary | timers fire, messages arrive, a thread that is not wedged handles them; with a budget a teardown ends | Node's event loop; `SHUTDOWN_TIMEOUT`. Wedges, crashes, signals, retirements and lost posts stay free |
| RelayRing | both event loops run, time passes, the age timer fires | nothing is assumed about further writes or closes |
| TaskQueue | a synchronous turn ends; each task settles (SF, since other turns come between) | application promise; a queue with a task that never settles rightly waits |
| Lifecycle | the thread's own timers and callbacks run (WF `Progress`) | application hooks, handlers, peers and the boot owe nothing: `BoundedStopEnds` must hold in spite of them, and is stated of a thread whose boot ended |
| UpgradeAdmission | the scheduled drain runs; the upgrade hook is decided | `setImmediate`; the hook is awaited under a deadline. Peers and closes are free |
| MessageAdmission | a running message hook settles | application promise; arrivals and closes are free |
| CrdtAuthority | timers fire, a load and a store are answered, and a host that is asked again and again writes once (SF) | a backend that never writes rightly keeps the edit dirty; deadlines, failures and drops are free |
| CrdtChannel | timers fire, messages move; what is tried again and again succeeds once (SF) | breaks, refusals and lost frames stay free; `Converges` supposes that the connection holds in the end |
| RelayStream, Subscription, SeqBound, ResumeCapture, Throttle, Group, Presence, ClientConnection, ClientTopics | none; safety only | |

`ShutdownEnds` and `BoundedStopEnds` need a budget: with `SHUTDOWN_TIMEOUT=0` the
code waits without limit, by design. In a run with `on`, the fairness of a part
that does not move holds vacuously.

## 6. Proofs

All proofs hold for every value of the constants that meets the module's named
assumption, with no bound on calls, keys, slots, attempts or steps (`Lifecycle` has no assumption).

**`LockProofs`** (from `LockAssumption`): `TypeCorrect` with both caps,
`MutualExclusionPerState`, `MutualExclusionPerKey`, `NoLeakNoEarlyRelease`,
`NoOrphanedWaiter`, `FirstComeFirstServed`. The properties about keys are not
inductive: the hand-over reads a *queue*, so one has to know what is in it.
`IInv` adds to the types and `ExclusivePerState`

- `HomeInv`, `RegistryInv`: what a call knows of the state object it captured, and
  that a registered one is registered under its own key and runs;
- `FlagInv`: `running` is set exactly while a call runs under the object, which is
  what makes the hand-over exclusive;
- `QueueInv`: a queue holds calls of its own object, in arrival order, that wait or
  gave up; arrival order gives FIFO, and no duplicates;
- `WaitingInv`: a waiting call is in the queue of a running object, which gives
  `NoOrphanedWaiter`;
- `TicketInv`, by counting arrivals, so that a new arrival's ticket is the greatest;
- `RegisteredInv`: before `clear()` each active call is under the registered object;
  this turns exclusion per object into exclusion per key.

One lemma per outcome shows that `IInv` is preserved: a refused call (`RefusalInv`),
an immediate holder (`AcquireInv`), a waiter (`EnqueueInv`), and a settlement with or
without a live waiter to promote (`PromoteInv`, `ReleaseInv`); a timeout and `clear()`
both make waiters give up (`GiveUpInv`). `FirstComeFirstServed` is
an action property from the same invariant.

The same module has the crdt plugin (from `CrdtAssumption`): `EditsAreNeverLost` shows
`NoEditIsLost` of `CrdtAuthority`. The property says where an edit is *now*; to keep it
across an answer of the host one has to know what each store in flight would leave in the
backend, in whatever order they settle or are given up. `CrdtInv` adds

- `WellKept`: stores run only behind a loaded document, the first of them is issued and
  only the last is the newest; without the first the chain could stand still, and
  without the second an older store could decide that nothing is left to store;
- `Intact`: what the stores write grows from the backend through the chain to the
  document, so that any of them may land and nothing the backend had is lost; and a
  waiting flush is told by one store, which covers what it was called for;
- `Captured`: a document that is not dirty is in the backend or is what the newest store
  writes; and a dirty one has a timer running;
- `Single`: until an overlap only the first store is issued, which is why an older write
  cannot land on top of a newer one; and until a release of a dropped mount the count of
  references is the number of mounts that hold the document, and it is loaded.

An operation is put together from `storeNow`, `unload`, a settled store that leaves the
chain, and the telling of flushes: each has a lemma that says what it makes of any record
(`StoreKeeps`, `UnloadIs`, `ReleasedKeeps`, `ReportKeeps`), and one per operation
puts them together (`SettleKeeps` by the three answers of the host; `DeadlineKeeps` by what
`Without` leaves of the chain, `StoresKept`).

And it has the presence plugin (from `PresenceAssumption`): `RosterStaysTrue` shows
`RosterIsTrue`. That property speaks of what a view *would be* once the change that
waits is merged; it is not inductive, because merging says nothing of the view that a change
collapsed into another replaces. `PresenceInv` says of each user separately, of the entry
`e`, the waiting change `d` and a client's view `v`,

- `Sane(e, d)`: a waiting departure is of somebody who is gone, and a waiting field
  change has the values that the entry has now;
- `TrueView(e, d, v)`: unless an arrival or a departure waits, which will state the user
  in full, the view is right but for the fields that the change names; and it is of age 0,
  which is why the sweep forgets nobody who is there.

`Follows` says of a step of `e` and `d` that no view becomes wrong that was true. Each step
of one user has it (`OneSocketLess`, `LastSocketLess`, `OneSocketMore`, `FirstSocketMore`,
`FieldUpdate`), hence each call, whatever the views are (`AllFollow`, `BecomeKeeps`,
`UsersChange`). The ticks change views instead: a diff that arrives leaves a true view of
everybody it states and of everybody whose view was true (`DiffIsTrue`), a heartbeat of
everybody who is there (`PublicDataIs`). That counts and taps are exact (`Counted`, `Heard`)
is inductive by itself and needed for the leave: a socket on the topic counts, so its user is
counted down and its tap released (`OnTopicCounts`, `LeaveKeeps`).

**`ClusterPrimaryProofs`** (from `SupervisorAssumption`), of the supervisor by itself:

- `TypeCorrect`, `AccountsExact` (`Sup!Spec => []SlotAccounting`) and
  `ReconcileNeverNeeded`: the sweep never finds a stranded slot, so `reconcile()` is a
  net and not a mechanism. Neither the types nor the accounts are inductive alone:
  `attempts` stays within the cap only because an exhausted slot has no worker left to
  exit, which is accounting, and accounting needs the types (`SupStep`).

and (from `PrimaryAssumption` as well) of the primary that uses it:

- `ImplementsSupervisor`, `Spec => SupervisorSpec`: the initial states and every step
  of the primary are those of `RestartSupervisor`, or leave its variables alone;
- `FleetIsAccountedFor`, `Spec => []FleetMatchesAccounts`;
- `HealthyAreSpared`, `Spec => HealthyNeverKilled`, under `RingEnabled` (without rings
  it is false: section 4, 1) and limits no shorter than the time a responsive worker
  takes to be heard. `SupervisorSpec` and the accounts need neither.

The refinement and the accounts are one argument. The supervisor's `NoteReady` and
`NoteExit` are legal calls only of a slot that boots or is served, which is what the
correspondence between threads and slots says (`FleetInv`: each running thread serves a
live or booting slot, no two the same, attached exactly on the live ones); and the
correspondence is kept because the accounts are exclusive (`SlotAccounting`).
`PhaseInv` says what a phase of the process leaves the supervisor to do, `ThreadInv`
what an unserved or booting thread cannot have. For the third theorem, `AttachInv`
says that the post `relay-attached` of a ready worker is under way, heard or lost, and
`StopInv` that the clock of a worker's teardown and that of the backstop run together.

of one serving thread (`Life == INSTANCE Lifecycle`), in any role, with or without a
budget, and whatever the application and the peers do:

- `StopsAreOrderly`, `Life!Spec => []OrderlyStop`. That a stop is final rests on the one
  case in which it is not acted upon at once, a signal taken before the handler is
  imported (`BootInv`). That a clean ending lost nothing goes back over the stages:
  the drain's result is good only if nothing was cut (`ResultInv`), and it is reported
  after the listener closed, when nothing is left inside (`DoorInv`). That requests
  hear of the exit needs to know which of them still run: an open exchange is registered
  with its signal, and a disconnect aborts it only once it is gone (`SignalInv`).

**`PluginProofs`**, of three server plugins:

- `RostersAlwaysAgree`, `Spec => []RostersAgree` (from `GroupAssumption`), for every group,
  set of roles and limit. The invariant (`Sound`) says of a group at rest that whoever
  is a member on an open socket is subscribed, and that the roster of a subscriber
  counts each role as the group does, plus phantoms. A step is a call together with
  whatever its hook calls back, so it is proved of the *pieces* a call is made of
  (`ToldKeeps`, `InstallIsSound`, `JoinedIsSound`, `LeftIsSound`, `DissolvedIsSound`), each
  on an arbitrary sound world, and the nesting is their composition.
- `AccountsStayExact`, `Que!Spec => []AccountsExact`, and `NobodyOvertakes`,
  `Que!Spec => NoOvertaking` (from `TaskQueueAssumption`), for any keys, tasks and limits.
  What the accounts promise between turns must be known of the steps inside one:
  `LineInv` says that a startable key outside the line is the one the turn has still to
  schedule, and that a free slot beside a line is a matter of the turn's pump; `LiveInv`
  that a live key without work is the one whose task has just settled, so that its
  cleanup comes; `OwesInv` that a drain waits for tasks which are still to settle, which
  lets a cleanup resolve the drains of a key. The counters need `OnePlaceEach`: a task
  waits or runs in one place, so a step moves exactly one.
- `LatestAlwaysDelivered`, `Thr!Spec => []LatestIsDelivered` (from `ThrottleAssumption`),
  for any topics, limit and interval, zero included. The invariant says it of each topic
  by itself (`TopicInv`) and adds that nothing but an armed timer survives without an
  excuse, and that an excused topic has none running: its next value starts afresh.

**`SubscriptionProofs`** (from `SubscriptionAssumption`): `BooksAreExact`
(`AccountsExact`), `AcknowledgedIsTrue` (`AcksAreTruthful`), `LandingsAreTimely`
(`LandingsActOnTheMoment`), `HistoryGoesToTheEntitled` (`HistoryIsEntitled`): every
property of the run `subscription`, for any topics, attempts and limits and for batches
of any length, which the runs have at two. `SubscriptionInv` adds to the books what they
rest on: `Counted`, the pending record of a topic counts the items in flight and the
connection's total all of them, by the items themselves; `Dated`, an item's token
is the epoch of the moment exactly while no revocation has overtaken it; `Backed`, what
some authority stands behind is held, and while contested the record says so
(`granted`), since after the socket closed only this half remains; `NoOrphan`, a
membership no item is behind has its authority. `OutcomeSettles` is the landing of one
item: it has one lemma for each way it may go. A frame is a loop of those landings, so
`FrameLands` carries `Going` (so many items in, the socket as it was) or `Ended` (a
rollback found it gone) from one item to the next, and `FrameEnrols` the enrolment.

**`SeqBoundProofs`** (from `SeqBoundAssumption`): `NumbersNeverRepeat`
(`Spec => []NeverRepeats`) and `OnlyTheQuietLeave` (`Spec => EvictionIsJustified`), for
any topics and hashes, any ceilings and any length of a pass. `NumbersInv` has one
clause that carries it: the number below the next one of a topic, be it its
counter or the floor it would start from (`Base`), is at least the last number issued.
Eviction keeps it because it moves the counter into a floor that collisions and the
high-water mark only raise; what is evicted and in which order is then immaterial, so the
pass is proved for whatever keys it may have taken (`PassIsSound`). The other clauses
say that a counted topic is observed at least as high and, until another authority
spoke (`latched`), no higher: that is why the latch may skip the compare.
And (from `ResumeAssumption`), of the clients that resume from such a number
(`Res == INSTANCE ResumeCapture`), `NoGapIsSilent`, `Res!Spec => []NoSilentGap`, for any
clients, frames and cap. `CaptureInv` says that the capture holds exactly the frames from
its opening on, with no hole, up to the newest or to its cap; `RecoveryInv` that what the
hook did brings the client up to a number at or above the opening; together, what
the flush still has to send starts at the next one, and the frames it drops are those
the client has. One client's recovery is in nobody else's way, so the invariant is stated
of each (`ClientInv`), the `waived` ones included as far as it goes.
And (from `RelayStreamAssumption`), of the stream one worker audits of another,
`ReportsStayExact`, `StreamSpec => []ReportsAreExact`, for any bound on the record, any
grace of two ticks or more and frames of any number of events. Of the tracker's entry,
`Audited` says that what arrived is below its watermark, retained, or at or above the lowest
ordinal it forgot: the retention forgets from the far end only (`RetainIs`), so the
`Boundary` of a report never passes an arrival, and draining, buffering and consuming
keep it (`RecordIs`, `FoldedIs`, `ConsumeIs`). That alone would let a report speak of a
frame still on its way. `Accounted` says that every ordinal stamped has arrived, is lost,
or is on a lane, and `Timed` what the age of a hole tells of the lanes: after one tick
nothing fresh on them lies below the boundary, after two nothing at all. A report
at the grace therefore has lost frames only; `Told`, that what was reported is behind the
watermark, makes each of them new, and says what is passed while nothing was forgotten.

**`RelayRingProofs`** (from `RingAssumption`: the capacity divides the modulus, and a
frame's length fits its prefix):

- `NoWakeupIsLost`, `Spec => []NoLostWakeup`. `RingInv` is `Placed`, where the sides
  stand, as distances modulo `Mod` (`Ahead`); `Holding`, that the spill is the tail of
  one frame and all the later ones, within one frame of its ceiling; and `Waits`, in which a
  parked side that could go on has its counterpart on the way to its notify.
- `FramesInOrder`, `Spec => Stream!Init /\ [][Stream!Next]_streamVars`: the safety half
  of the refinement of `FrameStream`. `Content` says that the bytes on their way
  (the reader's remainder, then the ring from its position to the writer's) are a `Run`:
  each the successor, in the stream of all accepted frames, of the one before, from the
  first byte not delivered to the one the writer holds next (`Outgoing`), with no end
  fixed once the writer has closed. A step that writes, splits, stores or takes bytes
  extends or shortens the run; a frame that comes out is its first part, and therefore
  the next one accepted. Wrap-around is a matter of `Between` alone, where
  `Mod % Cap = 0` lets a position be reduced either way.

**`AdmissionProofs`** (from `MessageAssumption`): `PermitsStayExact`,
`Spec => []PermitsExact`, for any frames, connections and limits. `Exact` says of an
account what the property says of the state but for the idle capacity, which a call
breaks and its drain restores. Every edit of one frame keeps it (`PutKeeps`, which
counts by sets that differ in one frame; `GrantKeeps`), and `CloseKeeps` shows it of the
cancellation of many. Of the walk, `VisitReaches` says that after i frames the account
is exact, the frames from i + 1 on still wait, and none of the earlier that wait could
start; since a grant makes no room (`PutMakesNoRoom`), a frame once passed over stays
blocked, and at the end of the queue that is `NoIdle` (`DrainKeeps`).

And of what comes before a message:

- `ReservationsStayExact`, `Up!Spec => []ReservationsExact` (from `UpgradeAssumption`), for
  any attempts and limits. `Holds` says what an attempt may hold at each of its stages,
  with its socket there or destroyed, `GateExact` that the counters count it, and
  `RingExact` that the ring's indices delimit the deferred attempts, each once: `head`
  and `tail` wrap at the capacity (`At`), a destroyed socket's slot is taken out of
  the middle, and a drain accepts at most a budget of them, each with any outcome.
- `OneWayAlways`, `Cli!Spec => []OneWayOn` (from `BrowserAssumption`), for any sockets and
  any number of attempts. An event is a chain of changes to the connection, with status
  updates in it out of which the application may call `connect`, `close` or `pause`.
  `Sane` is what holds at every link of the chain, where the sockets it is about to
  close may be open beside the current one and there may be no way on yet; `Settled`
  is what holds at its end. `NotifyLeaves` is the heart of it: a callback settles the
  connection wherever in the chain it comes, or leaves it as it was, so that each
  function of the client is proved once, of a connection in either condition, and the
  events compose them.

**`SequenceLemmas`** holds what several of them need. The library's induction theorems
take an operator, which the provers cannot instantiate, so an induction is done by
the least number for which a fact would fail (`LeastNumber`, from the well-foundedness
of `<`); the recursive functions of the models (`Without`, `Enrolled`, `Landing`,
`Bytes`, the walk of `Drain`) are shown to exist and to do what they say in this way.

Each proof module extends its component module, which declares no recursive operator.
The passing runs evaluate the same assumptions, and check the same definitions: a run of
several components extends the one whose properties are proved, or the module of its
state and promise (`WorkerSlots`, `MessageGate`, `UpgradeGate`, `RingState`, `ThreadExit`, `QueueAccounts`,
`GroupRosters`, `ThrottleTopics`, `ResumedClients`, `BrowserLink`, `CrdtRecord`) where several are; the
proof module instantiates the component beside it. `RingState` and `GroupRosters` leave the
assumption on their constants to whoever extends them (`ASSUME RingAssumption` in
`MCThreads`, `ASSUME GroupAssumption` in `MCParts`); the theorems have it as a hypothesis.

## 7. Only model-checked

- Liveness (`WaitersProgress`, `FlapperExhausts`, `FaultsResolved`, `ShutdownEnds`,
  `StalledPeerIsReported`, `TasksSettle`, `BoundedStopEnds`, `UpgradesSettle`,
  `WaitersSettle`, `EditsSettle`, `Converges`, the fair part of `StreamSpec`): the
  prover does not handle fairness and ENABLED, so these stay with TLC.
- Of `StreamSpec`, that what was accepted is delivered (its safety half is
  `FramesInOrder`). `SupervisorSpec` is proved entirely: it has no fairness.
- The safety of `ClientTopics` (`LedgersAgree`, `OffsetIsEarned`).
  Nothing in it is out of the prover's reach; no proof has been written.

## 8. Not modelled

*In the modelled files:* signals before the fleet is spawned (an immediate exit),
sd_notify datagrams, metrics and posture collection and TLS broadcasts by the
primary; statistics, peaks, argument validation and `onDrop` of the queue; frame
encoding; the byte measure of the relay's frame ceiling (a free refusal); a second
`start()` after a close, and throws out of the adapter's own teardown; publish
grants, cohorts, wire ids and the unsubscribe hook of a connection; the token
buckets, origin and header policy of an upgrade; the lengths of the browser's
back-off, its stores, decoders and send queue, its flow-control window (whose full
queue drops an ask), managed and system topics, the chunks and epochs of a batch; `destroy()` of a CRDT authority, its
option not to persist on empty and attempt counts, read-only access and facets of a
channel; a join of a socket from inside its own admission hook; the projection,
budgets and generated keys of presence, its `clear()` and its binary codec.

*Whole components:* see the `not_modelled` components and their reasons in
`PROJECT.json`. They fall into pure functions on strings, bytes and headers (codecs,
addresses, cookies, byte ranges: the repository's test vectors are the right tool);
I/O of one request (static assets, SSR rendering, webhooks delivery, certificate
files); numerical code (smooth, cursor interpolation, pressure statistics, egress
windows); build and development tools; and what the plan still has to reach.

## 9. Plan

Done: supervision and shutdown (RestartSupervisor, ClusterPrimary), the relay
(FrameStream, RelayRing, RelayStream), the life of a thread (Lifecycle), the
connection (UpgradeAdmission, MessageAdmission, Subscription, SeqBound,
ResumeCapture), the plugins that coordinate (Lock, TaskQueue, Throttle, Group,
Presence, CrdtAuthority, CrdtChannel), the browser (ClientConnection, ClientTopics).

| next | module | models | main properties |
|---|---|---|---|
| 1 | StateHash, Collector | epoch buckets; scatter and gather while workers exit | a verdict concerns workers that were all present |
| 2 | Dedup, Session, Replay | claims and two-stage eviction; the ring per topic | first sight once per window, while not full; truncation is told |
| 3 | TLS reload | the watch, its loss and the sentinel | a lost watch is re-armed |

Theorems to come: `ClientTopics` keeps its `LedgersAgree` and its `OffsetIsEarned`.

## Running it

    tlc -workers 2 -config MCThreads.cfg MCThreads   # any MC module with its .cfg
    tlapm LockProofs.tla                             # any module with proofs

`MCParts` takes three minutes on two cores, `MCSubscription` two, `MCThreads`,
`MCClusterPrimary` and `MCWaits` one to two, the others less.
