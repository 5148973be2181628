# Verification of the Minecraft orchestrator

TLA+ specifications of the Minecraft orchestrator, the TLC instances that
check them and TLAPS proofs about them. Paths below are relative to the
repository, which the modules translate; a definition's exact lines are in
`PROJECT.json` under `map`.

## The system

A Go **engine** decides, twenty times a second, what each bot should do. A
**Node host**, a child process of the engine, owns the Mineflayer bots, reports
what happens to them and executes what the engine asks for. The two talk over a
local socket.

```
            Inbox (FIFO)                      socket                Mineflayer
  engine  <---------------  supervisor  <---------------  host  <------------  server
  tick    --------------->              --------------->        ------------>
            Outbox                        deltas                  controls
```

### Components, their state and their operations

| component | source | state | operations | what makes it correct |
|---|---|---|---|---|
| controller state algebra | `engine/model/utility_ai.go`, `bots/src/mineflayer_adapter.ts` | seven targets | Validate, Diff (Go), merge (Node) | the deltas add up; exclusive targets never coexist |
| NetworkApply | `engine/system/systems.go` | per bot: phase, remote session, last sequence, reality view | apply one event of the tick's batch | stale observations are rejected; a new session starts clean |
| GoalSelector | `engine/system/systems.go` | desired and last sent state, controller sequence, in-flight one-shot | one decision per tick | one-shots one at a time, each ended by its own answer |
| adapter telemetry | `bots/src/mineflayer_adapter.ts`, `bots/src/host.ts` | entity batch and its timer, last motion | chunk, entity, inventory and motion events | what is held back or left out does not make the engine wrong |
| behavior engine | `engine/ai/*` | goal, phase, failed and completed plans, remembered hostiles | reconcile, score, select | stable decisions; a failed plan is not repeated |
| host Controller | `bots/src/host.ts` | session name, sequence, retry flag, buffered outcomes | connect, schedule, status, observe | a lost bot is replaced; outcomes are carried once |
| MineflayerAdapter | `bots/src/mineflayer_adapter.ts` | bot, targets, their sequences, outcomes reported, running promises | connect, bot events, applyState, tick | targets and outcomes belong to one session |
| host supervisor | `engine/runtime/host_supervisor.go` | process, listener, connection, started | Start, watch, accept, serve, send, Close | one process at a time, restarted until closed |
| runtime and loop | `engine/runtime/{runtime,loop}.go` | tick | run a frame, apply its intents | fixed rate without catching up |
| worker pool | `engine/scheduler/pool.go` | job queue, stop | ParallelFor, Close | every chunk runs once; nobody waits for ever |
| scheduler | `engine/scheduler/{builder,compiler,executor}.go` | phases, systems, plan, command buffers | register, compile, run a frame | systems of a wave do not conflict; a query sees settled rows |
| ECS world | `engine/core/*` | tables, rows, generations, staged commands | stage, sync, create, destroy, migrate | an entity finds its row; a batch is all or nothing |
| views | `engine/model/{resources,chunks}.go`, `engine/system/systems.go` | chunks, entities, position, inventory | apply one observation | agree with what the server has told the bot |
| perception | `engine/system/systems.go`, `engine/model/*` | what the bot sees | field of view, ray casting | geometry only |
| frame codec | `hosttransport/frame.go`, `bots/src/socket_frame.ts` | partial frame | push | frames survive any split |
| log handler | `observability/async_handler.go` | queue, drop counter | Handle, Close | accepted records are written |

### What is hard

* **Sessions.** The host names a session at every connect, and reuses controller
  sequences in each. The engine learns of a new session only from the next
  observation, and deltas carry no session at all.
* **Callbacks in any order.** A Mineflayer bot can be kicked, fail and end in
  any order, its successor can exist before its end event, and its promises
  settle whenever they like.
* **One-shots.** Craft, equip, place and consume are sent once, run once and
  answered once; the answer crosses two buffers that are overwritten.
* **Crashes.** The host process dies and is started again, and the engine is
  not told.
* **Observations that are batched, throttled or left out.** Entity changes wait
  200 ms, inventory changes a microtask, motion up to 250 ms; a change of
  dimension is not reported at all.
* **Goroutines over one set of tables.** The systems of a wave run without a
  lock; only the compiler's conflict test keeps them apart. Removing a row moves
  another one, and indices are used again.

`PROJECT.json` lists every hazard at its line, with the property that would
catch it or the reason none does yet.

## Modules

| module | models |
|---|---|
| `ControllerState` | the targets, `Validate`, `Diff` and `Merge`; no state |
| `ControllerChannels` | the two FIFO directions between host and engine and their messages |
| `EngineControl` | NetworkApply's session handling and GoalSelector, for one bot |
| `BotHost` | the host's Controller and its MineflayerAdapter, for one bot |
| `ControllerLink` | composes the two halves, the process's start, configuration and death; states the properties |
| `MCControllerLink` | small sets of decisions for TLC |
| `WorkerPool` | the scheduler's pool: callers of ParallelFor, workers, cancellation and Close |
| `MCWorkerPool` | the loops TLC calls it with |
| `HostSupervisor` | the supervisor's fields, its Run, and the process and goroutines of each host |
| `HostLifecycle` | what the supervisor promises; `HostSupervisor` implements it |
| `EcsWorld` | the ECS world: tables, locations, generations, bot index, staging and Sync |
| `EntityStore` | what the world promises, a map from handles to bundles; `EcsWorld` implements it |
| `FrameSchedule` | Builder, compiler and executor, over `EcsWorld` |
| `MCFrameSchedule` | four system definitions over two archetypes |
| `HostTelemetry` | what the adapter tells of the bot's surroundings, and what it holds back |
| `EngineViews` | the engine's chunk and entity views, position and inventory of one bot |
| `WorldMirror` | composes the two; states what the engine may believe |
| `MCWorldMirror` | columns, batches and the budgets of the server's streams |
| `ControllerLinkProofs`, `ControllerDeliveryProofs`, `HostSupervisorProofs`, `EcsWorldProofs`, `FrameScheduleProofs`, `WorkerPoolProofs`, `WorldMirrorProofs` | the theorems |
| `ListLemmas` | lemmas two of them share: least elements, folds, flattened sequences, recursion over sets |

### State and actions, and the code they stand for

`EngineControl`: `phase`, `remote`, `lastSeq` are the bot's `Session`;
`reality` its entry of the `RealityView`; `current` the goal and target of
`UtilityAIState`; `desired`, `lastSent`, `ctlSeq` and `inFlight` its
`ControllerSyncState`. `ApplyEvent` is one iteration of `NetworkApplySystem.Run`
and `Select` one of `GoalSelectorSystem.Run`. The engine drains its Inbox once a
tick and then selects once; any number of `ApplyEvent` steps before a `Select`
gives every such batch. Which behavior wins is left open: any decision in the
constant `Decisions` may.

`BotHost`: one action per callback, since Node runs one at a time. `Connect` is
the timer that runs `Controller.connect` and through it the adapter's `connect`;
`Spawn`, `Kicked`, `Error`, `End` and `Telemetry` are the events of one
Mineflayer bot, each with everything its listeners do in both classes; `Receive` is
the socket's data handler, `Tick` the 100 ms timer, `Settle` a promise.
A bot's `life` is Mineflayer's own and external: joining, playing, closing after
a kick, gone. Its telemetry listeners ask neither whether it has spawned nor whether
it was dropped, and the engine takes the session for ready at the first of them.

`ControllerLink` adds `StartHost`, `ConfigureHost` and `HostDies`. The variables
marked *history* are read by no guard that the code has: `tags`' first component, a promise's
`tag` and an outcome's `exec` say which delta something stems from; `tainted`
says that the adapter holds what another session sent; `outcomeLost` says that a
reality replaced an unread answer.

`WorkerPool`: one action per case of the selects of `ParallelFor` and
`runWorker`, since Go takes any ready one. A chunk is its caller and its first
index; `pending` is the counter of the call's WaitGroup. The function of a chunk ends
or panics, with the deferred recover, in `End`; the deferred Done is `CountDown`, which
waits for it (`Recorded`). `done` and `panicked` are history variables. Each caller calls once: calls share nothing but the queue
and the workers, which other callers use as well.

`HostSupervisor`: the five fields of the struct, which hold host numbers in
place of pointers, and per host its process, its watch and its accept. What the
mutex covers is one step (`Launch`, `CloseHost`, `WatchWakes`, `Connects`). The
engine asks for one start, in its first frame, and for no stop; the module
allows both intents at any time, as `Apply` does, so that the guards of `Start`
and `watch` are put to work. `failed` is a history variable. `HostLifecycle` is
written for the engine's side: `live <- LiveHosts`, the hosts whose process runs
and whose context is not done, and `lost` when none is live and a restart is due.

`EcsWorld`: `tables`, `locations`, `generations`, `free`, `botIndex`, `queue` and
`dirty` are the fields of `World`. `CreateNow`, `DestroyNow` and `MigrateNow` are
the functions of those names, each a whole step: the world has one user at a
time. `Sync` is taken apart, `BeginSync` (sort and validate), one `ApplyCommand`
per command and `FinishSync`, so that a command that fails in the middle would
show. Only creations are staged: `DestroyCommand` lacks the method the executor
checks effects with, and nothing makes a staged migration. `migrateNow` does not
look whether another bot has the profile of its destination and no caller in the
repository gives it one, so `MayMigrate` asks for it. Of a row only its entity and
profile are kept; an archetype is the set of its components.

`FrameSchedule`: `AddPhase`, `AddSystem` and `Compile` in any order, then frames.
`Waves` is `compilePhase`, `Greedy` its packing of a wave, `Nodes` the placement
of Sync nodes. In a frame each system of a wave is a goroutine: `StageCommand` and
`EndRun` of all of them interleave. `Between` is the world's own operations,
which the package has for its users between two frames. Errors end the frame and
the program, at the place `at` names. `AddSystem` never stores into `b.systems`
(`builder.go:87` looks there), so duplicates get to the compiler, where two in one
phase end in "dependency cycle" and two in two phases both run; the module has
both. `ran` is a history variable.

`HostTelemetry`: one action per handler of the adapter, over Mineflayer's picture
of the server (`area`, `entities`, `place`, `inventory`), which the server may change
in any order. `pending` and `flushing` are the entity batch and its timer;
`lastMotion` and `rested` the motion throttle, `Rest` the passing of its 250 ms. An
inventory change is one task of Node with its microtask. "spawned" carries no bot
state, and the engine applies it as a snapshot of zeroes (`Spawned`); the real
snapshot follows. `Join` comes at any moment after a loss, since a retry may have been
scheduled at an error before it (`host.ts:95`), and finds the batch of the session
before. `fading` says that a bot that was kicked, hence dropped, has not
ended: such bots' motion and inventory listeners go on beside the next bot
(`StrayMotion`, `StrayInventory`), their chunk and entity listeners do not. How often
they do is bounded by the budget of the stream; a bot that is dropped before it has
spawned is taken not to spawn. `visited`, `spawnedAt`, `overtaken` and `strayed` are
history variables: `overtaken` has the entities whose pending move is older than their
arrival, and `strayed` says that the last word on the inventory was a dropped bot's.

`EngineViews`: `Apply` is one iteration of `NetworkApplySystem.Run`, with what
`applyChunkEvent`, `applyEntityEvent` and `applyHostSnapshot` do. `WorldMirror` puts
one FIFO connection between the two halves, which a crash of the host cuts after
any prefix. It leaves sessions and sequences to `EngineControl`: along one
connection every observation is newer than the one before, so none is refused.

One FIFO stands for all connections of a bot in both compositions. A process that is
started again has a connection and a goroutine of its own
(`host_supervisor.go:155`, `206`), so that what is left of the old one comes
before what the new one writes is an assumption, and not the code's doing: the
supervisor waits a second before it starts the process. What the theorem
`SessionsMoveForward` says of a crash rests on it; the run of `SessionNeverReturns`,
`Link_reconnect`, has none.

What is abstracted: a target is a model value, session names are numbers in the
order they are given (the code draws random ones and never compares their
order), several Mineflayer promises of one kind are a set, and outcomes of goto,
break and attack are left out, because `reconcileOneShotFeedback` looks only at
those of the in-flight one-shot. What makes an action fail (no recipe, no item,
out of reach) is a choice.

## Runs

A run is `tlc -config <cfg> <module>`, where the module is `MCControllerLink` for
`Link_*`, `MCWorkerPool` for `Pool_*`, `HostSupervisor` for `Host_*`,
`MCFrameSchedule` for `Frame_*` and `MCWorldMirror` for `Mirror_*`.

| cfg | what it asks | bounds | states |
|---|---|---|---|
| `Link_reconnect` | the safety of craft and goto across two sessions | 3 messages up, 2 deltas per session, 2 sessions, 6 observations, 1 error | 2.9 M |
| `Link_controls` | break, attack, consume, equip and idling competing in one session | 3 messages up, 3 deltas, 6 observations | 0.55 M |
| `Link_live` | liveness and the deltas, with a crash of the process | 2 sessions, 2 deltas, 5 observations, 1 crash | 0.34 M |
| `Link_superseded` | the in-flight field is kept (violated) | | |
| `Link_stale_target` | targets are scoped to a session (violated) | | |
| `Link_stale_promise` | outcomes are scoped to a bot (violated) | | |
| `Pool_calls` | safety and liveness of two calls | 2 workers, 2 callers, a queue of 2, loops of 0, 1 and 3 chunks | 0.32 M |
| `Pool_closed` | a closed pool refuses work (violated) | | |
| `Host_restarts` | safety, liveness and refinement of the supervisor | 2 hosts | 20 k |
| `Frame_plan` | registration, compilation and a frame over the world | 2 phases, 3 systems of 4 definitions, 1 frame, 1 command a system, 2 indices, 2 generations | 4.5 M |
| `Mirror_views` | what the engine believes of a bot's surroundings | 2 sessions, 2 events in flight, 2 chunks, 2 geometries, 1 entity, 2 slots, 8 budgets | 1.3 M |
| `Mirror_session` | the view is that of one session (violated) | | |

The bounds are guards named in the modules: `MaxUp` (messages in flight to the
engine), `MaxSeq` (deltas per session), `MaxSessions`, `MaxObs` (observations per
session), `MaxErrors`, `MaxCrashes`. Two sessions are what a reconnect needs;
two deltas per session let a sequence be reused and a one-shot be superseded;
three deltas let a third action meet the two before; three messages up are one
spawn's worth, so that realities and observations queue behind each other. The
runs stop when the bounds are used up, hence `CHECK_DEADLOCK FALSE`.

The pool has more chunks than its queue and its workers hold, so callers block,
and a last chunk shorter than the others. `MaxHosts` bounds the hosts started:
two are what a restart needs, and the safety theorems hold for any number. The
pool and the supervisor stop when their callers and Run have ended.

The four system definitions of `Frame_plan` create, write, read what is written,
and query one archetype or both; one names another in its `before`. Three systems
in two phases give a wave of two beside a third that conflicts with one of them,
a Sync between two waves, one between two phases and one at the end; a definition
may be registered twice. Two indices and two generations let an index be used
again before the frame, and a creation of the frame get it. One frame is enough:
`PlanHolds` says that the world is as settled after it as before. The generation is a
`uint32` that would wrap after 2^32 uses of one index; `MaxGeneration` stops before.

The streams of `Mirror_views` share the connection, the sessions and the
dimension, and nothing else, so `Budgets` lists how often the server acts in each: each
stream far by itself (two changes of the terrain, in one session or in two; four
entity events, two of which meet in one batch), and with others. Two sessions are what leaves
something of an earlier one. `MaxEvents` is how many observations wait; Mineflayer
and the timers go on around them.

### What the passing runs show

* `RealityOfThisSession`: the feedback the selector reads is never that of an
  earlier session.
* `ReconnectPending`, `Reconnects`: no order of kicks, errors, ends and spawns
  loses the retry, and the retry comes; if the process ends first, its successor
  connects.
* `AdapterAgrees`: once the deltas on their way are merged, the adapter holds
  exactly the state the engine last sent, but for one-shots it has consumed. It
  is stated for the states in which both ends are in one session and nothing of
  another one is on the adapter (`InStep`); the violated runs show why.
* `OneShotsOneAtATime`, `OutcomesGenuine`, `OneAnswerEach`: within a session
  the host never holds two one-shots, every outcome is that of the delta its
  sequence names, and none is given twice.
* `InFlightAnswerable`, `InFlightEnds`: the answer to the in-flight one-shot can
  be lost in two ways and no other: a decision that clears the field first, and
  a reality that replaces the one that holds it. Otherwise it comes, while the adapter
  ticks: telemetry of a bot that has not spawned, or that was kicked, makes the
  session ready for the engine (`systems.go:375`), and nothing executes what it
  then sends.
* `SessionNeverReturns`: the engine never falls back to a session it has left.
* `CounterExact`, `NothingRunsAfterReturn`, `NilMeansDone`: whatever is
  cancelled, closed or panics, the counter of a call is the number of its chunks
  that are unsent, queued or running; the function never runs after its caller
  has returned; a nil error means that every index was done, since the recover's
  record comes before the Done that lets the caller go on.
* `CallsReturn`, `CloseReturns`: a call returns if the pool is not closed under
  it, and Close returns with chunks left in the queue.
* `Inv`, `OneHost`, `StoppedNotRestarted`: two Node hosts never run at once, and
  the watch of a stopped or earlier host starts none.
* `CrashedHostReturns`, `NothingLeft`, `KeepsLifecycle`: a crashed host is
  replaced, unless the one restart fails; when the context ends before Run, no
  process, watch or accept is left. A Close while the context lives does not
  reach a restart that is already waiting, and a host it starts is then ended by
  the context only.

* `NoRaces`, `QueriesSettled`: for every registration the compiler accepts, no two
  goroutines of a wave touch one component unless both only read it, and no
  command that waits concerns an archetype a running system queries.
* `RunsInOrder`, `PlanHolds`: a system runs once a frame, after all it waits for;
  the executor never meets a plan it has to refuse, and leaves nothing staged.
* `WorldInv`, `CommitNeverFails`, `ImplementsStore`: rows, locations, free indices
  and the bot index agree; a batch is all or nothing; a handle names one
  entity until that is destroyed, and nothing afterwards.
* `ChunksMirrored`: once all is applied, every column the server has loaded is in
  the engine's view as it is there. Of columns the server has not loaded it says
  something only for a geometry met for the first time.
* `EntitiesMirrored`: every entity in sight is known, where it is or where it
  appeared (a move in the batch of the arrival is not told); none is invented in
  a first session. Of an entity whose arrival was batched with an older move of it
  (`overtaken`) it says that it is known, not where, because the engine applies moves
  after additions and does have it at the older place. That happens when an error has
  scheduled a retry and the bot is kicked or ends just before it runs: `connect()`
  resets neither `#pendingEntities` nor its timer (`mineflayer_adapter.ts:222`), so
  what the next session's entities do joins the batch of the last one, although
  `messages.go:116` calls an observation one of a single session attempt. It also
  happens when an arrival is reported twice without a removal.
* `InventoryTrue`: no slot the engine lists is wrong, unless the last observation of
  the inventory was that of a dropped bot (`strayed`), which stays until the next
  change. It need not list all slots: an inventory update replaces the inventory by the
  slots that changed (`systems.go:353`), so it says nothing of the forgotten ones.
* `MotionSettles`: a bot that comes to rest is where the engine believes it is, in
  spite of the throttle, of the zeroes of "spawned" and of what a dropped bot reports
  of itself.

### What the violated runs show

* `InFlightFieldKept`: a goal that is not a one-shot clears the field of the
  one in flight. `systems.go:1068` says it is kept. If the adapter has not run
  it yet, no answer comes, and no one-shot is sent again in that session.
* `TargetsScopedToSession`: a delta sent before the engine has heard of the
  reconnect is merged into the new bot. `mineflayer_adapter.ts:286` says stale
  targets do not survive.
* `OutcomesOfThisBot`: the promise of a one-shot the old bot began is reported
  under the sequence the new session reuses. The dig compares its epoch; the
  one-shots do not.
* `ClosedPoolRefuses`: ParallelFor's select may send to a closed pool that has
  room in its queue, and then waits for ever. `pool_test.go:168` expects an error
  and gets one only when the first select of the call takes the stop channel.
* `ViewOfOneSession`: a reconnect into a dimension of the same geometry leaves the
  columns of the earlier session in the view, beside those of the new one, since
  only another geometry empties it. `resources.go:33` calls the view one of a
  single session attempt.

### Fairness

`Fairness` assumes that the engine's loop, the supervisor and Node's event loop
keep running (weak fairness of their steps), that the selector, which runs every
tick, runs while an answer waits, and that the promises of Mineflayer settle.
The last is an assumption about the library. Nothing is assumed about the
Minecraft server: a bot need not spawn, send anything or lose its connection,
and the behaviors need not ever change their decision. `InFlightEnds` therefore
promises nothing once the session is left, the bot is lost or a bound is reached.

For the pool: goroutines run, the function of a chunk ends and its deferred calls run. A caller or a
worker takes some ready case of its select, but no case in particular. For the
supervisor: its goroutines run, Run notices its context and its errors, a process
that is killed or whose socket closes ends (`host.ts` exits when its socket
closes), and a connection whose process has ended, or that was closed, ends
`serve`. That a process connects is not assumed.

For the views: the engine drains its Inbox every tick, Mineflayer's physics tick
runs while the bot is in the world, and time passes. Nothing is assumed of the
server. The frame has no liveness property: whether a system's `Run` returns is
up to the system.

## Theorems

Proved by TLAPS for every value of the constants.

* `ControllerLinkProofs`:
  * `MergeOfDiff` (merging the difference of two states into the first gives the
    second), `EmptyDiff` (it is empty exactly when they are equal),
    `ValidateExclusive` and `ValidateIdempotent`, of `ControllerState`.
  * `TypeCorrect`: `Spec => []TypeOK`.
  * `FeedbackOfThisSession`: `Spec => []RealityOfThisSession`. Inductive with
    "a reality is held only when a remote session is known": an observation of
    another session clears the view whether or not its sequence is accepted.
  * `ReconnectNeverLost`: `Spec => []ReconnectPending`. The invariant adds that
    a set flag without a bot has a timer behind it, and that a bot that still
    has events to send exists only in a configured host.
  * `SessionsMoveForward`: `Spec => SessionNeverReturns`. The invariant orders
    the sessions: the engine's, then those of the messages on their way in the
    order they were written, then the host's.

* `ControllerDeliveryProofs`: what the link delivers, from one inductive invariant
  (`DeliveryInvariant`, `DInv`).
  * The proof first says of every action what the invariant can tell of it: `Step`
    has a dozen kinds (the engine selects, a delta is merged or passed over, a bot is
    connected, the adapter ticks, a promise settles, the host dies, ...), and the
    invariant is carried over these instead of over the actions.
  * A session starts `Fresh`, known to the host only and with nothing in the
    adapter, and is `InStep` once the engine has heard of it. `InStepBack` says that
    no other step leads into `InStep`, so what holds in step is established there and
    kept from then on.
  * `DeltasAddUp`: `Spec => []AdapterAgrees`. For every field the last write on its
    way is what was sent last, or there is none and the adapter holds it
    (`AgreesInv`); `SentInv` makes the difference of two validated states write what
    changed and nothing else.
  * `AnswerStillComes`: `Spec => []InFlightAnswerable`. Either the key of the one-shot
    in flight is reported, and then carried by the buffer, a message or the view, or
    the one-shot itself is still on its way, due or running (`FlightInv`).
  * `AnsweredOnce`: `Spec => []OneAnswerEach`. What the host has said it remembers
    (`ReportedInv`), so what it says next is apart from all that is on its way
    (`AnswersInv`).
  * `OneShotAtATime`, `OutcomesOfTheirDelta`: `OneShotsOneAtATime` and
    `OutcomesGenuine` while `sessions =< 1`, for any number of deltas and
    observations. In a later session neither holds: a promise of the bot before it may
    answer under the sequence of the new session, which is what `Link_stale_promise`
    shows. The run that checks the two, `Link_controls`, has one session as well.

* `HostSupervisorProofs`:
  * `FieldsAgree`: `Spec => []Inv`. The invariant is inductive as it stands:
    while the supervisor is started its fields all name the latest host, whose
    context is not cancelled, and a host that is live is that one.
  * `AtMostOneHost`, `NoRestartOfTheStopped`: from that invariant.
  * `SupervisorRefinesLifecycle`: `Spec => Lifecycle!Spec`, step by step; only
    the fairness of `HostLifecycle` is left to the run `Host_restarts`.

* `EcsWorldProofs`:
  * `WorldSound`: `WorldSpec => []WorldInv`. `WorldInv` is inductive. The lemmas take
    an operation apart into a removal (`RemovalSound`: the row is filled with the last
    one, whose entity is found again) and a placement (`PlacementSound`), between
    which one index is of no row; `RowsOf` and `BotsOf` carry the bot index
    across both.
  * `CommitHolds`: `WorldSpec => []CommitNeverFails`. `BatchFits` is what makes it
    inductive: the profiles of what is left of the batch are free and distinct,
    and applying its head takes one of them only.
  * `WorldImplementsStore`: `WorldSpec => ImplementsStore`. Each operation is first
    reduced to its shape (`InsertShape`, `DestroyShape`, `MigrateShape`); from that the
    bundle of every other entity is what it was, though its row may have moved
    (`RemovalKeepsRows`, `PlacementKeepsRows`), and the set of issued handles is that of
    the generations used. `Bounded` keeps the handles within the bounds.

* `FrameScheduleProofs`: every safety property of `Frame_plan`, for any phases,
  systems, declared accesses, archetypes and any number of frames.
  * The compiler. `PhasesSorted`: the order of phases is a permutation in which each
    comes after those it names. `GreedyWave`: the packing of a wave leaves out no
    system but for a conflict, and puts no two together that conflict.
    `PhaseWaves` and `AllWaves`: when compilation does not refuse, the waves hold every
    system once, and each after all it waits for. `PlanOfNodes` adds the Sync nodes:
    `GoodPlan` says of a plan that no wave queries an archetype that is dirty
    when it starts, or that one of its own systems changes, and `PlanWith` that at
    its end every system is done and nothing is dirty.
  * The compiler's three recursions are functions on subsets or on sequences; their
    unfolding and their termination come from `ListLemmas`, whose `Induction` is
    over sets in place of predicates (`Unrolled`, `FoldUnfolds`, `FlattenIs`).
  * The executor. `FrameInv` says for each place it can be at (`Nowhere`, `Waiting`,
    `AtNode`, `InSync`, `InWave`, `Stopped`) which systems have run, as a set
    the plan determines (`Earlier`), and that what is dirty is among what the plan says
    is (`DirtyAt`). The properties are not inductive by themselves: that the tables a wave
    queries are settled depends on every node before it.
    `FrameInv` was checked by TLC on the instance of `Frame_plan` first.
  * `FrameTypes`, `GoroutinesApart`, `RowsSettled`, `EachOnceInOrder` and
    `PlanIsFollowed` follow from it. `SchedulerKeepsWorld` and
    `SchedulerImplementsStore` carry `WorldInv`, `CommitNeverFails` and the
    refinement of `EntityStore` over from the world alone to the world as the
    frame uses it: a step of the frame is one of the world, the end of a wave, which
    stages (`StageKeepsWorld`), or leaves the world as it is.

* `WorkerPoolProofs`: `PoolTypes`, `CounterIsExact`, `ReturnIsQuiet` and
  `NilErrorMeansDone`, the four safety invariants of `Pool_calls`, from one
  inductive invariant:
  * the counter of a call is what it has still to send, by the code's division,
    plus its jobs in the channel and at the workers (`Counted`). That the
    division is the number of chunks is a lemma (`ChunksAreStarts`, a bijection);
    that the chunk sent is one less of them is another (`ChunksStep`);
  * each place in `ParallelFor` fixes what is known of the loop variable, the
    counter and the result (`Phase`);
  * every index below the loop variable is in a chunk that ended, waits or runs,
    unless one of them panicked (`Covered`), and a job whose Done may run has ended or
    panicked (`Ended`).

  The sign of the counter is no conjunct of the invariant; it follows from what
  the counter counts.

* `WorldMirrorProofs`: `TypeCorrect` (of `MirrorTypeOK`), `ColumnsTrue`, `EntitiesTrue` and
  `SlotsTrue`, the four invariants of `Mirror_views`. They hold for a `Join` at any moment
  after a loss, with whatever the batch then holds.
  * The fold lemmas (`ListLemmas`). `Induction` is proved from the library's
    well-founded order of finite sets, over sets in place of predicates; from it that a fold over a
    sequence exists (`FoldExists`) and that `Written` and `SetBlockStates` unfold into one
    step per element. `CoalescedIsWritten`: what is told of a slot is what the task has
    left in it. `RecordsInOrder`: records applied one by one give each block its last.
  * `CourseInv`. A true statement about the engine's views holds only when nothing is on
    its way, so the invariant follows what *will* be: there is a course `h` of views,
    from the present one, each the one before after the next observation, and the last
    of them `Ends` true of the bot's surroundings. A task of the host leaves the end
    as it is or appends one or two observations to the course (`Silent`, `Says`,
    `SaysTwice`); the engine takes one step along it (`CourseDeliver`); a crash cuts it
    (`CourseCrash`), where all that is left to say is that every view of the course is
    of a dimension the bot has been in (`Known`). That is what the next session needs:
    a geometry it meets for the first time is in no view.
  * `BatchInv` says what the entity batch holds of an entity in sight: where it came into
    sight, or where it has moved since the last flush, and never its removal; a move
    in it that is older than the arrival makes the entity one of `overtaken`.

The assumptions are the named ASSUMEs of the modules: `NoTarget` is not a
target, the bounds are naturals, every decision with an action has a target; of the
views, that `None` and `Unreadable` are no column, place or geometry, and that batches
are sequences of records and of slot updates; of the world and the frame, that the empty
set is no archetype, `NoProfile` no profile, and that what a system's definition declares
to change are archetypes of the world. Model-checked only, since the prover has
neither ENABLED nor fairness: every liveness property (`InFlightEnds`, `Reconnects`,
`CallsReturn`, `CloseReturns`, `CrashedHostReturns`, `NothingLeft`, `MotionSettles`
and the fairness of `HostLifecycle`).

## Not modelled

Floating-point arithmetic (scores, field of view, ray casting, distances),
conversions field by field, generated code, configuration and byte decoding of
chunks; the registries of blocks and items and the protobuf code are most of the
repository's lines and have no control of their own. `Controller.stop` is left
out, since it runs only as the process exits.

* The behavior engine: its goal lifecycle hangs on comparing scores, which are
  sums of floats over positions; without them any plan may win, which is what
  `Decisions` of the link already says.
* Perception: geometry.
* The frame codec and the asynchronous log handler: small and local, and each is
  exercised by its tests; they are next in the plan.
* In the modelled parts: session attempts of the views (every caller passes the
  attempt it has just read), the migrations and destructions nothing can stage,
  and systems that touch the tables outside their declared access, which nothing
  in the code would notice.

## Plan

1. `BehaviorPlans`: the goal lifecycle, the plan caches and their eviction, with the
   winner of a comparison left open.
2. `AsyncLog` and `FrameCodec`.
