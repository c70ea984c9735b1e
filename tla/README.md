# CitadelOps Desktop: a TLA+ model of the server's core

CitadelOps Desktop is a Go server with a web client that automates accounts of
an online game. Every change it makes to a game account is an *intent*: a named
request that is planned into steps, kept apart from conflicting work, written
ahead to SQLite, sent over one connection, and answered by a receipt. A step
that is repeated by mistake spends an account's troops or currency twice, and
one that is silently lost stops an automation. Around the engine stand a session
with its reconnects, a state that is saved while it changes, and a protocol that
moves a hosted account from one worker cell to another. This directory models
the parts of the server that carry these promises, checks them with TLC on
small instances, and proves the central ones with TLAPS for all instances.

Paths are relative to the repository's `Server/` directory.

## 1. Inventory

| Component | State | Operations | Talks to |
|---|---|---|---|
| Resource claims (`Intent/Claims.go`, `Resources.go`) | waiters, holders, next id | acquireResources, release, dispatchLocked | the engine, once per execution |
| Outbound router (`Outbound/`) | two lane queues, in-flight map, pacing, one worker | Send, Reset, Close | the engine calls Send; the session controller resets and supplies the writer |
| Operation lifecycle (`Intent/Engine.go`, `OperationStore.go`, `Drain.go`) | bounded receipt window, hashes, durable marks, active set, SQLite rows, drain flag | Submit, SubmitDetached, Operation, BeginDrain/FinishOpen, Recover, Prune | API, scheduler, automations; claims, admission, router |
| Step execution (`Intent/Engine.go` executeStep) | pending waiters, reservations, attempt count | send, await response, await commit, retry, compensate | router, ingest pipeline, coin gate, lane safety |
| Receipt stream | event sequence, subscribers | publish, Subscribe, Await | API clients |
| Scheduler (`Scheduling/Scheduler.go`) | definitions in the state store, running map, due timer | Run, dispatchDue, execute, report | state store, engine |
| Admission (`Intent/Admission.go`) | waiters, running classes, windows | acquire, release, timer wake-up | the engine |
| Lane safety (`Intent/LaneSafety.go`) | durable locks per automation lane | check, lock, clear | the engine, automations |
| Coin gate (`App/CoinGate.go`) | pending debits, balance watermark | reserve, complete, reconcile | step execution, ingest |
| Session (`Session/`) | runs of the controller and of the transport, statuses, connection generation, frame outbox, ingest queue | Start, Stop, Reconnect, login, park, forward, accept, commit | router, ingest, state store |
| Ingest (`Ingest/`) | wire sequence, commit sequence | decode, reduce, commit | state store, step execution |
| State store (`State/`, `persistState` in `App/Application.go`) | snapshot, revision, subscriber channels, batch, manifest and component files | publish, force, flush, save, load | nearly all |
| Automation (`Automation/`) | per-lane runtime | evaluate, submit, back off | state store, engine |
| Accounts (`Accounts/`, `Runtime/`) | assignments, runtimes, three journals (source fence, profile binding, controller epoch), leases | Reconcile, stop a source, reserve and activate a destination, transfer a profile | the controller service; whole servers |
| API, history, reports, telemetry, world intelligence, metrics, game data, domain calculations, support packages, web client | tables, catalogues | requests and queries | - |

What is hard in this code:

- *Interleavings.* Go selects choose freely between a grant and a cancelled
  context (`Claims.go:76-95`); Send reads `dispatchedAt` without the lock that
  guards it (`Router.go:161`); the lookup of an evicted receipt reads the store
  outside the engine's mutex (`Engine.go:1115`).
- *Failure.* A write may fail before or after it reached the game, a save may
  fail around a send, the process may stop between any two durable writes, a
  journal's rename may be on disk although its fsync failed, and the state is
  saved some time after it changes.
- *Order.* The receipt of a superseded execution arrives after its
  replacement; Reset and a dispatch in flight both write the pacing state; a
  publisher that folds a full channel and its reader receive from the same end;
  requests of earlier placements reach a cell after the account came back;
  frames of one connection are handled while the next one is up.
- *Liveness.* One-slot signal channels, capped aging, due, retry and admission
  timers have to wake every waiter.
- *Limits.* A lane's queue, the receipt window, the durable history and every
  subscriber's channel are bounded, and eviction races with use.

What makes each component correct: claims exclude overlapping work and starve
nobody; the router's outcome tells the truth about the wire; a step is sent
again under its operation id only when the game refused it, and the id's row
never claims what did not happen; a drained
engine is idle; a scheduled operation runs once, when due, and its receipt goes
to its own version; a step settles what it reserved exactly once; a late or
foreign frame never settles another step; a lock that was saved closes its lane
for its whole time; Await returns; a save that was acknowledged survives a crash
and a crash leaves one generation of the state; frames are committed in order,
in the session of their own connection; an account runs on one cell at a time.
`PROJECT.json` lists each hazard with its line and its property.

## 2. Modules

| Module | Models |
|---|---|
| `ResourceKeys` | the key algebra of `Resources.go`: when two resource keys, or two lists of them, conflict |
| `Claims` | the claim manager |
| `OutboundRouter` | Send, the worker and the two lanes |
| `Operations` | reservation, execution, durable row, eviction, lookup, drain, restart |
| `StepExecution` | one command step, the coin gate and the commit of frames |
| `Scheduler` | definitions, the dispatch loop, executions, persistence |
| `Runtime`, `Admission`, `LaneSafety`, `ReceiptStream` | the clock, the admission slots, the lane locks, publishing and Await |
| `Execution` | their composition: `execute` from its gate to its final receipt |
| `StatePersistence` | from a committed change to the manifest on disk and back |
| `DirectTransport`, `SessionController` | the background transport with its outbox; the controller and its ingest worker over it |
| `Handover` | cells, journals and requests of the settings-only switch |
| `SingleOwner` | what `Handover` promises, as an abstract specification |
| `ClaimsProofs`, `OutboundRouterProofs`, `OperationsProofs`, `StepExecutionProofs`, `SchedulerProofs`, `ExecutionProofs`, `StatePersistenceProofs`, `HandoverProofs` | the theorems |
| `MC...` | instances for TLC: request sets, command tables, symmetry |

A property's mutant, where there is one, is written just before the definition
it alters.

**Claims.** A caller is a goroutine that calls `acquireResources` again and
again. Each critical section of the manager's mutex is one step, with the
`dispatchLocked` pass at its end as the operator `Granted`, which walks the
sorted queue and reserves the keys of the waiters it has to leave behind. The
select at the end of `acquireResources` is the two actions `takeReady` and
`abandonWait`, both enabled when the grant and the cancellation are both there.
Time appears only as `Age`, which raises the waiters' priorities by one up to
the cap of `AgedPriority`; deadlines are ranks. Waiter ids are the relation
`ahead`, so no counter needs a bound.

**OutboundRouter.** One action per section of `router.mu` and per read or
write another goroutine can observe. The worker's dispatch is split where Send
or Reset may come between: taking the command, the deadline and context tests,
the stamp, the write, the record of the pacing and the completion. `written`
records what the game may have received: it is what an outcome is compared
with. The transport is external: it writes and succeeds, refuses before
writing, or fails after it may have written. Ids matter only among the queued
commands, so a command that leaves the queue gives its place up.

**Operations.** All operations are mutating ones. Submitters run prepare and
execute, readers run `Operation(id)`. Store calls are one step with the
critical section that follows, except where another actor may come between: the
final save and its publication, and the read of an evicted row and its caching.
A plan is a number of steps that count as progress, with `ResumeRebuild` steps
between them that every attempt sends anew (`dispatchRebuild`). The answer of a
dispatch is chosen freely: acknowledged, refused for good, of unknown outcome,
or refused for now, when the engine sends the step again or plans again
(`dispatchRefused`: the response-retry loop, and a stale answer while no step is
completed). How often it does so before it gives up (`ResponseRetry`'s limit,
`maximumStaleReplans`) is left open, as the last time is a failure that may come
at any time. `standing` counts the sends of a step that stand: a send that
the game refused for now does not, because the engine repeats it by design
(`LaneSafety_test.go:192-222` expects three sends of one step). `dispatched`,
`standing`, `applied`, `decided` and `pruned` are history variables, never read
but for the bound `MaxDispatches` on `standing`; `MaxCrashes` is the other bound.
`CrashAndRecover` is the loss of all memory and then start-up: `Recover`
rewrites every row that is not final, `Prune` trims the history, and `Recent`
fills the window.

**Scheduler.** A definition is an id with a version and a content. The loop is
split at its snapshot, its visit of each due id and its claim in the store,
because definitions change between them. Each execution submits, waits and
reports in steps of its own. The engine's answer to Submit is external and
comes from a ledger: an operation id it knows gets the receipt it had, as
`Operations` establishes. `persistState` saves a snapshot at any later moment,
and `Crash` returns to it.

**StepExecution.** A step is a goroutine in `executeStep`; its `pc` says in which
of the function's waits it is, and each return after the send is an action of
its own with what it tells the gate: dropped (`DefinitiveFailure`), dated
(`Indeterminate`, the deferred callback), or completed. The worker dispatches
one command at a time and validates it twice, once in the router and once in
the transport; each validation reads the planning context and then locks the
gate, in two steps, because a commit may come between. `Completed` reads its
context in the same step. A debit is a record of the connection, the time of
the reservation and the time of the outcome; `completedAt` and `indeterminateAt`
are one field because each try has one of them at most. Time is the number of
frames received, so whatever happens between two frames happens at one time and
strict comparisons are at their weakest; the wall clock is assumed not to step
back. Ingest observes frames in wire order, and commits them in that order at
any later moment. The game is external: it serves commands in order, may refuse
one, may put the balance into its response or not, and may send a balance
unasked. What is on a connection is lost with it. `after` in a balance and the
sets `served` and `early` are history: which commands the balance includes, and
which debits were released by one that does not. `Reset` may take a command
that the worker already has: Send returns, the step settles its debit and is
over (`left`), while `pc` goes on to say where the worker is, which may still
reserve for the command and write it. An error answer drops the debit and ends
the step, or lets it succeed when the step lists its code, which is taken to say
that the game did not carry the command out. A step with the barrier "committed"
waits as the second half of "both" does; the instance has the latter, and the
theorems cover all barriers.

**Execution.** `Admission`, `LaneSafety` and `ReceiptStream` are components of one
process; `Execution` extends all three and adds the operation that goes through
them: the lane's gate, the wait for a locked bot, the admission slot, the bounded
wait for claims (granted, or timed out with the slot given back and a new try), the
second check of the lane and of the bot lock, the write, and the answer: a success,
a failure, a code that makes the engine send the step again (`Resend`, through its
gate and guard), or one that makes it plan again (`Stale`). A bot that is locked
before the write pauses the operation (`Yield`): its slot is given back, the paused
receipt is published, and it starts over at the gate, where the application's gate
keeps it until the bot is unlocked (`Barred`; before the claims that gate waits and
never answers `ErrAutomationLocked`). The bot lock is a setting, or traffic of the
player, and survives a restart here. A plan has one step, so a pause or a replan
never meets a completed one; that is in `Operations`. `acquire` is split where its
mutex is: the append with `dispatchLocked`, the computation of the next wake-up, and
the four cases of its select; the clock may move between the first two. A waiter is
known by the id the manager gave it (`nextID`), which also orders waiters of one
priority. A rejection writes the lane's lock under `laneSafety.mu` and saves it. The
answer of that save is not used: it is `saveStateEvent`, which may acknowledge what
is in no batch (the violated run `state_persistence_order`), and the disk has the
new locks or the old ones whatever it says. The coordinator's update of the same
record is split between its view and its commit; a reviewer may clear the lock, with
the roll-back of a failed save. `publish` sends every receipt into the bounded
channels, drops the oldest of a full one and marks the gap; Await subscribes, reads,
loops, and reads again after a gap. Claims, router and rows are what their own
modules say: here a claim is granted or times out, and a write moves the lane's next
opening. `behind` (writes that followed a lock of their lane), `incident` (when the
last lock was observed that this process has written or loaded) and `durable` (the
same of the last lock that reached the disk) are history.

**StatePersistence.** A component's value is known by the revision that produced
it: the log of the components each revision changed determines every
generation, and a component file is a revision number. `publish` sends the event
or, when the channel is full, receives what is in it one event at a time and
sends the merged event; the worker receives from the same channel. The worker
observes, forces, flushes, retries and stops as `persistState` does; a caller
of `saveStateEvent` waits for its answer, its context or the worker's end. A save
writes the dirty components, the manifest, and removes what no manifest names;
it may fail before the manifest is replaced or after it, when the disk may hold
either (`stable` is the set of manifests that a machine crash may leave).
`acked` and `skipped` are history: revisions acknowledged, and revisions that the
worker passed over while a publisher held them.

**DirectTransport and SessionController.** A run is a number; its context is
over when it is no longer `current` (transport) or `live` (controller). The
transport's status is stamped and stored in one step and enqueued in another,
as in the code, into a channel that drops its oldest entry. A login takes the
generation after the status's; received frames go to the outbox, and the
forwarder of a run, which needs the lease, sends the first one and removes it in
two steps. The controller's loop takes a status or a frame; a frame is judged
with the transport's status that was read when it was taken, remembers the
session it was observed in, waits for room in the ingest queue, is judged again
by the worker, and once more inside the store's update. Start, Stop and
Reconnect hold one mutex, so they are one caller, split where the transport's
goroutines may come between. `outcome` and `committed` (what became of a frame),
`reset` and `overtaken` (see section 4) are history. A goroutine whose context
is over and that can only return does so in the step that ends the context.

**Handover.** Every cell has its assignment, its runtime, its safety lock and
three journals, each with the value in memory and the set of values that a
crash may leave on disk: memory is set first and stays when a write fails.
A request carries a placement epoch and a controller epoch and is an action of
the cell that receives it. The controller is a service outside the repository:
it departs, stops, reserves, commits the next placement and reconciles, and any
request it ever had reason to send may reach a cell at any time, once, again or
never, from any controller that ever led; each answer may be lost. Deposed
controllers are turned away by `withControlFence`. Safety locks appear while an
account runs or is being stopped and expire. `SingleOwner` has three variables,
who runs, in which generation, and where that generation is at home; the
refinement mapping takes them from the runtimes and from the history `last`.

The families meet at their interfaces and are not composed into one state
space: `Operations` takes the outcome of a dispatch as any outcome, which
includes all that `OutboundRouter` can produce, the scheduler's ledger answers
as `Operations` does, and the locks of `Handover` are those of `LaneSafety`,
abstracted to one. What Send tells the engine about the wire is a property of
the router; what the engine makes of it is a property of operations.

## 3. Runs

Deadlock is checked in the runs whose system cannot stop (claims, operations);
in the others the bounds let it. Every property of a passing run has a mutant
in `PROJECT.json`, under which TLC finds the property violated.

| Run | Instance | Distinct states | Shows |
|---|---|---|---|
| `claims` | 3 callers, 5 requests, 2 priorities, deadlines | 479,816 | `WorkIsExclusive`, `NoLostWakeup`, `NoOvertakingAtCap`, `FairWithoutDeadlines` |
| `router` | 2 launches on one paced lane of capacity 1, resets, shutdown | 353,430 | `OutcomeTellsTheWire`, `PacedSends`, `EverySendReturns` |
| `operations` | 2 submitters, 2 ids, 2 bodies, 2 steps, a crash, drains | 1,927,899 | `AtMostOnce`, `WriteAhead`, `RowsAreTruthful`, `DrainedIsIdle` |
| `operations_lookup` | a submitter and a reader, window of 1 | 2,852,933 | `AtMostOnceUnlessCrossed` |
| `step_execution` | 2 steps, one retried, purse 3, reserve 1, a push, a reconnect, resets | 5,604,821 | `Affordable`, `EarlyIsUncertain`, `ReservationsAreSettled` |
| `scheduler` | 1 id, 2 versions, 2 contents, a crash, a move | 756,007 | `ExecutionsAreOwn`, `DueIsExecutedAlone` |
| `execution` | 2 operations of one class and lane, an Await with a buffer of 1, one turn | 603,307 | `SlotsAreSound`, `NoSendBehindOwnClass`, `LockOutlivesRestart`, `AwaitMissesNothing`, `AwaitsReturn` |
| `state_persistence` | 2 components and a transient one, 3 revisions, channel of 2, 2 faults | 257,018 | `AcknowledgedUnlessSkipped`, `RecoveryIsAGeneration`, `EverythingReachesDisk`, `SavesReturn` |
| `session` | 2 logins, 2 frames, 3 calls or failures, full channels | 387,503 | `FramesInOrder`, `CurrentFramesAreAccepted`, `FramesAreSettled`, `SessionFollowsTransport` |
| `handover` | 2 cells, 3 placements, 2 controllers, 2 faults | 51,648 | `OneRuntime`, `CooldownFollowsAccount`, `AcknowledgedStopHolds`, `ControlNeverRegresses`, `ImplementsSingleOwner`, `HandoversFinish` |
| `handover_return`, `state_persistence_order` | | | violated, see section 4 |

Four runs check a type invariant as well. Those of the router, the scheduler,
the execution family, persistence and the session hold on the same instances
and are kept as the description of the state.

**Bounds.** Three callers are the least for a waiter that is overtaken while it
conflicts with a holder and with another waiter; the request set has two
independent castles, a request for both with a wildcard, an account-wide key
and the empty request, one for each branch of the conflict rules. The router
needs two commands for one to wait while another is in flight, on a lane of
capacity one to meet the limit; one of them has a deadline, the other a caller
that gives up; resets repeat without bound. Two ids overflow a window or a
history of one, so that eviction and pruning happen; two steps make partial
success possible; two bodies a conflict; one crash suffices because recovery
leaves only final rows, and further ones repeat it, while `MaxDispatches = 2` is
one more than the property allows. Two steps compete for the purse, which pays
for two commands and keeps the reserve, so that the third one, a retry, has to
be refused while a debit is out; one unasked balance is enough to arrive between
any two steps of a command, one reconnect to make every step's connection an old
one. A scheduler id meets another only in the loop's work list, so one id with
two versions shows what rescheduling does. In the execution family two
operations share a class and a lane, so that one waits while the other holds,
writes and is rejected; a lock and a lane's pause last one tick each, and one
tick of time opens both; a buffer of one makes every second receipt a gap.
`MaxTurns = 1` is shared by what could go on for ever: a replan, a resend, a claim
time-out, a closing of the bot lock, an update of the coordinator, a crash. Each
of them meets every other event at every point, but no two of them meet in the
run; the safety theorems have no bound.
Three revisions fill a channel of two and leave one event to the publisher; two
faults are a failed write and a crash, in either order. Two logins give the old
and the new connection, each with its forwarder; three calls are a Start, a
Stop and a Start, or a Start with a failing connection; every channel is as
small as makes it full. Three placements bring an account to a cell and back to
it, two controllers depose one, and two faults fail a journal and crash the
cell that holds it.
Symmetry is used for submitters, in a run without temporal properties.

**What is left where a promise does not hold.** Some properties name the one
circumstance that breaks the promise the code or its comments make, and hold
otherwise; section 4 describes each circumstance. `FairWithoutDeadlines`: nobody
starves once requests stop carrying deadlines. `OutcomeTellsTheWire` leaves out the
error of the `router.ctx.Done` branch. `AtMostOnceUnlessCrossed`: a step of an
evicted id is sent again without the game's refusal only if two actors cross at the
id: a resubmission inside a lookup of it, or a second reservation before the first
one has registered. The run has one submitter and no crash, so it meets the first
crossing only; the theorem covers both, and crashes. `ReservationsAreSettled`: the
debit of a command that `Reset` took from the worker inside a validation stays
undated and is held until a balance of another connection; if its step was told that
it failed, the command is never written, so coins are held and not spent.
`DueIsExecutedAlone`: a due version runs unless another version of its id is still
running. `AwaitsReturn` leaves out an operation that is itself stranded for good, or
kept back by a bot that stays locked: whoever waits behind such a one is not left
out, and a pause, a replan or a resend is no excuse. `LockOutlivesRestart` speaks
across a restart of locks that reached the disk, because the answer of the save does
not say so. `AcknowledgedUnlessSkipped` and `RecoveryIsAGeneration` leave out the
revisions that were passed over, `HandoversFinish` a placement whose assignment was
taken for known, `CurrentFramesAreAccepted` and `SessionFollowsTransport` behaviours
with a generation that was reset, the latter also with a status that was overtaken.

**Fairness.** Weak fairness, on a goroutine that can go on without anybody's help
and on timers that are armed: in claims, a caller in its select whose grant or
cancellation is there, a holder's deferred release, and the clock; in the router,
the callers, the worker, a Reset or close that has started to settle, and the pacing
delay; in the scheduler, its loop and executions; in execution, each operation
(whose answer comes, or whose time-out does), the reader of an Await, and time; in
persistence, the publisher, the worker with its retry timer, and a caller whose
worker is gone; in the session, the caller's remaining steps, the loop and worker of
the live run, the forwarders and the enqueueing of statuses. This is what Go's
scheduler and runtime timers give. In the hand-over it is the controller that
repeats the requests of the step it is at until one succeeds (the exact retries of
`Docs/BetaWorkerHandover.md`), and the cell that finishes what it began. Nothing is
assumed of callers who might submit, cancel, reset, lock or unlock the bot, review
or shut down, of logins and frames, of the moment of a save, or of a controller's
decision to move an account.

## 4. Disagreements between the code and what it says of itself

Two are runs that TLC refutes, with the quotation in `PROJECT.json`.

- `handover_return`: `ActivateLocalProfile` leaves the assignment of an earlier
  stay in the orchestrator's map, so the Reconcile of a returning account takes
  it for known, builds no application and reports success. The archive path
  deletes the entry for exactly this reason (`ProfileAdoption.go:552-553`).
- `state_persistence_order`: while a publisher folds a full channel, the worker
  takes a later event than the one the publisher holds, covers its revision and
  acknowledges a save of the held revision that is in no batch. The comment at
  `Application.go:785-788` relies on the order of the subscription. One caller of
  that save is `writeLaneLock` (`LaneSafety.go:222`): a safety lock that it
  reported as saved may be lost by a crash before the merged event is flushed,
  and its lane is open again after the restart, within the 30 minutes.

The others are found by the same models when the exception in a property is
taken away; the property that keeps the rest is named.

- *Claims* (`FairWithoutDeadlines`). `Priority.go:44-46` says that aging is for
  "eventually allowing the oldest conflicting work to win the FIFO tie instead
  of starving indefinitely"; `Claims.go:157` compares deadlines before ids, so a
  stream of requests with deadlines passes one without for ever.
- *Router* (`OutcomeTellsTheWire`). The `router.ctx.Done` branches of Send
  (`Router.go:142-147`) return an unmarked error for a command that was written;
  an unmarked error means to the engine that nothing was sent.
- *Operations* (`AtMostOnceUnlessCrossed`). A lookup may mark an evicted id as
  durable (`Engine.go:1121`) just after a resubmission of the id entered the
  window; the resubmission skips `Reserve`, finds no row to stop it, and sends
  again. With two submitters and a window of one the same skip is reached
  without a reader, when an id is evicted between `reserveOperation` and
  `registerActive`: the code's window is 500 receipts or a byte limit, so it takes
  a burst. This is why `AtMostOnce` is checked with a window that holds every id.
- *Operations*. An operation that pauses after a completed step and then ends
  before its next one (`Engine.go:590`) goes through `fail`, not
  `failAfterProgress`, and its receipt says that nothing was done.
- *Scheduler* (`DueIsExecutedAlone`). A version that falls due while the
  superseded one is still in the running map is skipped (`Scheduler.go:213`), and
  the end of that one wakes nobody.
- *Admission* (`AwaitsReturn`, `Stranded`). `acquire` runs `dispatchLocked` with
  one reading of the clock and `nextWakeLocked` later with another. A lane that
  opens between the two is closed for the first and open for the second, so the
  waiter is neither granted nor given a timer; on an idle class it sleeps until
  somebody else comes.
- *Receipts*. An operation that finds its row at `Reserve` is cached without
  being published (`Engine.go:1273`), so an Await that subscribed before and saw
  a non-terminal receipt hears nothing of it. `ReceiptStream` leaves this write out.
- *Coin gate* (`EarlyIsUncertain`). `CoinGate.go:199-202` says that a balance
  refresh between reservation and acknowledgement can never release a debit.
  For a step that awaits its answer this holds. For a command that nobody awaits
  any longer (cancelled, timed out, written with an error, or sent without a
  response barrier) there is no acknowledgement: the debit is dated when the step
  gives up, and a balance that was sent before the game serves the command but
  is received later releases it. `Affordable` is stated for behaviours without
  such a release.
- *Persistence*. For an event from before its subscription, `force` relies on a
  fallback that its comment calls lossless (`Application.go:773-783`): the event
  is taken for covered already, or flushed as one older than the manifest, which
  writes nothing. No code path before the readiness handshake leaves such an
  event behind; the model has none.
- *Session* (`CurrentFramesAreAccepted`, `SessionFollowsTransport`). Start with a
  login that cannot be used replaces the transport's status without its
  generation (`DirectWebSocketTransport.go:360-366`). The next login gets
  generation 1, which is behind the one that the store remembers, and its
  statuses and frames are ignored until the generations have caught up, although
  they are of the current connection (the test at `Controller_test.go:256-257`
  expects such a frame to be accepted). The history variable `reset` marks it.
- *Session* (`FramesAreSettled`). A controller run whose context is over may still
  take a frame of the next connection from the shared channel, because a select
  chooses freely; it gives the frame up with its own run. `DirectFrameOutbox.go:21`
  says that the outbox "retains accepted frames across transport runs".
- *Session* (`SessionFollowsTransport`). A goroutine of a stopped run that enqueues
  its status late may displace a newer status from a full channel
  (`overtaken`); the next frame brings the transport's status to the store.

## 5. Proofs

All theorems hold for every value of the constants under the named assumptions
of the modules; TLC evaluates these on every run.

`ClaimsProofs` assumes `MaxPriorityAssumption`, `PrioritiesAssumption` and
`DeadlinesAssumption`.

- `ClaimsTypeCorrect`: `Spec => []TypeOK`, inductive as it stands.
- `ClaimsExclusive`: `Spec => []WorkIsExclusive`. Exclusion of the holders is
  preserved because a pass over the queue grants a waiter only when its keys
  conflict with no holder and no live waiter before it. The lemmas about
  `Granted` state this once for acquire, abandon and release. That an executing
  caller is covered needs the invariant to say where a caller in its select may
  be: waiting or held, never both.
- `ClaimsWakeEverybody`: `Spec => []NoLostWakeup`. A pass that leaves a group
  waiting has passed over the group's first member for a holder, or for an
  earlier conflicting waiter, which is then granted unless it is in the group
  and so not earlier (`DispatchServes`). That a group has a first member
  (`SomeoneIsFirst`) takes three least elements in turn, of priority, deadline
  and id, from the well-foundedness of the naturals; for the id it is the number
  of waiters ahead, so the invariant (`WakeInv`) keeps the queue finite and the
  ahead sets transitive and irreflexive.
- `ClaimsKeepTheirTurn`: `Spec => NoOvertakingAtCap`, an action property, from
  the same invariant: nobody has more than the cap, so a waiter at the cap comes
  before every later one with its deadline.

`OutboundRouterProofs` assumes `CommandsAssumption`.

- `OutcomeIsTruthful`: `Spec => []OutcomeTellsTheWire`. "Nothing was sent" is a
  promise about the future, so the invariant says what it means for a command to
  be `Dead`: enqueued once, not queued, not written, and past its context's end
  if the worker holds it before the write. `VerdictsAreTruthful` carries the
  verdict from the worker's variable to the result channel and to what Send
  returned; the other parts say which of queue, worker and settling loop has the
  command.
- `SendsArePaced`: `Spec => PacedSends`, from `PaceInv`: a lane within its delay
  is not selected, and the delay after a write is recorded before the next
  selection.

`OperationsProofs` assumes `ActorsAssumption`, `NamesAssumption` and
`BoundsAssumption`.

- `OperationsWriteAhead`: `Spec => []WriteAhead`. The property is not inductive:
  a submitter may skip `Reserve` because the id is marked durable. The invariant
  adds that marked ids have rows, as have running executions and fetched receipts
  (`RowsBehindMarks`), and that an actor at work has a target (`Targeted`), which
  hold across failed saves, eviction, lookup and recovery, and the types this
  needs. That the row claims no definite outcome which no execution decided is
  the truth of rows below.
- `OperationsDrain`: `Spec => []DrainedIsIdle`. The invariant says that an active
  id belongs to an executing submitter (`ActiveOwned`), and that nobody is
  between its admission check and its registration while admission is closed
  (`Quiet`).
- `OperationsTellTheTruth`: `Spec => []RowsAreTruthful`. The invariant is about
  the executions: the steps one counts as completed were acknowledged, over
  pauses and new plans, and the outcome it is about to save is one it may record
  (`AccountIsTrue`). Acknowledgements and decisions are never taken back
  (`Grows`), and `Recover` only writes "indeterminate".
- `OperationsAtMostOnce`: `Spec => AtMostOnceUnlessCrossed`, for any number of
  actors and any window. A mark is evicted only with its receipt
  (`MarksAreCached`), so a fresh reservation is unmarked; executions are
  registered each under its own id (`Registered`); and an execution that will
  dispatch has no send that stands of the steps after its progress
  (`NothingSentAhead`), so that what it sends again was refused. The
  last part is where a crossing would hurt: an unmarked id with a row may only
  become marked by its own execution. The proof is what showed that the second
  crossing has to be excluded too.
- `OperationsAtMostOnceInWideWindow`: `Spec => []AtMostOnce`, and `OperationsTyped`:
  `Spec => []TypeOK`, both under `WideWindow`: the ids in use are finite and fit in
  `operationMemoryLimit`, as in the run `operations`. `operationOrder` then never
  lists an id twice, so no pass evicts (`NothingEvicted`, a count by injection),
  every row and every execution has its receipt in memory, a lookup never reads
  the store, and a reservation meets nobody: `WideInv` implies `Uncrossed`, and
  the invariant of `OperationsAtMostOnce` does the rest. A restart keeps this
  because `loadRecent` brings back every row (an injection between sets of one
  size is onto).

`StepExecutionProofs` assumes `StepsAssumption`, `BarriersAssumption`,
`CoinsAssumption` and `BoundsAssumption`.

- `ReservationsSettled`: `Spec => []ReservationsAreSettled`. The property is not
  inductive: whether a debit outlives its try depends on where the step is. The
  invariant (`DebitsFollowTries`) says that a debit belongs to the current try
  or to an earlier, dated one; that the current one is dated as soon as the step
  is refreshing, retrying or done, unless `Reset` took its command; and that a
  step at its start has none. `Abandoned` says where the worker may be with a
  command that `Reset` took, and that it is before the second validation if the
  step was told that it failed. The
  actions fall into those that give the gate an outcome (`SettlingStep`), those
  that leave it alone (`QuietStep`), Validate and retry.
- `StepExecutionTyped`: `Spec => []TypeOK`; `EarlyReleasesAreUncertain`:
  `Spec => []EarlyIsUncertain`; `CommandsAreAffordable`: `Spec => []Affordable`;
  all from `CoinInvariant`: `Spec => []CoinInv`. A balance reaches the gate over
  the game, the connection, the ingest queue, the store and the context read for
  a validation, so the invariant has to say what each of them knows. It is built
  in layers, each proved from the ones below it; before the proof all of its parts
  were checked with TLC on the instance of `step_execution`.
  1. `DispatchInv`: `SettlementInv`, the shape of the state (`Shaped`), one step
     at the worker (`Dispatched`), and nothing from a connection to come
     (`Generations`).
  2. `WireInv`: stamps grow along the stream and a later stamp is of no earlier
     connection (`Stamps`); a command is written once and served once
     (`WrittenOnce`); a response says what the game did, and an error that the
     command is neither carried out nor on its way (`Answers`).
  3. `KnowInv`: what a frame shows to be carried out is counted by every balance
     after it, wherever that balance is (`Knowledge`).
  4. `RelInv`: if anybody waits for the command of a marked debit, every balance
     newer than the mark counts it; the balances of later connections count every
     served command with an older debit, and what is on its way has a debit of
     this connection (`Releases`). `EarlyIsUncertain` follows: such a balance is
     the only kind that `reconcile` lets release a debit.
  5. `BalInv`: a balance and the cost of what it counts is what the account had
     at first (`Balanced`).
  6. `CoinInv`: what was served or is on its way has a debit, or the watermark
     counts it (`Covered`), and the account can pay for all that is on its way
     and for the command that is approved. The step that matters is the second
     validation (`ApprovedIsSolvent`): the balance it reads counts no less than
     the watermark, so all it leaves out is still reserved, and the comparison
     with the reserved sum is a comparison with the real purse.

`SchedulerProofs` assumes `NamesAssumption` and `BoundsAssumption`.

- `TypeCorrect`, and `ExecutionsBelong`: `Spec => []ExecutionsAreOwn`. A report
  may end only the definition it was started for. The invariant follows an
  execution from the loop's pass to its report: versions are handed out in order
  (`DefinitionsAreNumbered`), a pass works on a version that existed
  (`PassIsSound`), the execution was entered for it (`ExecutionIsEntered`), what
  it asked of the engine and the receipt it got are its own (`AskedIsOwn`,
  `ReceiptIsOwn`), and a success was carried by the ledger (`SuccessIsCarried`).

`ExecutionProofs` assumes the named assumptions of `Runtime`, `Admission`,
`LaneSafety`, `ReceiptStream` and `Execution`. Its five theorems share one
inductive invariant, because the components run in one `Next`.

- `TypeCorrect`, and `SlotsStaySound`: `Spec => []SlotsAreSound`. A slot
  belongs to the granted operation of its class, a queue entry to one that sleeps
  ungranted, and a sleeper that is neither granted nor cancelled is in the queue
  (`SlotInv`).
- `ClassNeverSendsBehindItself`: `Spec => []NoSendBehindOwnClass`. At most one
  operation of a class is admitted, so the lane of a command that passed its
  second check cannot have been closed by its own class (`QueuedBeforeLock`).
  An action of an operation changes only what its part of the state allows
  (`Footprint`), so most of the invariant is settled once for all of them.
- `SavedLocksClose`: `Spec => []LockOutlivesRestart`, from `LocksStand`: until
  the last lock of a lane runs out it stands in memory, and on disk if it got
  there; a restart goes on from the disk, which is no newer. No step of the proof
  uses what a save reports.
- `AwaitsMissNothing`: `Spec => []AwaitMissesNothing`, inductive with the types: a
  full channel drops its oldest receipt and marks the gap, and the lemmas about
  publishing say what a channel still holds afterwards.

`StatePersistenceProofs` assumes `ChangesAssumption` and `BoundsAssumption`.

- `TypeCorrect`, `RecoversAGeneration`: `Spec => []RecoveryIsAGeneration`, and
  `AcknowledgedSurvives`: `Spec => []AcknowledgedUnlessSkipped`. Half of the
  invariant is about the channel between the store and the worker (`ChannelInv`):
  revisions are queued in order and every change is in the queue, with the
  worker, or passed over. The other half is about the disk (`DiskInv`): the
  counters in memory and in the manifest agree, a file of the manifest is
  present, and the manifest holds one generation with everything an acknowledged
  save had seen. The central lemma (`NextIsWhole`) is that the manifest a save
  writes has every change the worker has seen; with it, a crash at any point finds
  either the old or the new manifest, and both are whole.

`HandoverProofs` assumes `CellsAssumption`: any number of cells, epochs,
controllers and faults.

- `TypeCorrect`, `OneRuntimeTheorem`, `AcknowledgedStopTheorem`. None of the
  properties is inductive. The invariant says that only the cell of the last
  placement has a runtime, and only until its stop is acknowledged
  (`RunsWherePlaced`); that a stop in progress has published its fence for a
  departure of its own cell (`BusyIsFenced`); that an acknowledged stop is held
  in memory and by every fence a crash may leave (`StopsHold`), which is what
  keeps stale requests of earlier epochs from starting anything; and that a
  departure has an epoch and a destination left.
- `ControlTheorem`: `Spec => ControlNeverRegresses`, from `MarksHold`: no
  controller epoch that a cell holds or may find after a crash is below the last
  one it obeyed.
- `RefinementTheorem`: `Spec => ImplementsSingleOwner`. `LastIsOwned` ties the
  mapping to the protocol: what runs is the last runtime that was started, of the
  last placement. Each action maps to Start, Stop or a stutter of `SingleOwner`,
  which has no fairness.
- `CooldownTheorem`: `Spec => []CooldownFollowsAccount`, from `LockedWherePlaced`:
  only the profile of the last placement is locked, and only until its stop.

Only model-checked:

- liveness (`FairWithoutDeadlines`, `EverySendReturns`, `DueIsExecutedAlone`,
  `AwaitsReturn`, `EverythingReachesDisk`, `SavesReturn`, `FramesAreSettled`,
  `SessionFollowsTransport`, `HandoversFinish`), which needs fairness and
  `ENABLED` and is out of the prover's reach;
- the session's `FramesInOrder` and `CurrentFramesAreAccepted`: their invariant
  would follow a frame through the read loop, the status channel and the
  pipeline of two connections at once, and has not been worked out;
- the `TypeOK` of `Operations` in a window that evicts, whose `order` is rebuilt
  by a walk over a sequence (what such a walk computes needs induction over data).

## 6. Not modelled

- *Operations and steps.* Resolver, batch and action steps, command
  dependencies and the effect of compensation actions; non-mutating operations,
  which never reach the store; the attack launch ledger, an append-only record
  beside the rows. Of the coin gate, the formulas for a command's cost, the checks
  for malformed and overflowing amounts, and the key of commands without a
  response token, which two equal sends of one operation share
  (`CoinGate.go:217`). Whether an error after an acknowledged send
  (`Engine.go:1776`) should be failed or indeterminate is a question for the
  plans.
- *Execution.* The slots, pauses, replans and resends are modelled together with
  plans of one step; how many of the latter two are allowed is left open. That
  what is repeated may be repeated is the subject of `Operations`, which has no
  slots and no clock.
- *Lane safety.* Which response codes are classified, and the message texts.
- *Session.* The Chromium transport, whose browser process, page and debugging
  protocol are outside; the login exchange and the resolution of the build; the
  matching of responses to requests; the change of a namespace (`Controller.go:617-623`), which re-stamps a
  status and does not happen with the background transport's single namespace;
  two statuses with the same time stamp. Sent frames and those buffered during
  the login are recorded while the outbox is not paused (the code does not ask,
  `DirectWebSocketTransport.go:770`, `1141`, `1167`), so the outbox is a frame
  longer in the code at most moments of a pause; and a frame is observed when the
  ingest queue has room for it, where the code observes it before it waits
  (`Controller.go:610-632`). Either refinement takes the run beyond what TLC can
  do for its liveness properties in reasonable time; frames are ordered by the
  outbox and generations judged again at the worker and at the commit in both.
- *State.* The parts inside a component (keys and shards); automations that
  differ from their file in volatile fields only, which keep the file
  (`ComponentPersistence.go:505-513`); the direct save
  before the worker runs, the quarantine of a snapshot that cannot be loaded, the
  resume history of clients.
- *Accounts.* The transfer of a profile archive, the player-directory rebind
  (`Supervisor.go:755`), configuration sync, capacity and profile leases: files,
  hashes and process control around the switch that is modelled.
- *Automation.* Of the coordinator, only the update of a lane's record. The
  evaluation loop and the policies are decisions over game state.
- *Everything else* is decoding, decisions over game data, SQL, HTTP or user
  interface: intent planners, reducers, protocol frames, catalogues, optimizers,
  history, reports, telemetry, metrics, world intelligence, diagnostics, updates,
  localization, the web client and the tools. This is by far the larger part of
  the repository by lines, and is sequential code over large tables whose
  correctness is a matter of the data, which no model of this kind tells apart.

The data inside plans, payloads, receipts and messages is abstracted throughout:
no property here is about it.

## 7. Plan

1. Theorems: `FramesInOrder` and `CurrentFramesAreAccepted` of the session.
2. `StepExecution`, continued: two sends of one unawaited command in one
   operation, command dependencies, the compensation actions.
3. The automation coordinator's loop: one evaluation per lane at a time, and no
   submission from a state older than the last receipt.
4. An abstract ledger of what the engine promises a client, with `Operations` as
   its refinement; the same ledger then replaces the scheduler's external one.
5. The archive transfer and the player-directory rebind beside `Handover`.
