# A verification development of Ravi

Ravi is a daemon that runs agent sessions. Prompts arrive from chat channels,
schedules, tasks and other sessions; they are queued per session, released into
turns of a runtime provider (Codex, Claude, Pi, Grok), and the answers go back to
the channels. One process of one event loop holds the live sessions; several daemons
may share a NATS server, and one of them runs the singleton runners.

The modules beside this file model the parts whose correctness depends on the order
of events, translated from the source. `PROJECT.json` maps each definition that models
code to its lines, and lists the runs of TLC, the hazards of the code and the theorems
proved. Line numbers below are of the files under `src/src/`.

## 1. The system

| Component | State it keeps | Operations | Hard behaviour | What makes it correct |
|---|---|---|---|---|
| Leader election (`leader/index.ts`, `daemon.ts`) | one expiring KV key; per daemon a renewal timer, a vacancy watcher, started runners | create, renew, poll, take over, release | crashes, lost answers, late timers, graceful stops | one daemon runs the singleton runners; a vacancy is filled |
| Session pool admission (`runtime/session-dispatcher.ts`, `session-pool.ts`, `session-launcher.ts`) | map of live sessions, reservations, queue of pending starts, pending and starting marks | start, queue, drain, launch, fail, time out, restart, swap the model, reclaim, abort | state read before an `await` and used after it; release and re-acquisition of a slot | the pool keeps its maximum and its reserved slots, no start is stranded, no mark leaks |
| Delivery queue (`runtime/delivery-queue.ts`, `host-session.ts`) | per session: pending messages, stash, turn flags, tool barrier, terminal latch | push, release, fold, interrupt, wake, drain a turn, stash, restart | interrupts against tools and compaction; what survives a runtime | no prompt is lost, duplicated, overtaken or run twice |
| Runtime event loop (`runtime/host-event-loop.ts`) | flags of the turn and the tool, responses, watchdogs | one handler per provider event; recovery at its end | events after aborts, awaits inside terminal handlers | turns end once; recovery restarts what it must |
| Prompt subscription (`runtime/prompt-subscription.ts`, `omni/session-stream.ts`) | a JetStream work queue; per daemon a pull loop, a dispatch lane per session, debounce timers | publish, deliver, dispatch, ack, nak, fence, stop | a fence or a stop while prompts are buffered or in lanes; ack before a debounced flush | no prompt vanishes unnoticed, none is run twice, sessions keep their order, lanes do not get stuck |
| Crash recovery (`runtime/crash-recovery*.ts`, `db/write-retry.ts`, `daemon-restart-resume.ts`) | SQLite rows of boots, turn attempts, recovery runs, candidates, claims; a coordinator per process | renew leases, begin, record effect, terminalize, stop; abandon, claim, complete | writes that commit after the lease is over; a crash between effect and record; competing recoveries | no effect without durable evidence or after the fence, nothing with an effect is resumed, one recovery per attempt |
| Tasks (`tasks/service.ts`) | task rows, leases, checkpoints | dispatch, report, finish, sweep | sweeps against reports | a task ends once and its session is told |
| Cron, heartbeat, followups (`cron/`, `heartbeat/`, `session-followups/`) | due times, claims | claim, run, reschedule | overlapping runs, restart between claim and run | due work runs once |
| Outbound delivery (`gateway.ts`, `omni/sender.ts`, `omni/consumer.ts`) | receipts, retries | emit, send, acknowledge | partial failure of a multi-part answer | an answer reaches its channel, in order |
| Inbox, sync | claimed rows | claim, retry, finish | lost claims | items are handled once |
| Credentials, model broker (`runtime/credential-*.ts`, `model-broker*.ts`) | attempts, cooldowns, leases | resolve, record failure, cool down | concurrent failures of one credential | no cooled credential is used |
| Triggers, hooks, ephemeral runners | filters, timers | match, fire, expire | little shared state | |
| Providers, observation plane, router, permissions, workflows, records (contacts, calendar, CRM, artifacts), CLI, SDK, TUI | rows, child processes, views | protocol translation, lookups, record keeping | process I/O | |

How they interact. The prompt subscription hands each prompt to
`RuntimeSessionDispatcher.handlePrompt`. The dispatcher pushes it onto the live
session (delivery queue), or asks the pool for a slot and starts a runtime, whose
prompt generator then pulls the queue and whose event loop follows the provider. When
the loop ends it deletes the map entry, stashes what must survive, and asks the
dispatcher to restart or to drain the pool. Task events wake `after_task` prompts.
Everything in the process runs on one thread and shares `streamingSessions`,
`stashedMessages`, `pendingStarts` and the marks; the only concurrency is what an
`await` lets in. Between daemons only NATS and SQLite are shared.

## 2. The plan

In this order; the first six exist.

1. `LeaderElection` and its proofs.
2. `SessionPool`: admission to the pool.
3. `DeliveryQueue`: the prompt queue, the turns and the stash of one session.
4. `RecoveryLedger`, `CrashRecovery`, the abstract `EffectFence` they implement, and
   their proofs.
5. `PromptIntake`: the work queue, lanes, debounce, acknowledgement, fence and stop.
6. `PromptIntakeProofs`: a lane is a chain, a prompt is in one place, a session keeps its
   order, for any number of daemons; `SessionPoolProofs`: admission, order of the queue,
   marks and reservations, for any pool; `DeliveryQueueProofs`: one owner, no replay, no
   cut tool, no lost wake-up and, where the code keeps them, no lost prompt, lanes in
   order and the interrupting prompt next.
7. `SessionPool`, extended: the marks of starts deferred to the end of a task
   (session-dispatcher.ts:690-743), the deferred abort that acts by name
   (host-event-loop.ts:1306).
8. `PromptIntake` composed with the snapshot of a planned restart, so that
   what a daemon takes with it is told apart from what it saves.
9. The prompt queue table of the ledger; `Tasks`, `CredentialPool`, `OutboundDelivery`,
   as far as their state is shared.

How they compose. `CrashRecovery` EXTENDS `RecoveryLedger`, whose actions are the
transactions, and calls them; `EffectFence` is what it promises, by a refinement
mapping. `DeliveryQueue` takes a summary of the ledger (`effects`, `latch`, `ahead`),
`PromptIntake` one of the pool (its decisions are free choices) and one of the
coordinator (`life`: up, lapsed, leaving).

Abstract specifications worth stating next: a role lock with a fault bit (implemented by
`LeaderElection`), bounded admission in two classes (`SessionPool` between restarts),
and a FIFO per lane with done, folded and lost prompts (`DeliveryQueue`).

## 3. What is modelled

### `LeaderElection` (with `LeaderElectionProofs`, `MCLeaderElection`)

| State | Code |
|---|---|
| `key`, `keyAge` | the entry of the role in the KV bucket and the time since it was written |
| `life`, `watch` | stage of a daemon in `startDaemon` and `shutdown`; `watchForLeadershipVacancy` |
| `renewing`, `renewAge`, `missed` | `renewalTimer`, the time since it fired, puts that failed in a row (counted up to the first that the lease does not outlive) |
| `lost` | create answers lost so far (bound `MaxLost`) |
| `runners` | daemons whose singleton runners are started |
| `faults` | history: `follower_stop`, a daemon that still watched was stopped gracefully; `unrenewed`, a timer fired late or more renewals failed in a row than the lease outlives |

`BootAsLeader`/`BootAsFollower` are the two branches of `startDaemon`;
`Poll`/`TakeOver`/`LoseRace`/`StartRunners`/`StartFails` one round of the watcher, cut at its
awaits, the last being the catch of `onVacancy`; `Renew`/`MissRenewal` the timer. Renewals
fail any number of times and the leader never steps down, as in the code; `Tolerated` is
the number of failures in a row that the lease outlives and bounds nothing.
`BeginShutdown`/`Release`/`Exit` are the awaits of `shutdown`, any of which its 15 s limit
may skip. Time is discrete: `Ttl` and `Interval`
are 30 s and 10 s in some unit. The boot and the start of the runners are one step:
nothing reads the key between them. A restarted daemon keeps its name, which is sound
because no code compares the value of the key with anything.

### `SessionPool` (with `MCSessionPool`, `SessionPoolProofs`)

| State | Code |
|---|---|
| `pool.streaming` | `streamingSessions`: absent, launching (by which call), between turns, in a turn, done |
| `pool.reserved`, `pool.waiting`, `pool.ahead`, `pool.urgent` | `startReservations`; `pendingStarts` as a set with its order and lanes |
| `pendingStartSessions`, `startingSessions` | the marks of these names |
| `call` | every `startStreamingSession` in progress, by origin: a prompt, a restart, the idle-gap timer |
| `handler` | the prompt handler of the name, between its awaits, and what it read before |
| `clashes` | history: two starts of a name overlapped; a running runtime was lost from the map |

What runs between two awaits is one action. `Arrive` reads the map; `Deliver`,
`RestartInPlace`, `SwapModel`, `TakeBack`, `JoinStart`, `ColdStart`, `Defer` and
`ReplaceDone` are what `handlePromptImmediate` does once
`planRuntimeModelBrokerRoute` has answered, with the session it read before.
`Launch`/`LaunchNothing`/`BuildOk`/`BuildFail`/`Report` follow `startRuntimeSession`;
`EndLoop`/`Unload`/`LeaveMap`/`GiveUp`/`Resume` the end of `runRuntimeEventLoop`;
`RecoverIdleGap`/`RecoverNothing` the idle-gap timer, which finds a stash to restart or
nothing. What
the stash holds, and whether the restart limit is reached, is a choice here; the first
is `DeliveryQueue`'s subject. There is one handler at a time per name and one call
per name and origin.

### `DeliveryQueue` (with `MCDeliveryQueue`, `DeliveryQueueProofs`)

One session. `rt` is its `RuntimeHostStreamingSession` (the fields name the source's in
their comments), `stash` its entry of `stashedMessages`, `lane` the barrier of each
prompt, `task` whether the task database shows an active task, `taskEvent` an
announcement on its way. `arrived`, `settled`, `told`, `promised` are histories that
the properties read; no guard does, but that a prompt is sent once.

`Prompt` is the push with its four outcomes (start, join, wake, interrupt); `Launch`,
`Built`, `LaunchFails` the launch; `Pull`, `Prepared`, `PrepareFails` the generator;
`Effect`, `ToolAnswers`, `ToolEnds`, `CompactBegins`, `CompactEnds`, `Terminal`,
`CloseComplete`, `CloseInterrupted`, `CloseFailed`, `Reported` the provider's events, cut
where the handler awaits; `RecoverFailed`, `RetryCredential`, `LoopEnds`, `Abort`,
`SwitchModel`, `IdleGap` the ways a runtime is replaced. `CanRelease`, `Deliverable`,
`MayInterrupt`, `Cohort`, `Replayable`, `Carryable`, `CurrentTurn` translate the pure
functions of `delivery-queue.ts` and `host-session.ts`.

`Turmoil` names which troubles a run lets happen; `Aside` are the prompts of a second
chat, `Channel` those with an envelope, `Providers` the kinds of providers a session may
run on: one that writes effects ahead, one that only reports them, and one that reconciles
(Codex always does, codex-provider.ts:325), that is, recognises a turn it is handed again.
When the stream ends under a turn of the last kind, `LoopEnds` saves the turn whether it
had effects or not and marks it (`replays`; `CurrentTurn`, `Ambiguous`); `Apart` keeps
marked prompts and others in different turns; `touched` is a history of the prompts whose
turn had effects. Left out: native steering, what a provider does with a replay, cold starts
put off to the end of a task (see `PromptIntake`), task exemptions, recovery of the context
window, inactivity watchdogs (host-event-loop.ts:1990), the recovery coordinator refusing
deliveries, and what the launch of a session that was aborted meanwhile still does. A
prompt counts as handed over again when the generator yields it: that a provider which
reconciles does not repeat the effects of a marked turn is the provider's promise, and that
the next runtime of a marked prompt may, after a change of the model, be of a provider which
ignores the mark, is possible here as it is in the code.

### `RecoveryLedger`, `CrashRecovery`, `EffectFence` (with `MCCrashRecovery`, `CrashRecoveryProofs`)

`RecoveryLedger` has one action per transaction of `crash-recovery-store.ts`; each is a
`BEGIN IMMEDIATE` transaction, hence one step, and throws where its guard does not hold.
`boots`, `attempts`, `runs`, `candidates`, `claims` are the tables.

| State of `CrashRecovery` | Code |
|---|---|
| `life`, `own` | `CoordinatorState`; `currentBoot.leaseExpiresAt` as the process knows it |
| `active`, `known` | the keys and the records of `activeAttempts` |
| `op` | the coordinator call in progress: what it read from the clock, whether it has written |
| `now` | `Date.now()`, one clock for the processes of a host |
| `effects` | history: how often each effect of an attempt was allowed |

A call of `RuntimeCrashRecoveryCoordinator` is three steps: it reads the clock and checks
its leases (`Heartbeat`, `StartTurnAttempt`, `MarkTurnAttemptSafety`, ...), it writes
(`Write`; `executeWrite` may retry for any time), and it reads the clock again before it
believes the result (`Renewed`, `Marked`, `Terminalized`, ...). Any doubt is
`LoseOwnership`, that is `enterFailClosed`. Calls are synchronous, so one process is in
one call; other processes, the clock and crashes come between the steps. An effect is
allowed in the step that returns from `markTurnAttemptSafety`: the approval fences, the
tool hook and the event loop wait for it.

The sweeper that would abandon boots and claim attempts is not in the repository
(`RuntimeCrashRecoveryCoordinator`: "sweeping, and replay are separate recovery
responsibilities"). `Abandon` and `Sweep` are what the specification of the feature allows
it (`.ravi/specs/daemon/restart/crash-recovery/SPEC.md:130-139`), through the store's own
transactions, and are marked external.

`EffectFence` is the promise (SPEC.md:83-90, 122-135), without clocks, leases and
processes: an effect happens only while its attempt is owned and after its evidence is
durable; a fenced attempt may be claimed once, and resumed only if it had no effect.

Left out: the prompt queue table, dry-run and inspect runs, legacy candidates,
attempts with provider events only, the lease column of an attempt (no other process
reads it), a clock that goes back.

### `PromptIntake` (with `MCPromptIntake`, `PromptIntakeProofs`)

| State | Code |
|---|---|
| `session`, `stream`, `by` | the subject of a prompt, what the JetStream consumer knows of it, and whom it was last delivered to |
| `life`, `pulling`, `buffer` | `running` and `acceptingDeliveries`; the pull loop of `run()`; the messages its NATS client prefetched |
| `stage`, `after`, `tail` | where the dispatch of a prompt is; the promise it waits for; `sessionDispatchTails` |
| `held`, `flushing` | `debounceStates` and `deferredAfterTaskStarts`; what their flushes have left |
| `consumed`, `fate`, `detoured` | history: prompts given to a runtime; told of, not served, dropped or stranded; handed back or deferred |

`Schedule` and `TurnAway` are the body of the loop, `Begin` ... `Ack` the dispatch and the
prompt handler, `Flush`, `FlushOne`, `FlushNone`, `FlushFails` the debounce and the starts
deferred to the end of a task, `Lapse`, `Leave`, `Die` and `Boot` the life of a daemon. The
pool's decisions are free choices of `Decide` and `Defer`. `Unserved` is every return of the
dispatcher that neither gave the prompt to a runtime nor told of it, and after which it is
acknowledged: no agent is configured (session-dispatcher.ts:754, 858), a restart has
nothing left to resume (831), an observer is throttled (1595), a launch finds no agent or
no session (session-launcher.ts:104, 147). `max_age`
of the stream is 60 s and `ack_wait` 300 s, so no prompt is ever delivered again for want
of an acknowledgement; `Expire` ends it instead, and the code's answer to it is ignored.

Left out: prompts that do not parse (handed back at once, again and again), a NATS
restart (everything expires), the snapshot of a planned restart, and two daemons whose
leases are both live: they share nothing but the queue.

## 4. The runs

Every property of a passing run is listed with a wrong version of a definition
(`Slip...` in the modules, used by no action) that breaks it.

| Run | Instance | Checks |
|---|---|---|
| `LeaderElection` | 2 daemons, lease 3, renewal 1, one failed renewal tolerated and any number possible, one lost answer | types, one runner unless faulty, the lease invariant, vacancies are filled unless a start fails |
| `LeaderElectionTwoRunners` | 3 daemons, every renewal on time | refutes "only one daemon per role" |
| `SessionPoolRestarts` | 2 sessions, 1 slot, all origins | marks and reservations are those of the calls in progress; no step strands a start; only a restart overfills; every start call ends |
| `SessionPoolLanes` | 2 ordinary sessions, a task session, an observer, 2 slots, 1 reserved | types, reserved slots, order of the queue |
| `SessionPoolOverfull` | 2 sessions, 1 slot | refutes "maximum number of live runtime sessions" |
| `DeliveryQueueCalm` | 4 prompts of 2 chats, 2 foldable, an interrupting and a waiting lane | no prompt is lost or overtaken, no lost wake-up, the interrupting prompt is next |
| `DeliveryQueueStorm` | 2 prompts, all lanes, all troubles, three kinds of providers | types, one owner, nothing is handed over again but as a marked replay, tools finish |
| `DeliveryQueueSettles` | 2 prompts, all lanes, failures and compaction | every prompt is settled |
| `DeliveryQueueJoined` | 2 prompts of one lane, a start in progress | refutes "equal-lane events are delivered FIFO" |
| `DeliveryQueueAborted` | 2 prompts, an interrupted turn, an abort | refutes "a queued prompt atom must survive" |
| `CrashRecovery` | 2 boots, 1 attempt, 2 recovery runs, 1 effect, lease 2, clock to 3 | types, one winner, graceful is clean, the refinement of `EffectFence` |
| `PromptIntake` | 2 prompts, a plain and a debounced session, 2 daemons, 2 faults, drops or deferrals | types, losses are known, one place, lanes are chains, order within a session, lanes move |

Why the bounds are enough. An election conflict needs an owner and a rival, and a third
daemon only to be the rival of a leader whose key a follower deleted; safety is proved
for any number besides. A pool conflict needs one session that lets go of its slot and
one that takes it; order needs two waiting starts of each lane's kind beside a full pool,
hence four sessions. Two constraints cut the search: `NoClash` ends a behaviour at the
first clash, after which names no longer identify runtimes; `OneHandler` lets one prompt
handler be between its awaits at a time in `SessionPoolLanes` only. The view
`ButTouched` of `DeliveryQueueCalm` leaves out a history that no action and no property of
that run reads. A fold needs a turn and two successors of
its surface, and a surface conflict one prompt more, hence four prompts; what survives a
runtime is decided between the turn and one prompt behind it, hence two in the storm.
Failures stay out of
`DeliveryQueueCalm`; `PromptsSettle` would show a prompt lost to one. All instances are
finite without a depth bound. The fence needs an owner whose
lease ends and a boot that abandons and claims, and two runs that compete: two boots, two
runs and one attempt; a clock of a lease and a half lets every write stall past the
end of the lease it relies on. Everything of it but the bound is proved in general besides. Of
two prompts of one session the second meets the first in every stage of its dispatch,
and `LanesAreChains` states the shape of the lane itself (one head, the tail in the lane), so
that it speaks of longer lanes too; two faults let a failure, a deferral or a
failing pull meet a lapse, a stop or a crash. `DeliveryQueue`, `CrashRecovery` and `PromptIntake` come to an
end when every prompt has been sent, the clock has stopped or every daemon is dead, so
their runs do not look for deadlocks. The symmetry of `CrashRecovery` is used for safety
only.

What the passing runs do not reach. `NoLostWake` is checked and proved without compactions
between turns, `AtomsSurvive` and `LanesInOrder` without what is in `Losing`,
`SuccessorNext` without failing preparations: each of these breaks the property, see below.
`NoStrandedStart` is checked without observers and excepts `RecoverNothing`.
`StartsAccountedFor` and `OnlyRestartsOverfill` hold up to the first clash of two starts of a
name, at which the runs stop: the code keeps marks by name, and no equation about
marks holds after one. The two properties of the election end at the first of its
`faults`.

### Fairness

`LeaderElection`: the clock, the server's expiry, the watcher's polls and its start of the
runners (which may fail: `StartRunners(d) \/ StartFails(d)`), and the end of a shutdown (the
code forces it) are weakly fair; taking over is strongly fair, that is, a create that could
succeed again and again is answered at some time. No fairness of boots, crashes, stops or
renewals. `VacancyIsFilled` also assumes that daemons stop coming and going.

`SessionPool`: each start call that can go on does: the resumption of settled promises and
the timer of a pending start. Nothing of providers or users. A launch is assumed to end, as
its promises are the process's own.

`PromptIntake`: the promises and timers of a dispatch, for each prompt of each daemon.
Nothing of the queue, the pulls, the faults or the users. `CrashRecovery` states no
liveness.

`DeliveryQueue`: the host's own steps, its timer, the bus, a provider that ends the tools,
compactions and turns it began. `PromptsSettle` is conditional on tasks stopping.

### Divergences the runs show

- `LeaderElectionTwoRunners`: stopping a follower deletes the leader's key.
- `SessionPoolOverfull`: a model change lets go of its slot across an await and takes it
  back unchecked.
- `DeliveryQueueJoined`: prompts that join a start go to the stash, which the generator
  puts in front of the prompt that began the start.
- `DeliveryQueueAborted`: after an interrupted turn with effects, an abort of the idle
  session saves nothing of the queue.

Others met while modelling; each can be seen by changing the constants of a run. They have
no run of their own because they are of a kind with those above.

- A leader whose renewals fail goes on as the leader (leader/index.ts:100-108). The lease of
  30 s outlives one failed renewal of 10 s: from the second in a row the key expires under
  it, a follower starts the runners beside it, and its next put takes the key back
  without a look at the owner. `OneRunnerUnlessFaulty` ends there (`unrenewed`).
- A daemon whose runners fail to start "will retry" (leader/index.ts:145), but its own renewals
  keep the key it would have to create: the vacancy is not filled while it lives.
  `VacancyIsFilled` has a disjunct for it (`Stuck`).
- An idle-gap recovery that finds nothing to restart frees its slot and drains nobody
  (session-dispatcher.ts:2266, 1713-1721): a start that waits stays beside the free slot until
  another drain or its timeout.
- A prompt that the dispatcher does not serve is acknowledged and nobody is told of it
  (`Unserved`), where prompt-subscription.ts:254 says "keep the JetStream work item durable
  until the dispatcher has accepted it". `LossesAreKnown` has a disjunct for it.
- `shutdownAll` resolves the starts that wait as if they had been served
  (session-dispatcher.ts:417), so their prompts are acknowledged and lost with the
  daemon, against the same comment. `LossesAreKnown` has one for that, too.
- Prompts chained behind another are dispatched, and acknowledged, after a stop or a fence: the
  intake is asked when a prompt arrives, not when its turn comes (prompt-subscription.ts:135,
  227).
- session-stream.ts:10 says "If daemon crashes before ack, message is redelivered after
  ack_wait"; the stream drops it after 60 s (line 79), `ack_wait` is 300 s (line 174).
- A loop that breaks at a fence hands back the prompt it looks at; those behind it in the
  buffer of the client are neither handed back nor served and expire (`"stranded"`).
- The health check opens the loop again 30 s after a fence (prompt-subscription.ts:49), against
  the `finally` of the loop, which does not (line 190).
- A flush that fails drops the prompts behind the one that failed (session-dispatcher.ts:795),
  and a second flush may overtake a slow first one: `SessionOrder` leaves debounced
  sessions out.
- A claimed attempt stays `running`, and a new attempt may only name an attempt as
  `recoveredFromAttemptId` that does not run (crash-recovery-store.ts:1236): what is
  resumed cannot say from which attempt, as SPEC.md:65 asks.
- A claim whose boot crashed can be completed by nobody, nor its run be closed
  (`MayClaim`).
- With `Turmoil = {"earlyAbort"}`, `AtomsSurvive` fails: a session that is aborted before its generator
  took the stash replaces the stash by its own queue (host-session.ts:231).
- With `Turmoil = {"exit"}`, `AtomsSurvive` fails: a stream that ends between turns saves
  nothing, and one that ends in a turn saves that turn alone (host-event-loop.ts:1627).
- With `Turmoil = {"prepare"}` and two channel prompts, `SuccessorNext` fails: a failed
  preparation forgets that its turn was superseded (delivery-queue.ts:541).
- With `Turmoil = {"idleCompact"}`, `NoLostWake` fails: the end of a compaction wakes no
  waiting generator (host-event-loop.ts:2279).
- With `Turmoil = {"launch"}`, `AtomsSurvive` fails: a launch that fails takes the prompts
  pushed while it went on with it (session-launcher.ts:434), and tells only of the first.
- With `Turmoil = {"credential", "failed"}`, `AtomsSurvive` fails: the restart with another
  credential carries the turn and drops what is queued behind it
  (host-event-loop.ts:3225). With `{"switch"}` or `{"slow", "recover", "interrupted"}` it
  fails as with `"earlyAbort"`: the stash is replaced before the new generator took it.
  A prompt that interrupted a turn can be the one that is lost: with three prompts,
  `SuccessorNext` fails under `"exit"` and under `"switch"`, too.
- `NoStrandedStart` is stated for pools without observers: idle observers are reclaimed
  for a new start without draining the queue (session-dispatcher.ts:1580).
- `clashes` can hold `"lost"`: a handler that read no session starts a second
  runtime over the one that started meanwhile (session-dispatcher.ts:823).
- `docs/start/configuration.mdx:42` gives a default pool of 60, `session-pool.ts:8` 12.

## 5. The proofs

`LeaderElectionProofs` holds for every set of daemons, and every lease that satisfies
`LeaseAssumption`: `(Tolerated + 1) * Interval < Ttl`, which only says what `Tolerated` means.
Renewals may fail without end, and the theorems say from when on nothing is promised.

- `TypeCorrect`: `Spec => []TypeOK`.
- `LeaseSafe`: `Spec => []LeaseInv`.
- `OneRunnerSafe`: `Spec => []OneRunnerUnlessFaulty`.

`OneRunnerUnlessFaulty` is not inductive: nothing in it relates runners to the key. `LeaseInv`
adds that who renews owns the key and that the key is no older than
`missed * Interval + renewAge`, hence younger than the lease, so it cannot expire under its owner;
and that a daemon on its way down watches nothing. All of it holds while `faults` is
empty; that runners renew holds always and is in `TypeOK`. The arithmetic is the lemma `LeaseOutlivesMisses`; the step has
one case per action. `LeaseInv` is also an invariant of the run, so that the checker and
the prover speak of the same formula.

`CrashRecoveryProofs` holds for any sets of boots, attempts, runs and effects, any lease,
and any bound of clock and effects that satisfy `NullAssumption` and `ClockAssumption`.

- `RecoveryTypeCorrect`: `Spec => []TypeOK`.
- `ClaimsAreExclusive`: `Spec => []OneWinner`.
- `StopsAreClean`: `Spec => []GracefulIsClean`.
- `LeasesImplementFence`: `Spec => ImplementsFence`, the refinement.

The refinement needs to know that an effect allowed by a process happens while the ledger
still has it as the owner. Nothing the process reads says so: it knows a lease and a
clock. The inductive invariant `IInv` (theorem `InvHolds`) therefore adds to the three
properties what relates memory to ledger. `LeaseOK`: no process believes in a longer lease
than the ledger has, and a boot is abandoned only when its lease is over, so a process
that sees its own lease live is still active. `CallOK`: what the call in progress relies on,
and what its write has left in the ledger. `AttemptsOK`: the markers a process knows, and
those of its effects, are in the ledger. `OwnedOK`: a live process knows of all its running
attempts, and of none when it stops. `RecoveryOK`: whatever a recovery touches has lost its
owner for good, and what it means to resume had no effect. The step has one case per
action; the ledger's actions are split from the coordinator's by lemmas that say what each
leaves alone. The refinement proof then maps each action to a step of `EffectFence`: `Write`
to `Begin`, `Record`, `End` or a stutter, `Marked` and `MarkedBefore` to `Perform`,
`Abandon` to `Fence` of all attempts of the boot, a won claim to `Claim` or
`ClaimToResume`, everything else to a stutter.

`PromptIntakeProofs` holds for any number of prompts, daemons and faults and any sessions
that satisfy `IntakeAssumption` (no session is both plain and debounced, no name is Null).

- `IntakeTypeCorrect`: `Spec => []TypeOK`.
- `IntakeLossesAreKnown`: `Spec => []LossesAreKnown`.
- `PromptsAreInOnePlace`: `Spec => []InOnePlace`.
- `LanesNeverFork`: `Spec => []LanesAreChains`.
- `SessionsKeepTheirOrder`: `Spec => []SessionOrder`.

The inductive invariant is `IInv` of that module (theorem `IntakeInvHolds`), in three parts.
`Core`: who has a prompt in hand is the daemon it was last delivered to (`HandsOK`); what a
runtime took, what is held back and what was stranded has no dispatch to come, so nothing
can hand it back (`ConsumedOK`, `DebouncedOK`, `StrandedOK`); and a dispatch that has
returned did what its acknowledgement promises (`ReturnedOK`). `LanesOK`: the order in
which the prompts of a lane came makes it a chain. `LanesAreChains` alone is not inductive: a
ring of prompts that wait for one another beside a lone head satisfies it, and breaks it
when the head leaves and the tail is cleared. The order of arrival, a rank that each
arrival tops and no departure changes, excludes rings (`TailComes`, `HeadLeaves`). It also
respects the order of publication, among the prompts of a plain session that were not
handed back or deferred (`InTurn`). `OrderOK` follows such prompts through the stations: they are
published and first delivered in order (`Published`), lie in order in the buffer
(`BuffersInOrder`), come to a lane before any later one (`LanesFirst`), and none is still to
come when a runtime has a later one (`ConsumedFirst`); `SessionOrder` is the end of that
line. A runtime takes the head of a lane, and the head has the least rank (`HeadIsTaken`).
Each action's case first says what it does to the parts of the state, then what follows.

`SessionPoolProofs` holds for any sessions, observers, task sessions and callers, any pool
size and any reservation that satisfy `PoolAssumption` (the sessions are finitely many, a
slot is left when the reserved ones are taken).

- `PoolTypeCorrect`: `Spec => []TypeOK`.
- `QueueServesInOrder`: `Spec => ServedInOrder`.
- `BackgroundKeepsOut`: `Spec => BackgroundLeavesRoom`.
- `NoStartIsStranded`: `Spec => NoStrandedStart`.
- `StartsAreAccountedFor`: `Spec => []StartsAccountedFor`.
- `PoolOverfilledByRestartsOnly`: `Spec => OnlyRestartsOverfill`.

The drain of the queue is one set, `Grants`: a start is granted when it and everything
before it in the order of the drain fit. What a drain does is therefore three facts about
that set: it takes no start past one that waits (`GrantedInOrder`), never more than fit
(`GrantsFit`), and all if the slots suffice for all (`GrantsAll`). They rest on the queue
being a strict order (`QueueOrder`) and on a finite order having a first element
(`MinimalElement`). The inductive invariant `PoolInv` (theorem `PoolInvHolds`) has types,
that order, that a waiting name has a start call of a prompt (`QueuedOK`), and that a
session a handler has read and still sees is in the map (`ReadingsOK`). It does not mention free slots:
`NoStrandedStart` follows step by step, since every step has one of seven shapes
(`StepShape`): it keeps the pool, drains it, promotes a start, takes a slot back,
launches, or starts, none of which strands a start, or it is `RecoverNothing`, which may. `StartsAccountedFor` is an
equation between marks and calls, inductive beside `PoolInv` up to the first clash; after
one, a name stands for two runtimes and the marks of one are cleared by the other.

`DeliveryQueueProofs` holds for any atoms, surfaces, lanes and kinds of providers that
satisfy `AtomAssumption`.

- `QueueTypeCorrect`: `Spec => []TypeOK`, under any trouble.
- `PromptsHaveOneOwner`: `Spec => []OneOwner`, under any trouble.
- `TurnsAreNeverReplayed`: `Spec => NeverReplayed`, under any trouble. The one turn that may
  come again after effects is that of a provider that reconciles, under which the stream
  ended; the property says that it is marked then and has nothing unmarked in it.
- `ToolsAreNotCut`: `Spec => ToolsFinish`, under any trouble.
- `NoWakeIsLost`: `Spec => []NoLostWake`, if no idle session compacts.
- `NoPromptIsLost`: `Spec => []AtomsSurvive`, if no trouble of `Losing` happens: no
  failed launch, exit, abort, change of model, credential or timer that comes early.
- `LanesStayInOrder`: `Spec => []LanesInOrder`, if no trouble of `Losing` happens and no
  prompt joins a start in progress.
- `SuccessorsAreNext`: `Spec => SuccessorNext`, if no trouble of `Forgetting` happens: no
  failed preparation, exit, change of model, abort before the generator began or timer
  that comes early.

These hypotheses are the ones the code needs: for `idleCompact`, for each member of
`Losing`, for `join` and for each member of `Forgetting`, alone or with a failure that
precedes it, the checker finds a counterexample to the property in question (section 4
has those that lose something, and `DeliveryQueueJoined`). What remains under
`NoPromptIsLost` is interruptions, failures, recoveries, failed preparations, joined starts and
compactions in any order and number. The inductive invariant `QueueInv` (theorem
`QueueInvHolds`) says where a turn may be (`PlacesOK`), which flags go with which stage
(`FlagsOK`), that queue and stash are apart and without repetition (`ApartOK`), that
everything in them was sent (`KnownOK`), and that what will be handed over is not
settled: what is stashed, what is queued behind the turn, and the turn itself when it may
be replayed (`OwedOK`). `NeverReplayed` needs all of it, for what is handed over may have
been carried through any number of runtimes. `MarkInv` (theorem `MarkInvHolds`) is about
the marks: no runtime both writes ahead and reconciles, what had effects is settled
or marked, and a turn in preparation has no part that had effects and is not marked.
That a scan does not mix marked prompts with others is `DeliversApart`. `WakeInv` adds that tools and compactions belong
to a turn in progress and what a waiting generator may count on; `KeptInv` where every
prompt is, and the converse of `OwedOK`: a turn that will not be replayed is settled
(`TurnKept`). `LaneInv` orders the line of a session, stash before queue: what is in
it and was never in a turn stands, lane by lane, as it was sent (`InOrder`), and whoever was
sent before a prompt of its lane that was in a turn was in one too or is folded (`Served`). A scan and an interruption pick from
the line; they take a prompt only together with those of its lane ahead of it
(`DeliversInOrder`, `FoldsInOrder`), for release and interruption depend on the lane
alone, and every other step thins the line or adds to its end. `PromiseInv` follows
the prompt that interrupted: it leads the stash until a generator takes the stash, and then
stands first behind a turn that is superseded, so that the next scan begins with
it. It rests on `WakeInv`: nothing holds the prompt back when the turn is over. The queue operators
filter sequences (`Within`, `Without`, `Before`); what they return for every sequence is
proved by induction over the length, one set of numbers at a time (`Induction`), since
the induction theorems of the library, with an operator as parameter, cannot be used.

Only model-checked: all liveness. Liveness under fairness and `ENABLED` are out of the
prover's reach. No module declares a recursive operator.

## 6. What is not modelled

See `components` in `PROJECT.json` for each part and its reason. In short: providers, CLI,
SDK and TUI are I/O; the record stores are single statements of SQLite; permissions and
routing are lookups. Tasks, credentials and outbound delivery have state worth modelling
and are in the plan above. The modules cover the core that runs agents, a small share of
the repository by lines: most of it is generated clients, a browser extension, commands
and record keeping, and the row stores of `router/router-db.ts` and `contacts.ts`.
