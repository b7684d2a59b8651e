# TLA+ models of the IRONCLAD orchestration core

IRONCLAD (this repository) runs DAGs of LLM tasks for several tenants.  A
control plane (`hfa-control`), elected by a Redis key, admits runs, schedules
their tasks onto workers (`hfa-worker`) through Redis streams, and recovers what
dies.  All state that matters is in Redis, and almost every change to it is a
Lua script of `hfa-core/src/hfa/lua`, called from `asyncio` code that may be
delayed, cancelled or killed between any two calls.  The models here are about
that: what the scripts guarantee when their callers interleave, crash, lose
replies, hold stale values and race expiring keys.

## 1. Inventory

| Component | State | Operations | Interacts with | What is hard |
|---|---|---|---|---|
| Task lifecycle scripts (`task_*.lua`) | state key, `remaining_deps`, `ready_emitted`, task meta hash, ready/scheduled/running zsets | admit, dispatch, claim, heartbeat, complete, requeue | scheduler, workers, recovery, run state | zombie executions, racing sweeps, countdown of dependencies, late calls |
| Worker reservations (`reserve_worker.lua`, `worker_reservation.py`) | worker key and owner index, both with a TTL | reserve, release, renew, consumption by claim | dispatcher, claim script | TTL lapses, non-atomic release, lost replies |
| Dispatch loop (`dag_scheduler_dispatch_controller.py`, `scheduler_reservation_dispatch.py`) | locals of one dispatch | peek, reserve, dispatch, release | ready zset, reservations, shard streams | cancellation at every await |
| Failure sweeper (`failure_sweeper.py`) | locals | read child, append event, write child | task states | blind write after a stale read |
| Leader election (`leader.py`) and watchdog (`service.py`, `scheduler.py`) | leader key with TTL, fence counter, belief, token, started flags, active epoch | acquire, renew, lose, close, start/stop scheduler and recovery | everything leader-gated | overlapping leaders, partial acquisition, restarts |
| Canonical authority (`canonical_authority_commit.lua`, `authority/`) | per aggregate: head, history, receipts, transition index; RUN owner registry | the ten canonical operations | bindings, projections | stale guards, duplicate commands, RUN/TASK agreement |
| Canonical bindings (`*_authority.py`) | receipts, projection metadata | commit, then project to the legacy keys | authority, task scripts | crash between commit and projection |
| Submission (`run_submission.py`, `submission_idempotency.*`) | record of an idempotency key, with a TTL | reserve, finalize, replay | admission | duplicate submits, lost replies, expiry |
| Admission (`admission.py`, `run_create_authority.py`) | locals of one call | reserve, commit, finalize, project, release, resolve | resources, authority, run keys | commits of unknown fate, two payloads for one run |
| Resources (`admission_resource_reservation.*`) | receipt per run, counters per tenant | reserve, finalize, release, settle | admission, termination | every counter given back once |
| Run finalisation (`run_termination.py`, `run_finalizing_runtime.py`, `run_terminate_*.lua`) | run state, result, terminal events, pending deliveries | finalize from tasks, terminate, settle, project, acknowledge | task completion, authority, resources | crash between any two of these, redelivery |
| Shards (`shard.py`) and worker service (`main.py`, `drain.py`, `process_root.py`) | lease with TTL, owners map, service phase | claim, renew, lose, orphan scan, start, fatal failure, drain, stop | dispatch, streams | non-atomic claim, pulling without a lease |
| Worker consumer (`consumer.py`) | stream group, pending entries | read, reclaim, hand over, complete, acknowledge | claim, completion | redelivery, dead readers |
| Worker registry (`heartbeat.py`, `registry.py`) | heartbeat stream, worker hash with TTL | publish, consume, autoclaim, apply, expire | scheduler snapshot | old heartbeats, clocks, HSET without EXPIRE |
| Reconciliation (`reconciliation.py`) | none: reads only | observe, compare, report | all of the above | keys change while they are read |
| RUN recovery, legacy run scheduling, effect ledger, audit, budget, circuit breaker, API, executors | see `PROJECT.json` | | | |

The properties that make each part correct, in short: a task runs only after its
parents, at most one execution of it counts, it is retried at most
`max_requeue_count` times, it ends once; a reserved worker serves one task; one
leader schedules at a time and its epoch is its own; the canonical history of an
aggregate is a gap-free append-only log with one record per command, and a RUN
ends as its root TASK ended; a key has one run, and a run its stored answer denies
never starts;
resources are given back once; a run whose tasks ended ends, publishes one
outcome and keeps it; a message reaches the worker it is reserved for; tasks are
offered only to workers that serve; a reconciler reports only what was there.

`PROJECT.json` lists the hazards, each at its line, with the properties that
cover it.

## 2. Plan

Done: everything the module table below lists.

Left, in this order:

1. `CanonicalProjection`: the projections of the task operations (the canonical
   branches of the task scripts), with crashes between commit and projection.
   `RunAdmission` does this for RUN_CREATE and RUN_TERMINATE.  First question:
   after a canonical requeue, can the second dispatch be projected
   (`task_dispatch_commit.lua` 390-401)?
2. An abstract `TaskOwnership` (one owner, at most `MaxRequeue + 1` claims, one
   end) that `TaskLifecycle` implements.
3. `RunRecovery` and the legacy run scheduling, should they be wired again.
4. The cost budget beside the inflight counter, and the rate limit's window.

Theorems worth proving next: every safety property of the runs is a theorem
(section 6).  What is left are the theorem that goes with the abstract
`TaskOwnership` of point 2, and those of the modules above.

## 3. Modules

| Module | Models |
|---|---|
| `TaskLifecycle` | one run's tasks through the seven task scripts in legacy mode, with schedulers, workers, sweeps |
| `TaskLifecycle_proofs` | inductive invariants and theorems of `TaskLifecycle` and `RunTermination` |
| `LeaderElection` | election, watchdog, scheduler start/stop |
| `LeaderElection_proofs` | its inductive invariant and theorems |
| `CanonicalTransition` | operations, contracts, identities and hashes of the canonical authority |
| `AuthorityLog` | what the authority promises: the abstract log |
| `AuthorityLog_proofs` | what follows from the promise alone |
| `CanonicalAuthority` | the store and the seven bindings that race for it |
| `CanonicalAuthority_proofs` | its inductive invariant, and that it implements `AuthorityLog` |
| `RunAdmission` | a RUN from admission to settlement: callers, resources, projections, terminating workers |
| `RunSubmission` | the idempotency gate around it (extends `RunAdmission`) |
| `RunSubmission_proofs` | inductive invariants and theorems of `RunAdmission` and `RunSubmission` |
| `RunTermination` | the end of a run of several tasks (extends `TaskLifecycle`) |
| `WorkerFleet` | worker processes of a shard, its lease and owners map, the messages of one task |
| `WorkerFleet_proofs` | its inductive invariant and theorems |
| `WorkerRegistry` | heartbeats and what the scheduler believes of a worker, with time |
| `WorkerRegistry_proofs` | its inductive invariant and theorems |
| `Reconciliation` | the read-only reconcilers over a changing world |
| `Reconciliation_proofs` | its inductive invariant and theorems |
| `MC*` | constants, graphs and symmetry for TLC |

### 3.1 TaskLifecycle

A Lua script is one action.  Everything a Python caller does between awaits is an
action of its own, with its locals in `sched`, `sweep`, `blocker` and `execs`.

| Variable | In Redis / in memory |
|---|---|
| `state`, `remaining`, `emitted` | `hfa:dag:task:<t>:state`, `:remaining_deps`, `:ready_emitted` |
| `readyQ`, `schedZ`, `runZ` | the tenant's ready, scheduled and running zsets, as sets |
| `owner`, `schedEpoch`, `claimEpoch`, `requeues`, `fresh` | fields of the task meta hash; `fresh` says whether `last_heartbeat_at_ms` is within `stale_after_ms` |
| `wres`, `ores` | the worker reservation key and the task owner index, with their TTLs as actions |
| `messages` | TaskRequested entries of the shard streams: delivered at least once, to anyone, at any time |
| `execs` | executions in worker memory with the fences they carry |
| `runLive` | whether the run state key is in a nonterminal state |

`Admit` is `task_admit.lua`; `Peek`, `Reserve`, `DispatchCommit`,
`DispatchRaises`, `DispatchRejected` and the three `Release*` steps are one
`dispatch_once`; `Claim`, `Heartbeat`, `OwnershipLost`, `CompleteDone`,
`CompleteFailed`, `CompletionRejected` are a worker; `FindStale`, `Requeue`,
`RequeueRejected` are `TaskRecoveryManager`; `SweepReadChild`, `SweepBlockChild`,
`SweepAppendFailed` are the failure sweeper.  Crashes are `SchedulerCrash`,
`WorkerCrash` and `SweepDies`; `DispatchRaises` is a lost reply.

Abstracted: times (only fresh or stale), zset order (any member may be the head),
payloads, outputs, the tenant.  Left out: the legacy direct claim without any
reservation key (`task_claim_start.lua` takes it only for callers that pass no
reservation), evidence events of truth conflicts (they write a separate stream
and change no lifecycle state), the `heartbeat_owner` fallback (`FencesStored`
proves it unreachable), TTLs of the task keys themselves, the execution token,
`renew`, the `ReservationReaper`.  Two facts about the callers matter when
reading results: the leader's recovery loop builds its `TaskRecoveryManager` only
when canonical TASK_REQUEUE is on, so the legacy requeue is reached through the
manager's own default mode; and `FailureSweeper` has no caller in the packages
and compares with `str`, so it is modelled on a decoding client as its tests run
it.

### 3.2 LeaderElection

Each Redis call of `_try_acquire` (`SET NX`, `INCR`, `GET`, `EXPIRE`) and of
`close` (`GET`, `DEL`) is an action; `CallFails` is a call that raises with or
without its effect; `KeyExpires` is the TTL.  The watchdog's pass is `Reconcile`,
`StartScheduler`, `StartRecovery`, `StartFails`, `StandDown`, `StandDownFails`.
`Crash` and `Close` lose all locals; `Restart` starts a process with the same
instance id (`CP_INSTANCE_ID`).  `Dispatch` records the epoch of the last committed
dispatch.  Bounds: `MaxLapses` counts TTLs that run out under a live holder,
`MaxFaults` counts every fault; both are named constants and appear only in guards.
The default `instance_id` is assumed nonempty.

### 3.3 CanonicalTransition, AuthorityLog and CanonicalAuthority

`CanonicalTransition` holds the operations, their contracts, operation ids and
command hashes (`canonical_transition.py`).  A record keeps what the store tells
records apart by; hashes and storage envelopes are functions of it.

`AuthorityLog` is the promise: per aggregate an append-only log in which every
record continues the one before it, an operation occurs once, a claim follows the
exact dispatch it quotes and an end or a requeue the exact claim, only the root
task is admitted to a RUN that names one, no task ends under an ended RUN, and a
RUN ends as its root task has ended.

`CanonicalAuthority` is the store under its seven bindings.  A call is a sequence
of Redis round trips, and other calls act between any two:

| Action | Code |
|---|---|
| `Begin` | a binding is called with attempt and epoch from the task keys, which may lag |
| `ReadSnapshot` | `get_aggregate_snapshot` |
| `ReadProbe` | `load_receipt_probe` and the evaluation of both reads: plan, replay, torn read, other command, refusal |
| `ValidateHead` | `validate_authority_head` |
| `CaptureRoot` | `_capture_canonical_proof` of RUN_TERMINATE |
| `Prevalidate`, `Commit` | one attempt of `_commit_impl`: the proofs it reads, then `canonical_authority_commit.lua` in one step, with the retry, restart or end that follows |
| `CommitUnanswered` | the commit raises, with or without its effect |
| `Resolve` | `_resolve_ambiguous_commit`, `_resolve_exact_durable_commit` |
| `Abandon` | the process dies, a read fails, or the task keys refuse the call |

A head is represented by its revision: the script compares the head's stored
proofs byte for byte, and since histories only grow equal revisions are equal
proofs.  `data` is what the command hash binds beyond the operation (root task,
admission state, worker); `at` is the caller's clock reading, which every binding
hashes except TASK_REQUEUE.  `seen` is what prevalidation read; each part of it
comes from its own calls, and reading them in one step loses nothing because the
script compares each part again.  Left out: projections to the task and run keys,
the resource reservations of RunAdmission, the task-owner inventory (F07, off by default), and the
checks that detect damaged stored bytes.

### 3.4 RunAdmission

The canonical configuration: `AdmissionController.admit` calls
`RunCreateAuthorityBinding.admit`, which reserves resources, reads the canonical
head, commits RUN_CREATE, finalizes the reservation, projects, and returns; on
the other side a worker terminates: RUN_TERMINATE, settlement, projection,
acknowledgement.  `pc` and `tpc` are the next Redis call of a caller and of a
worker; any other step may come between.

| Action | Code |
|---|---|
| `StartAdmit`, `CheckRate`, `RejectRun` | `_admit_canonical` up to the binding |
| `Reserve`, `Release` | the resource script with the receipt of the run |
| `Read`, `Inspect` | snapshot and receipt of the head; legacy footprint of a run without one |
| `Commit`, `Resolve` | commit, and `_resolve_ambiguous_commit` when it raised |
| `Finalize`, `Project` | finalize of the reservation, `run_create_projection.lua` |
| `TaskAdmit`, `TaskEnds` | the root task, as far as the run sees it |
| `Deliver`, `Terminate`, `Settle`, `ProjectEnd`, `Ack` | `terminate` and the worker around it |
| `NoReply`, `GiveUpCommit`/`Arrive`, `Unavailable`, `Crash`, `WorkerCrash`, `Expire` | failures: a reply lost with or without the effect, a commit that lands after its caller gave up, a store that cannot be read, a death, a TTL |

The three counters of the resource script move together and are one, `inflight`.
`Read` takes the snapshot and the probe in one step (their torn reads are the
subject of `CanonicalAuthority`), and a RUN's history is its head.  Releases of a
receipt that is not the caller's own are modelled as the code does them, which is
what `released_run` shows.

### 3.5 RunSubmission

Adds the record of an idempotency key: `Submit`, `Gate` (reserve, replay, in
progress, other request), `Conclude` (finalize with the result), `KeyFault` (the
reply of either is lost) and `ExpireKey`.  A run id is made in the gate and is
never used for another key.  `lapsed` is a history variable: `OneRunPerKey` is
claimed for keys whose record did not expire.

A stored result can be wrong about a run in one direction.  A commit that lands
after its caller gave up, or whose reply and resolving reads are both lost, leaves
a durable run that the result denies (`DenialProven`, section 5).  `StoredResultStands` is what
holds regardless: the caller of such a run never gets to finalize its resources,
project it or seed its task, and nobody else has its run id.

### 3.6 RunTermination

Extends `TaskLifecycle` and replaces its completions by `Completes`, after which
the worker still has two calls to make: `Finalize` (`run_terminate_from_tasks.lua`)
and `Acknowledge`.  `Redelivered` is a delivery of a task that has ended, which
finalizes again.  `FinalizeRaises` and `FinalizerCrash` stop a worker between
calls.  Entries of the older run dispatcher, whose consumer ends a run without
looking at its tasks, have no producer and are left out.  This is the profile with the termination binding on and the
canonical bindings off.

### 3.7 WorkerFleet

Every await of `WorkerService.start` is a phase; `Fatal`, `LeaseLost`,
`FatalCleanup`, `Stop`, `DrainEnds` and `Crash` are the ways out.  The lease has
a TTL (`LeaseExpires`), the owners map has none and is repaired by
`RenewScript` and pruned by `OrphanSeen`/`OrphanRemoved`.  `FindLease` and
`ConfirmLease` are the two awaits of a worker that finds the lease taken.

One task is dispatched (`Dispatch`: state, reservation, message), claimed,
completed or requeued, and dispatched again with a new message.  `Claims` is the
claim script: it refuses a task that is not scheduled, a reservation of another
worker and one of another term, and deletes the reservation, so the message of a
claim that was made claims nothing again, unless the same term reserves its
worker once more.  A worker whose
claim is refused reads the owner index (`Offers`) and moves the message later
(`HandsOver`), when the reservation may be another one.  A worker that crashes,
drains or loses its heartbeat leaves its message pending and its claim to the
sweep (`Requeue`); the pending message is acknowledged as a duplicate once the
task has ended (`AcksDuplicate`).  `ReservationLapses` is the TTL: a scheduled task
without a reservation is stranded, as in `TaskLifecycle`.  The workers' groups are
chosen in `Init`: one group, or two that compete for the shard.

### 3.8 WorkerRegistry

Time passes in `Tick`s.  The state holds ages instead of dates, cut off where the
code stops telling them apart, so no bound on time is needed.  A heartbeat is
built (`Publish`), executed later (`Lands`) or lost.  The stream is the set `log`
with the order `before`, in which an instance handles its batch.  The instances read, claim
back (`Autoclaim`), apply (`Apply`: HSET) and finish (`Finish`: EXPIRE, XACK), and
may lose their batch at any point.  `Skew` is how far the worker's clock is ahead.
`open` says that the worker accepts work, and `openAge` how long ago it last did.

### 3.9 Reconciliation

`cell` is what the keys hold; the upper half of the module is the system that
changes it, the lower half an observer that reads the cells of its plan one by
one, twice, and compares.  `moments` is a history variable: all contents of the
observed cells since the observation began.  `Damage` is a key changed by
somebody else, once.  What an operation's reader does not look at reads as nothing
(`Value`); a settlement whose proof does not match is reported whatever came of its
receipt (`Compared`), and a receipt that cannot be read does not end the
observation (`ReceiptFails`).  Left out are admissions that still wait for
dependencies, the ambiguous fan-out of TASK_ADMIT and the current-head checks of
the two RUN operations: further rules over the same double reads.  Nothing under `src` but tests calls
`TerminalAggregateProofManager.capture` any more: the RUN_TERMINATE binding proves
the end of a run with its canonical root task and never writes the proof key the
historical reconciler reads.  `Terminate` models that, `TerminateWithProof` the
records the reader is made for.

## 4. Runs

| Run | Bounds | Shows |
|---|---|---|
| `task_graph` | a join: two parents, one child, 1 term, 1 sweep; and one task with 2 overlapping terms or 2 racing sweeps (constraint `Bound`); 2 workers, 1 retry; symmetric workers | types, claim epochs unique, retry budget exact, the two keys of a reservation parted only by another term's unfinished release, index agreement, dependency order, terminal states final |
| `leader_election` | 2 instances, 2 lapses, 2 faults, fair | exclusive epochs, single leader without lapse, a leader is elected and stays |
| `authority_log` | 2 callers, 1 task, RUN with and without root, 7 calls, fair | the store implements `AuthorityLog`; a RUN ends as its root task; answers name stored records; calls return |
| `run_admission` | 2 callers, 2 runs, 2 payloads, 2 workers, limit 1, 3 calls, 1 fault of any kind; symmetric | counters are the held reservations; an ended run was finalized; an acknowledged run is settled and published once |
| `run_submission` | 2 callers, 2 keys, 2 runs, 1 worker, limit 1, 3 submissions, 2 faults, fair workers | one run per key, denied runs never start, other results stand for durable runs, accepted means complete, a run whose task ended settles |
| `run_termination` | chain of 2 tasks, 1 worker id, 1 term, 1 sweep, no retry, fair | the published outcome holds, somebody is left to finalize, ended tasks end the run, a ready task ends |
| `worker_fleet` | 2 workers in 1 or 2 groups, 1 shard, 1 task, 1 requeue (2 messages, 2 terms), 2 faults, fair | pulling is fenced, the owners map recovers, the task is claimed by the worker it is reserved for and completed or taken back |
| `worker_registry` | 2 instances, 2 heartbeats alive, TTL 1, idle 1, registry TTL 2, skew 1; symmetric | tasks are offered only to a worker that served recently; a hash gets its expiry |
| `reconciliation` | a task history of 5 records, a RUN with its receipt and proof, 1 damage | findings are snapshots; findings about the past hold |
| `leader_scheduler` | 2 instances, 1 fault, fair | violation, finding 1 |
| `released_run` | 2 callers, 2 payloads, no faults | violation, finding 2 |
| `recovery_ack` | 1 task, 1 worker, fair | violation, finding 3 |

Why the bounds are enough: two of each process let every pair of steps race, one
retry gives a live claim beside a zombie, a join is the smallest graph whose
child waits for two countdowns, two terms are what it takes to part the keys of a
reservation, and seven authority calls take a task through a
requeue to its second dispatch or to the end of its RUN.  With two runs and an
inflight limit of one every reservation of the second waits for the first to be
released or settled; three calls let a run be retried after a failure while
another caller is in the middle of it.  The run of `RunSubmission` has every fault of `RunAdmission` but the expiry of a run's
state key, after which a run cannot settle; `run_admission` has that one too.
One requeue in `worker_fleet` gives a message of an earlier dispatch beside the
current one, and a worker with a lost claim beside the next owner; two faults let
the reader and then the owner of a message fail.
In `run_termination` a sweep without
retries ends a task behind its worker's back, the one way a run ends that no
completion reports.  Two heartbeats are enough for an old one to overtake a new
one, and with TTL and idle time of one tick each a batch can be claimed back
before or after its heartbeats are stale.  Five records take a task through
admission, dispatch, claim, requeue and dispatch again, the shortest history in
which a state returns while it is being read.

Deadlock is checked where the system never stops: in `leader_election` and in
`worker_registry`, where time passes.  The other models may come to rest: all
tasks ended, a stranded task, bounded calls and faults used up, or a finished
message.

Fairness.  `TaskLifecycle!Fairness`: the leader's loop keeps peeking (weak), and
its reserve and commit are not defeated for ever by crashes or conflicts (strong:
`SchedulerLoop` retries every cycle); TTLs lapse; an unacknowledged entry is
redelivered until the reserved worker has it (`_reclaim_pending_messages`,
hand-off); a live worker ends its executions.  Nothing is assumed of heartbeats,
sweeps, admissions or run recovery.  `RunTermination!FinFairness` adds that a
pending entry is delivered again, and that a worker does not fail at the same
call for ever (strong).  `LeaderElection!Fairness`: `_loop` and
`_leader_watchdog` are infinite loops that swallow exceptions; the TTL of a dead
holder lapses; a dead process is restarted by its supervisor.
`CanonicalAuthority!Fairness`: an awaited Redis call returns or raises; nobody need
call a binding again.  `RunSubmission`: a pending delivery comes back, so workers
go on (weak); nothing is assumed of callers.  `WorkerFleet!Fairness`: started
background tasks go on, a supervisor restarts a worker that is down, a lease that
nobody renews lapses, recovery sweeps find a claim that nobody heartbeats (all
weak, with boundedly many faults); nothing is assumed of the monitor, the
dispatch or the end of a reservation.

## 5. Findings

1. `leader_scheduler`: after one failure the system can be left with a leader that
   renews for ever and no scheduler.  One way there is an acquisition without a new
   fencing token: an instance whose INCR failed, or that restarted before its key
   lapsed, finds its own id under the key and leads with token 0.
2. `released_run`: two requests for one run with different payloads.  The caller
   that made the reservation loses the commit and releases the reservation that
   the durable run stands on; that run can be neither finalized nor settled.
3. `recovery_ack`: with the termination binding on and the canonical RUN binding
   off, a redelivered entry of an ended task is finalized and never acknowledged,
   for its acknowledgement demands a proof only the canonical binding has.

Refuted in the same models by properties that have no run of their own (add the
name to the `.cfg` of the model to see the counterexample):

- `TaskLifecycle!RequeuesObservedClaim`: the legacy requeue is not bound to the
  claim the sweep observed; a duplicate requeue takes away a healthy later claim.
- `RunSubmission!DenialProven`: the reply of a RUN_CREATE commit is lost and the two
  reads that would resolve it fail (`run_create_authority.py` 875-879, an error with
  `canonical_commit_durable` False).  `run_submission.py` 651 makes that REJECTED, not
  admitted, and stores it under the key, although the run is durable and its
  resources stay reserved.  SPRINT84.4 (line 72) says that such a commit "is treated
  as ambiguous until the aggregate snapshot and exact operation receipt are
  re-read".  A commit that lands late ends the same way.
- `LeaderElection!StaleLeaderFenced`: a stale leader's dispatch is accepted after a
  newer leader's.
- `CanonicalAuthority!ExactDispatchNotCorrupt`: a redelivered dispatch whose twin
  commits between its two reads files evidence of corruption instead of answering
  ALREADY_APPLIED.
- `CanonicalAuthority!SameRequeueNotCorrupt` (with two clock readings): two sweeps
  that requeue one claim race to equal command hashes and unequal records; the
  loser files evidence of corruption.

Also visible: a dispatch whose reply is lost, or whose reservation lapses before
the claim, strands its task in `scheduled` (`Stranded`).  A caller that dies
between reserve and commit leaks the reservation until the same run is submitted
again.  An instance stalled with a heartbeat batch until another one had taken it
can leave a worker hash without expiry (`overtaken`).  Since nothing writes the
terminal proof key, the historical checks of proof and settlement are blocked for
every run the present code ends.  `pending -> blocked_by_failure` happens (failure
sweeper) and is not among the `ALLOWED_TRANSITIONS` of `dag/states.py`.

## 6. Proofs

All theorems are for every value of the constants, under the assumptions named in
the modules.

`TaskLifecycle_proofs` (from `TasksAssumption`, `ChildrenAssumption`,
`MaxRequeueAssumption`, `NoOneAssumption`).  The inductive invariant `IInv` is
`TypeOK` with `Core`.  `DependencyOrder` is not inductive alone: a child becomes
ready when its counter reaches zero, so `CountdownSound` says the counter of a
pending child is at least the number of parents not done, and finite-set
cardinality carries the step.  `ClaimBudget` needs `ClaimsCounted`, the exact
relation between claim epoch, requeue count and state.  `ClaimEpochUnique` needs
`EpochsIssued`: no execution carries an epoch not issued yet.  The failure
sweeper's blind write is harmless because of `BlockerSound`: its child stays
pending or blocked while its parent is failed, which rests on `DependencyOrder`.
Theorems: `TypeCorrect`, `IndexesCorrect`, `DependencyCorrect`, `ClaimFencing`,
`ClaimBudgetHolds`, `FencesStored`, and `TerminalForever`, `LegalMoves` and
`PairsIntact` for the action properties.

`LeaderElection_proofs` (from `BoundsAssumption`, `NoHolderAssumption`).
`EpochExclusive` needs `EpochsIssued` (every epoch in use is at most the fence);
`SingleLeader` needs `BelieverHolds` (until a lapse, a believer, or an instance
past a call that found the key its own, holds the key).  Theorems:
`EpochsExclusive`, `OneLeader`, `ElectionTypes`.

`AuthorityLog_proofs`: `LogEndsAsRoot` from the abstract specification alone.  Its
invariant says that an ended RUN's root task has ended in the same state and that
no operation leaves an ended state, so the agreement cannot be undone.

`CanonicalAuthority_proofs` (from `AggregateAssumption`, `TimesAssumption`,
`RootAssumption`, `ClientsAssumption`, `InputsAssumption`).  The inductive
invariant `Inv` is `TypeOK` with `CallsSound`: the plan a call carries is legal and
follows the history at the revision it was made from.  That alone makes the commit
step an abstract step: the head check makes the planned revision the current one,
the receipt check makes the operation new, the guard check gives the agreement
with the other aggregate.  A plan stays sound while others commit because
histories only grow.  Theorems: `CanonicalTypeOK`, `StoreKeepsLog` (the
refinement), `StoreEndsAsRoot` (the abstract theorem carried over by it) and
`DurableAnswers`.

In `TaskLifecycle_proofs`, the proof about the release (`PairsIntact`) adds `ReleaseAimed`: a release
that has read the worker key of a pair its own term made still has that pair's task in
hand.  It is not part of
`IInv` because no other theorem needs it.  `LegalMoves` and `TerminalForever` rest on one
lemma, `StepMoves`, with one step per action.

The same module proves `RunTermination`, which extends `TaskLifecycle` (from
`NoResultAssumption`: the absent result is not a result).  `FinInv` is `Published`
(what was published is the outcome of tasks that have all ended), `Entered`
(every execution, finalization and acknowledgement is of a message that was sent, every
task past ready has one, and only ended tasks are finalized or acknowledged) and `Owed`
(while every task has ended and the run has not, some message of an ended task is
neither acknowledged nor past its finalization).  Theorems: `OutcomeHolds`,
`FinalizerStays`.
`PublishedOutcomeHolds` is `Published` with `TerminalForever`; `FinalizerRemains`
needs `Owed`, for the last task to end need not be the last to be acknowledged.
`RunsTaskLifecycle` is the refinement: `FinSpec => Spec`.

`RunSubmission_proofs` (from the assumptions of `RunAdmission` and
`KeysAssumption`: "none" is no key).  The inductive invariant of admission is
`StoreInv` (types of the store, counters equal to the held receipts, what a receipt,
a head, a task and an event say of each other), `CallsTyped`, `Admitting` (what
is stored by the time a caller is at a step) and `Serving` (the same for a terminating
worker).  `CountersMatch` alone is not inductive because a release gives back what a
receipt says, and `AckedIsSettled` needs what the worker did at the awaits before.  The
theorem `NothingTakenBack` carries what a caller has learned over the steps of all
others.  For the idempotency gate `KeyInv` adds `Keyed` (no run is worked on, on the wire
or stored without its key), `Recorded` (a live record names that run) and
`AnswersComplete` (a caller that is about to conclude "accepted" has a complete run).
`ResultsStand` needs more: `OneCaller` (a run without a key has not started, a run has
one active caller, and none once its record is FINAL) and `Knows` (by where that
caller is, its run has not started, or is durable).  It holds for every set of faults:
a commit that arrives late makes a run durable and starts nothing, since only its
caller could, who has concluded (`Spares`).

`WorkerFleet_proofs` (from `ConstantsAssumption`).  `ServingIsFenced` is
inductive with the types.  Those need `Offered` (a message is offered to a worker, so
that a handover does not move it to nobody) and `ClaimLeft` (a task that waits for a
claim has one left, because the sweep that took it back compared the count), which
together bound the claims by `MaxRequeue + 1`.

`WorkerRegistry_proofs` (from `ConstantsAssumption`).  `Typed` completes the
types and says that what an instance was delivered is in the stream.  `Truthful`
bounds the age of everything that says "schedulable" (a heartbeat being sent, in the
stream, in a batch, and the hash made of one) from below by the time since the
worker was schedulable, less the skew.  It is the reason why the order in which heartbeats
are applied does not matter for `OfferedServedRecently`.

`Reconciliation_proofs` (from `ConstantsAssumption`).  The heart is a moment
in the middle of the observation (`RunMiddle`, `TaskMiddle`): what the first pass read
became what the keys held then, which became what the second pass read.  Equal reads
then make that moment equal to both, cell by cell of what is compared, if no key returns to a value it has left.  Of a
RUN none does (`Becomes` is an order).  Of a TASK the state, the queue and the index
do, but not under one head: the head is read first and last and only grows, and
under it there is at most one projection.  What remains is a queue that is damaged and
refilled: `CellInv` says it never holds a revision that is not projected, so it is not
refilled with what was read.  `HistoricalFindingHolds` follows from the same order.

Only model-checked: the liveness properties (`ReadyTaskEnds`, `EndedTasksEndRun`,
`LeaderElected`, `CallsReturn`, `RunSettles`, `OwnerIsMapped`,
`MessageReachesOwner`), since liveness under fairness is outside the prover, and
the three properties whose violation is a finding.

## 7. Not modelled

The map covers the protocol core and a small share of the repository.  Most of the
rest has no state that several actors share, and nothing a model checker could
reach that a test does not:

- scripts, acceptance and evidence tooling, release checks (a quarter of the code);
- executors, LLM clients, sandboxes, semantic layer, agents, dashboard: what a task
  computes, not how it is orchestrated;
- HTTP API, read models, product profile, configuration: plumbing and views;
- validation and (de)serialisation of records, which the bindings and the
  reconcilers consist of to a large part: modelled by what they tell apart;
- RUN recovery, legacy run dispatch, tenant queue: code the production composition
  does not reach;
- effect ledger, audit, event store: appended to by modelled steps, read by no one
  who decides;
- budget guard, circuit breaker, backpressure, load shedding: local counters;
- operator commands for duplicate evidence: run by hand, one at a time.
