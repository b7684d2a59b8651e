--------------------------- MODULE TaskLifecycle ---------------------------
(***************************************************************************)
(* The life of the tasks of one run, as the Redis Lua scripts of           *)
(* hfa-core/src/hfa/lua drive it when the canonical bindings are off (the  *)
(* default): task_admit, reserve_worker, task_dispatch_commit,             *)
(* task_claim_start, task_heartbeat, task_complete and task_requeue, with  *)
(* the processes that call them: leader schedulers, worker consumers,      *)
(* recovery sweeps and the failure sweeper.                                *)
(*                                                                         *)
(* A Lua script is one atomic step.  Everything a Python caller does       *)
(* between two awaits is a step of its own, so a scheduler, a worker or a  *)
(* sweep may be delayed, overtaken or killed between any two of them.      *)
(***************************************************************************)
EXTENDS Integers, FiniteSets

CONSTANTS
    Tasks,          \* the task ids of one run
    Workers,        \* worker_instance_id values
    Schedulers,     \* leadership terms; a term is its scheduler_epoch
    Recoverers,     \* concurrent recovery sweeps
    Children,       \* Children[t]: child_task_ids given to task_admit for t
    MaxRequeue,     \* HeartbeatPolicy.max_requeue_count
    NoOne           \* an absent key or an empty hash field

ASSUME TasksAssumption      == IsFiniteSet(Tasks)
ASSUME ChildrenAssumption   == Children \in [Tasks -> SUBSET Tasks]
ASSUME MaxRequeueAssumption == MaxRequeue \in Nat
ASSUME NoOneAssumption      == NoOne \notin Tasks \cup Workers \cup Schedulers

VARIABLES
    runLive,        \* RUN truth: is run_state nonterminal
    state,          \* hfa:dag:task:<t>:state ("none": key absent)
    remaining,      \* hfa:dag:task:<t>:remaining_deps
    emitted,        \* hfa:dag:task:<t>:ready_emitted exists
    readyQ,         \* members of the tenant ready zset
    schedZ,         \* members of the tenant scheduled zset
    runZ,           \* members of the tenant running zset
    owner,          \* task_meta.worker_instance_id
    schedEpoch,     \* task_meta.scheduler_epoch
    claimEpoch,     \* task_meta.claim_epoch (absent: 0)
    requeues,       \* task_meta.requeue_count
    fresh,          \* last_heartbeat_at_ms is within stale_after_ms
    wres,           \* worker reservation hash of each worker
    ores,           \* task reservation owner index hash of each task
    messages,       \* TaskRequested entries of the shard stream
    execs,          \* claims being executed in worker memory
    sched,          \* each scheduler's position in dispatch_once
    sweep,          \* each recovery sweep's current stale candidate
    blocker         \* the failure sweeper's parent and child, between awaits

taskVars  == <<state, remaining, emitted, readyQ, schedZ, runZ>>
metaVars  == <<owner, schedEpoch, claimEpoch, requeues, fresh>>
resVars   == <<wres, ores>>
vars      == <<runLive, taskVars, metaVars, resVars, messages, execs, sched,
               sweep, blocker>>

\* Nothing writes the terminal states dead_lettered and skipped to a task.
TerminalStates == {"done", "failed", "blocked_by_failure"}
TaskStates     == {"none", "pending", "ready", "scheduled", "running"}
                    \cup TerminalStates

Parents(t) == {p \in Tasks : t \in Children[p]}

(***************************************************************************)
(* Local records.  A reservation names the reserved task (worker key) or   *)
(* the reserved worker (owner index) and the epoch that made it.           *)
(***************************************************************************)
WorkerReservations == [task : Tasks, epoch : Schedulers]
OwnerReservations  == [worker : Workers, epoch : Schedulers]
Messages           == [task : Tasks, epoch : Schedulers]
Executions         == [task : Tasks, worker : Workers, epoch : Schedulers,
                       claim : Nat]
Sweeps             == [task : Tasks, claim : Nat]
Blockers           == [parent : Tasks, child : Tasks]

(* A scheduler's locals: the peeked task, the reserved worker, and the     *)
(* task whose owner index a release is about to delete.                    *)
Locals(pcs, task, worker, drop) ==
    [pc : pcs, task : task, worker : worker, drop : drop]

Idle == [pc |-> "idle", task |-> NoOne, worker |-> NoOne, drop |-> NoOne]

SchedulerLocals ==
    UNION { {Idle},
            Locals({"reserve"}, Tasks, {NoOne}, {NoOne}),
            Locals({"dispatch", "relTask"}, Tasks, Workers, {NoOne}),
            Locals({"relOwner"}, Tasks, Workers, Tasks),
            Locals({"relDelete"}, Tasks, Workers, Tasks \cup {NoOne}) }

Init ==
    /\ runLive    = TRUE
    /\ state      = [t \in Tasks |-> "none"]
    /\ remaining  = [t \in Tasks |-> 0]
    /\ emitted    = [t \in Tasks |-> FALSE]
    /\ readyQ     = {}
    /\ schedZ     = {}
    /\ runZ       = {}
    /\ owner      = [t \in Tasks |-> NoOne]
    /\ schedEpoch = [t \in Tasks |-> NoOne]
    /\ claimEpoch = [t \in Tasks |-> 0]
    /\ requeues   = [t \in Tasks |-> 0]
    /\ fresh      = [t \in Tasks |-> FALSE]
    /\ wres       = [w \in Workers |-> NoOne]
    /\ ores       = [t \in Tasks |-> NoOne]
    /\ messages   = {}
    /\ execs      = {}
    /\ sched      = [s \in Schedulers |-> Idle]
    /\ sweep      = [r \in Recoverers |-> NoOne]
    /\ blocker    = NoOne

----------------------------------------------------------------------------
(* task_admit.lua.  A second admission finds the footprint of the first    *)
(* and writes nothing, so only a task without one is an action.  The       *)
(* admitter passes dependency_count = the number of declared parents.      *)

Admit(t) ==
    /\ state[t] = "none"
    /\ remaining' = [remaining EXCEPT ![t] = Cardinality(Parents(t))]
    /\ IF Parents(t) = {}
         THEN /\ state'   = [state EXCEPT ![t] = "ready"]
              /\ emitted' = [emitted EXCEPT ![t] = TRUE]
              /\ readyQ'  = readyQ \cup {t}
         ELSE /\ state'   = [state EXCEPT ![t] = "pending"]
              /\ UNCHANGED <<emitted, readyQ>>
    /\ UNCHANGED <<runLive, schedZ, runZ, metaVars, resVars, messages, execs,
                   sched, sweep, blocker>>

----------------------------------------------------------------------------
(* DagSchedulerDispatchController.dispatch_once and                        *)
(* SchedulerReservationDispatcher.reserve_and_dispatch.                    *)

(* Mutant: the head is popped, so a dispatch that ends early loses it.     *)
PeekPops(s, t) ==
    /\ sched[s].pc = "idle"
    /\ t \in readyQ
    /\ readyQ' = readyQ \ {t}
    /\ sched' = [sched EXCEPT ![s] = [Idle EXCEPT !.pc = "reserve",
                                                  !.task = t]]
    /\ UNCHANGED <<runLive, state, remaining, emitted, schedZ, runZ, metaVars,
                   resVars, messages, execs, sweep, blocker>>

(* The head of the ready queue is peeked, never popped.  Which task is     *)
(* first is left open: the zset is a set here.                             *)
Peek(s, t) ==
    /\ sched[s].pc = "idle"
    /\ t \in readyQ
    /\ sched' = [sched EXCEPT ![s] = [Idle EXCEPT !.pc = "reserve",
                                                  !.task = t]]
    /\ UNCHANGED <<runLive, taskVars, metaVars, resVars, messages, execs,
                   sweep, blocker>>

(* reserve_worker.lua: an existing worker or owner key is a                *)
(* reservation_conflict and ends this dispatch.                            *)
ReservationFreeWorkerOnly(w, t) == wres[w] = NoOne      \* mutant

ReservationFree(w, t) == wres[w] = NoOne /\ ores[t] = NoOne

Reserve(s, w) ==
    LET t == sched[s].task IN
    /\ sched[s].pc = "reserve"
    /\ IF ReservationFree(w, t)
         THEN /\ wres' = [wres EXCEPT ![w] = [task |-> t, epoch |-> s]]
              /\ ores' = [ores EXCEPT ![t] = [worker |-> w, epoch |-> s]]
              /\ sched' = [sched EXCEPT ![s].pc = "dispatch",
                                        ![s].worker = w]
         ELSE /\ sched' = [sched EXCEPT ![s] = Idle]
              /\ UNCHANGED resVars
    /\ UNCHANGED <<runLive, taskVars, metaVars, messages, execs, sweep,
                   blocker>>

(* task_dispatch_commit.lua, legacy mode: what the script writes.          *)
Dispatched(s) ==
    LET t == sched[s].task IN
    /\ state[t] = "ready" /\ runLive
    /\ readyQ'     = readyQ \ {t}
    /\ state'      = [state EXCEPT ![t] = "scheduled"]
    /\ schedEpoch' = [schedEpoch EXCEPT ![t] = s]
    /\ schedZ'     = schedZ \cup {t}
    /\ messages'   = messages \cup {[task |-> t, epoch |-> s]}
    /\ UNCHANGED <<runLive, remaining, emitted, runZ, owner, claimEpoch,
                   requeues, fresh, resVars, execs, sweep, blocker>>

DispatchCommit(s) ==
    /\ sched[s].pc = "dispatch"
    /\ Dispatched(s)
    /\ sched' = [sched EXCEPT ![s] = Idle]

(* The call raises, before the script ran or after it committed (the reply *)
(* is lost): reserve_and_dispatch releases the reservation either way.     *)
DispatchRaises(s) ==
    /\ sched[s].pc = "dispatch"
    /\ \/ Dispatched(s)
       \/ UNCHANGED <<runLive, taskVars, metaVars, resVars, messages, execs,
                      sweep, blocker>>
    /\ sched' = [sched EXCEPT ![s].pc = "relTask"]

(* Any other status of the script: the caller releases the reservation.    *)
DispatchRejected(s) ==
    LET t == sched[s].task IN
    /\ sched[s].pc = "dispatch"
    /\ state[t] # "ready" \/ ~runLive
    /\ sched' = [sched EXCEPT ![s].pc = "relTask"]
    /\ UNCHANGED <<runLive, taskVars, metaVars, resVars, messages, execs,
                   sweep, blocker>>

(* WorkerReservationManager.release: read the worker key's task, read that *)
(* task's owner index, then delete the worker key and, when the index      *)
(* named this worker, the index.  The index is read twice, for its worker  *)
(* and for its task; every index of a task names that task, so the second  *)
(* read finds the same or, if the index lapsed in between, no index, as    *)
(* one read after the lapse does.                                          *)
ReleaseReadTask(s) ==
    LET w == sched[s].worker IN
    /\ sched[s].pc = "relTask"
    /\ sched' = [sched EXCEPT
                   ![s].pc   = IF wres[w] = NoOne THEN "relDelete"
                                                  ELSE "relOwner",
                   ![s].drop = IF wres[w] = NoOne THEN NoOne
                                                  ELSE wres[w].task]
    /\ UNCHANGED <<runLive, taskVars, metaVars, resVars, messages, execs,
                   sweep, blocker>>

ReleaseReadOwner(s) ==
    LET w == sched[s].worker
        t == sched[s].drop
    IN
    /\ sched[s].pc = "relOwner"
    /\ sched' = [sched EXCEPT
                   ![s].pc   = "relDelete",
                   ![s].drop = IF ores[t] # NoOne /\ ores[t].worker = w
                                 THEN t ELSE NoOne]
    /\ UNCHANGED <<runLive, taskVars, metaVars, resVars, messages, execs,
                   sweep, blocker>>

ReleaseDelete(s) ==
    LET w == sched[s].worker
        t == sched[s].drop
    IN
    /\ sched[s].pc = "relDelete"
    /\ wres' = [wres EXCEPT ![w] = NoOne]
    /\ ores' = IF t = NoOne THEN ores ELSE [ores EXCEPT ![t] = NoOne]
    /\ sched' = [sched EXCEPT ![s] = Idle]
    /\ UNCHANGED <<runLive, taskVars, metaVars, messages, execs, sweep,
                   blocker>>

(* Mutant: a cancelled dispatch keeps its locals.                          *)
SchedulerCrashKeepsLocals(s) ==
    /\ sched[s].pc # "idle"
    /\ sched' = [sched EXCEPT ![s].pc = "idle"]
    /\ UNCHANGED <<runLive, taskVars, metaVars, resVars, messages, execs,
                   sweep, blocker>>

(* The scheduler process dies or is cancelled: whatever it had reserved    *)
(* stays in Redis.                                                         *)
SchedulerCrash(s) ==
    /\ sched[s].pc # "idle"
    /\ sched' = [sched EXCEPT ![s] = Idle]
    /\ UNCHANGED <<runLive, taskVars, metaVars, resVars, messages, execs,
                   sweep, blocker>>

(* The two keys of a reservation get their TTL in the same script and      *)
(* lapse together; a key that has lost its partner lapses alone.           *)
Paired(w, t) ==
    /\ wres[w] # NoOne /\ ores[t] # NoOne
    /\ wres[w] = [task |-> t, epoch |-> ores[t].epoch]
    /\ ores[t].worker = w

ReservationExpires(w) ==
    /\ wres[w] # NoOne
    /\ wres' = [wres EXCEPT ![w] = NoOne]
    /\ ores' = [t \in Tasks |-> IF Paired(w, t) THEN NoOne ELSE ores[t]]
    /\ UNCHANGED <<runLive, taskVars, metaVars, messages, execs, sched,
                   sweep, blocker>>

OwnerIndexExpires(t) ==
    /\ ores[t] # NoOne
    /\ \A w \in Workers : ~Paired(w, t)
    /\ ores' = [ores EXCEPT ![t] = NoOne]
    /\ UNCHANGED <<runLive, taskVars, metaVars, wres, messages, execs, sched,
                   sweep, blocker>>

----------------------------------------------------------------------------
(* Workers.  A TaskRequested entry is delivered at least once, to any      *)
(* worker of the group: by XREADGROUP, by XCLAIM of an idle entry, or by   *)
(* the hand-off of a reserved entry.                                       *)

(* task_claim_start.lua, legacy mode: the worker must hold the reservation *)
(* of this task under the epoch of its message, and an owner index that    *)
(* exists must agree with it.                                              *)
ReservationAccepts(w, m) ==
    LET t == m.task IN
    /\ wres[w] = [task |-> t, epoch |-> m.epoch]
    /\ ores[t] # NoOne => ores[t] = [worker |-> w, epoch |-> m.epoch]

NextClaimEpochRestarts(t) == 1                          \* mutant

NextClaimEpoch(t) == claimEpoch[t] + 1

Claim(w, m) ==
    LET t == m.task IN
    /\ m \in messages
    /\ state[t] = "scheduled" /\ runLive
    /\ ReservationAccepts(w, m)
    /\ claimEpoch' = [claimEpoch EXCEPT ![t] = NextClaimEpoch(t)]
    /\ state'      = [state EXCEPT ![t] = "running"]
    /\ owner'      = [owner EXCEPT ![t] = w]
    /\ schedEpoch' = [schedEpoch EXCEPT ![t] = m.epoch]
    /\ fresh'      = [fresh EXCEPT ![t] = TRUE]
    /\ schedZ'     = schedZ \ {t}
    /\ runZ'       = runZ \cup {t}
    /\ wres'       = [wres EXCEPT ![w] = NoOne]
    /\ ores'       = [ores EXCEPT ![t] = NoOne]
    /\ execs'      = execs \cup {[task |-> t, worker |-> w,
                                  epoch |-> m.epoch,
                                  claim |-> NextClaimEpoch(t)]}
    /\ UNCHANGED <<runLive, remaining, emitted, readyQ, requeues, messages,
                   sched, sweep, blocker>>

(* The worker process dies, or loses the reply of its claim: nothing is    *)
(* left in its memory.                                                     *)
WorkerCrash(w) ==
    /\ \E e \in execs : e.worker = w
    /\ execs' = {e \in execs : e.worker # w}
    /\ UNCHANGED <<runLive, taskVars, metaVars, resVars, messages, sched,
                   sweep, blocker>>

(* task_heartbeat.lua: the stored owner and claim epoch must be the        *)
(* caller's.  (The heartbeat_owner fallback needs a running task without   *)
(* worker_instance_id; FenceStored below says there is none.)              *)
HeartbeatAccepts(e) ==
    /\ state[e.task] = "running" /\ runLive
    /\ owner[e.task] = e.worker
    /\ claimEpoch[e.task] = e.claim

Heartbeat(e) ==
    /\ e \in execs
    /\ HeartbeatAccepts(e)
    /\ fresh' = [fresh EXCEPT ![e.task] = TRUE]
    /\ runZ'  = runZ \cup {e.task}
    /\ UNCHANGED <<runLive, state, remaining, emitted, readyQ, schedZ, owner,
                   schedEpoch, claimEpoch, requeues, resVars, messages, execs,
                   sched, sweep, blocker>>

(* HeartbeatLoop: a heartbeat that is rejected, or whose call raises,      *)
(* signals ownership loss, and TaskConsumer cancels the execution without  *)
(* completing it.                                                          *)
OwnershipLost(e) ==
    /\ e \in execs
    /\ execs' = execs \ {e}
    /\ UNCHANGED <<runLive, taskVars, metaVars, resVars, messages, sched,
                   sweep, blocker>>

(* task_complete.lua, legacy mode.  Only pending children are counted      *)
(* down; the counter is clamped at zero.                                   *)
CompletionAccepts(e) ==
    /\ state[e.task] = "running" /\ runLive
    /\ claimEpoch[e.task] = e.claim
    /\ schedEpoch[e.task] = e.epoch
    /\ owner[e.task] = e.worker

CountedDownAnyState(t) == Children[t]                   \* mutant

CountedDown(t) == {c \in Children[t] : state[c] = "pending"}
Decremented(n) == IF n > 0 THEN n - 1 ELSE 0
Unlocked(t)    == {c \in CountedDown(t) : Decremented(remaining[c]) = 0
                                          /\ ~emitted[c]}

CompleteDone(e) ==
    LET t == e.task IN
    /\ e \in execs
    /\ CompletionAccepts(e)
    /\ state'     = [c \in Tasks |-> IF c = t THEN "done"
                                     ELSE IF c \in Unlocked(t) THEN "ready"
                                     ELSE state[c]]
    /\ remaining' = [c \in Tasks |-> IF c \in CountedDown(t)
                                       THEN Decremented(remaining[c])
                                       ELSE remaining[c]]
    /\ emitted'   = [c \in Tasks |-> emitted[c] \/ c \in Unlocked(t)]
    /\ readyQ'    = readyQ \cup Unlocked(t)
    /\ runZ'      = runZ \ {t}
    /\ execs'     = execs \ {e}
    /\ UNCHANGED <<runLive, schedZ, metaVars, resVars, messages, sched, sweep,
                   blocker>>

(* Mutant: the ZREM of the running zset is forgotten.                      *)
CompleteFailedKeepsIndex(e) ==
    /\ e \in execs
    /\ CompletionAccepts(e)
    /\ state' = [state EXCEPT ![e.task] = "failed"]
    /\ execs' = execs \ {e}
    /\ UNCHANGED <<runLive, remaining, emitted, readyQ, schedZ, runZ, metaVars,
                   resVars, messages, sched, sweep, blocker>>

CompleteFailed(e) ==
    LET t == e.task IN
    /\ e \in execs
    /\ CompletionAccepts(e)
    /\ state' = [state EXCEPT ![t] = "failed"]
    /\ runZ'  = runZ \ {t}
    /\ execs' = execs \ {e}
    /\ UNCHANGED <<runLive, remaining, emitted, readyQ, schedZ, metaVars,
                   resVars, messages, sched, sweep, blocker>>

CompletionRejected(e) ==
    /\ e \in execs
    /\ ~CompletionAccepts(e)
    /\ execs' = execs \ {e}
    /\ UNCHANGED <<runLive, taskVars, metaVars, resVars, messages, sched,
                   sweep, blocker>>

----------------------------------------------------------------------------
(* TaskRecoveryManager: find_stale_tasks, then requeue_stale_task.         *)

GoesStale(t) ==
    /\ state[t] = "running" /\ fresh[t]
    /\ fresh' = [fresh EXCEPT ![t] = FALSE]
    /\ UNCHANGED <<runLive, taskVars, owner, schedEpoch, claimEpoch, requeues,
                   resVars, messages, execs, sched, sweep, blocker>>

StaleCandidate(t) == t \in runZ /\ ~fresh[t]

(* The sweep keeps the task id only; the claim it looked at is recorded    *)
(* here for the properties.                                                *)
FindStale(r, t) ==
    /\ sweep[r] = NoOne
    /\ StaleCandidate(t)
    /\ sweep' = [sweep EXCEPT ![r] = [task |-> t, claim |-> claimEpoch[t]]]
    /\ UNCHANGED <<runLive, taskVars, metaVars, resVars, messages, execs,
                   sched, blocker>>

RequeueAcceptsAnyState(t) == runLive                    \* mutant
ExhaustedLate(n)          == n > MaxRequeue + 1         \* mutant

RequeueAccepts(t) == state[t] = "running" /\ runLive
Exhausted(n)      == n > MaxRequeue

(* task_requeue.lua, legacy mode, expected_state "running".  claim_epoch   *)
(* and ready_emitted are left alone.                                       *)
Requeue(r) ==
    LET t == sweep[r].task
        n == requeues[t] + 1
    IN
    /\ sweep[r] # NoOne
    /\ RequeueAccepts(t)
    /\ requeues'   = [requeues EXCEPT ![t] = n]
    /\ owner'      = [owner EXCEPT ![t] = NoOne]
    /\ schedEpoch' = [schedEpoch EXCEPT ![t] = NoOne]
    /\ fresh'      = [fresh EXCEPT ![t] = FALSE]
    /\ runZ'       = runZ \ {t}
    /\ IF Exhausted(n)
         THEN /\ state' = [state EXCEPT ![t] = "failed"]
              /\ UNCHANGED readyQ
         ELSE /\ state'  = [state EXCEPT ![t] = "ready"]
              /\ readyQ' = readyQ \cup {t}
    /\ sweep' = [sweep EXCEPT ![r] = NoOne]
    /\ UNCHANGED <<runLive, remaining, emitted, schedZ, claimEpoch, resVars,
                   messages, execs, sched, blocker>>

(* TASK_TERMINAL, TASK_ALREADY_REQUEUED, TASK_STATE_CONFLICT or a RUN      *)
(* truth conflict.                                                         *)
RequeueRejected(r) ==
    /\ sweep[r] # NoOne
    /\ ~RequeueAccepts(sweep[r].task)
    /\ sweep' = [sweep EXCEPT ![r] = NoOne]
    /\ UNCHANGED <<runLive, taskVars, metaVars, resVars, messages, execs,
                   sched, blocker>>

(* The sweep raises or its process dies between the scan and the call.     *)
SweepDies(r) ==
    /\ sweep[r] # NoOne
    /\ sweep' = [sweep EXCEPT ![r] = NoOne]
    /\ UNCHANGED <<runLive, taskVars, metaVars, resVars, messages, execs,
                   sched, blocker>>

----------------------------------------------------------------------------
(* FailureSweeper.sweep_failed_task reads a child's state, appends its     *)
(* event, and then sets the state without looking again.                   *)

SweepReadChild(p, c) ==
    /\ blocker = NoOne
    /\ state[p] = "failed"
    /\ c \in Children[p]
    /\ state[c] \in {"pending", "ready"}
    /\ blocker' = [parent |-> p, child |-> c]
    /\ UNCHANGED <<runLive, taskVars, metaVars, resVars, messages, execs,
                   sched, sweep>>

SweepBlockChild ==
    /\ blocker # NoOne
    /\ state'   = [state EXCEPT ![blocker.child] = "blocked_by_failure"]
    /\ blocker' = NoOne
    /\ UNCHANGED <<runLive, remaining, emitted, readyQ, schedZ, runZ,
                   metaVars, resVars, messages, execs, sched, sweep>>

(* AuthoritativeEventAppendError: the child is left as it was.             *)
SweepAppendFailed ==
    /\ blocker # NoOne
    /\ blocker' = NoOne
    /\ UNCHANGED <<runLive, taskVars, metaVars, resVars, messages, execs,
                   sched, sweep>>

----------------------------------------------------------------------------
(* The run leaves its nonterminal states by another way than its tasks,    *)
(* such as the older run consumer, whatever its tasks are doing.           *)
RunTerminates ==
    /\ runLive
    /\ runLive' = FALSE
    /\ UNCHANGED <<taskVars, metaVars, resVars, messages, execs, sched, sweep,
                   blocker>>

SchedulerNext(s) ==
    \/ \E t \in Tasks : Peek(s, t)
    \/ \E w \in Workers : Reserve(s, w)
    \/ DispatchCommit(s) \/ DispatchRaises(s) \/ DispatchRejected(s)
    \/ ReleaseReadTask(s) \/ ReleaseReadOwner(s) \/ ReleaseDelete(s)
    \/ SchedulerCrash(s)

WorkerNext ==
    \/ \E w \in Workers, m \in messages : Claim(w, m)
    \/ \E w \in Workers : WorkerCrash(w)
    \/ \E e \in execs : \/ Heartbeat(e) \/ OwnershipLost(e)
                        \/ CompleteDone(e) \/ CompleteFailed(e)
                        \/ CompletionRejected(e)

RecoveryNext ==
    \/ \E t \in Tasks : GoesStale(t)
    \/ \E r \in Recoverers : \/ \E t \in Tasks : FindStale(r, t)
                             \/ Requeue(r) \/ RequeueRejected(r)
                             \/ SweepDies(r)
    \/ \E p, c \in Tasks : SweepReadChild(p, c)
    \/ SweepBlockChild \/ SweepAppendFailed

Next ==
    \/ \E t \in Tasks : Admit(t)
    \/ \E s \in Schedulers : SchedulerNext(s)
    \/ \E w \in Workers : ReservationExpires(w)
    \/ \E t \in Tasks : OwnerIndexExpires(t)
    \/ WorkerNext
    \/ RecoveryNext
    \/ RunTerminates

Spec == Init /\ [][Next]_vars

----------------------------------------------------------------------------
(* Fairness.  A leader keeps running its scheduling loop, and crashes do   *)
(* not hit every dispatch at the same point for ever; keys with a TTL      *)
(* lapse; an unacknowledged stream entry is redelivered until the worker   *)
(* that holds the reservation gets it; a worker that stays up ends its     *)
(* executions.  Nothing is assumed of crashes, heartbeats, admissions,     *)
(* stale-task sweeps (the leader's loop runs them only with canonical      *)
(* requeue on), the failure sweeper or the end of the run.                 *)
Fairness ==
    /\ \A s \in Schedulers :
         /\ WF_vars(\E t \in Tasks : Peek(s, t))
         /\ SF_vars(\E w \in Workers : Reserve(s, w))
         /\ SF_vars(DispatchCommit(s)) /\ WF_vars(DispatchRejected(s))
         /\ WF_vars(ReleaseReadTask(s)) /\ WF_vars(ReleaseReadOwner(s))
         /\ WF_vars(ReleaseDelete(s))
    /\ \A w \in Workers :
         /\ WF_vars(ReservationExpires(w))
         /\ WF_vars(\E m \in messages : Claim(w, m))
         /\ WF_vars(\E e \in execs : e.worker = w
                      /\ (CompleteDone(e) \/ CompleteFailed(e)))
    /\ \A t \in Tasks : WF_vars(OwnerIndexExpires(t))

FairSpec == Spec /\ Fairness

----------------------------------------------------------------------------
TypeOK ==
    /\ runLive \in BOOLEAN
    /\ state \in [Tasks -> TaskStates]
    /\ remaining \in [Tasks -> Nat]
    /\ emitted \in [Tasks -> BOOLEAN]
    /\ readyQ \subseteq Tasks /\ schedZ \subseteq Tasks /\ runZ \subseteq Tasks
    /\ owner \in [Tasks -> Workers \cup {NoOne}]
    /\ schedEpoch \in [Tasks -> Schedulers \cup {NoOne}]
    /\ claimEpoch \in [Tasks -> Nat]
    /\ requeues \in [Tasks -> Nat]
    /\ fresh \in [Tasks -> BOOLEAN]
    /\ wres \in [Workers -> WorkerReservations \cup {NoOne}]
    /\ ores \in [Tasks -> OwnerReservations \cup {NoOne}]
    /\ messages \subseteq Messages
    /\ execs \subseteq Executions
    /\ sched \in [Schedulers -> SchedulerLocals]
    /\ sweep \in [Recoverers -> Sweeps \cup {NoOne}]
    /\ blocker \in Blockers \cup {NoOne}

(* The three zsets that schedulers and sweeps discover work through hold   *)
(* exactly the tasks whose state key says so: no script leaves a task in a *)
(* set it has left, or moves a task without indexing it.                   *)
IndexesAgree ==
    /\ readyQ = {t \in Tasks : state[t] = "ready"}
    /\ schedZ = {t \in Tasks : state[t] = "scheduled"}
    /\ runZ   = {t \in Tasks : state[t] = "running"}

(* A task leaves "pending" for work only when every task that lists it as  *)
(* a child is done, whatever the order of admissions, completions, retries *)
(* and late calls.  (task_complete.lua's countdown of remaining_deps.)     *)
StartedStates == {"ready", "scheduled", "running", "done", "failed"}

DependencyOrder ==
    \A t \in Tasks : state[t] \in StartedStates =>
        \A p \in Parents(t) : state[p] = "done"

(* claim_epoch names one execution: two executions of a task alive in      *)
(* worker memory, one of them a zombie whose claim was requeued, never     *)
(* carry the same claim epoch, so the epoch check of task_complete.lua and *)
(* task_heartbeat.lua tells them apart.                                    *)
ClaimEpochUnique ==
    \A e1, e2 \in execs :
        e1.task = e2.task /\ e1.claim = e2.claim => e1 = e2

(* The retry budget: a task is claimed at most max_requeue_count + 1 times *)
(* in its life, however many sweeps race to requeue it.                    *)
ClaimBudget == \A t \in Tasks : claimEpoch[t] <= MaxRequeue + 1

(* A running task has a stored worker, scheduler epoch and claim epoch, so *)
(* no fence compares against an empty field and task_heartbeat.lua never   *)
(* falls back to heartbeat_owner.                                          *)
FenceStored ==
    \A t \in Tasks : state[t] = "running" =>
        /\ owner[t] \in Workers
        /\ schedEpoch[t] \in Schedulers
        /\ claimEpoch[t] > 0

(* The parts of the inductive invariant that carry the ones above.         *)
(* remaining_deps never runs below the number of unfinished parents.       *)
Undone(t) == {p \in Parents(t) : state[p] # "done"}

CountdownSound ==
    \A t \in Tasks : state[t] = "pending" => Cardinality(Undone(t)) <= remaining[t]

(* Between its read and its write the failure sweeper's child can only be  *)
(* pending, or blocked by an earlier write.                                *)
BlockerSound ==
    blocker # NoOne =>
        /\ state[blocker.parent] = "failed"
        /\ blocker.child \in Children[blocker.parent]
        /\ state[blocker.child] \in {"pending", "blocked_by_failure"}

(* claim_epoch counts claims and requeue_count counts the claims taken     *)
(* away again.                                                             *)
ClaimsCounted ==
    \A t \in Tasks :
        /\ state[t] \in {"none", "pending", "blocked_by_failure"} =>
             claimEpoch[t] = 0 /\ requeues[t] = 0
        /\ state[t] \in {"ready", "scheduled"} =>
             claimEpoch[t] = requeues[t] /\ requeues[t] <= MaxRequeue
        /\ state[t] = "running" =>
             claimEpoch[t] = requeues[t] + 1 /\ requeues[t] <= MaxRequeue
        /\ claimEpoch[t] <= MaxRequeue + 1

(* No execution carries a claim epoch that has not been issued yet.        *)
EpochsIssued == \A e \in execs : e.claim <= claimEpoch[e.task]

Core ==
    /\ IndexesAgree
    /\ DependencyOrder
    /\ CountdownSound
    /\ BlockerSound
    /\ ClaimsCounted
    /\ EpochsIssued
    /\ ClaimEpochUnique
    /\ FenceStored

IInv == TypeOK /\ Core

(* Nothing moves a task out of a terminal state, not even the failure      *)
(* sweeper's blind write after a stale read.                               *)
TerminalStable ==
    [][\A t \in Tasks : state[t] \in TerminalStates => state'[t] = state[t]]_vars

(* The worker key and the owner index of a reservation come and go         *)
(* together, across crashes, expiries, claims and the three awaits of a    *)
(* release: only the unfinished release of another term takes one without  *)
(* the other.  Under one term a task is so never reserved on two workers.  *)
ReservationIntact ==
    [][\A w \in Workers, t \in Tasks :
         Paired(w, t) /\ (wres'[w] = wres[w] <=> ores'[t] # ores[t]) =>
           \E s \in Schedulers \ {ores[t].epoch} :
             sched[s].pc = "relDelete" /\ (sched[s].drop = t \/ sched[s].worker = w)]_vars

(* A ready task ends, or the run ends first, unless it is stranded (it was *)
(* scheduled and the reservation its message needs no longer exists) or    *)
(* orphaned (it is running and no worker remembers the claim).             *)
Stranded(t) ==
    /\ state[t] = "scheduled"
    /\ ~\E w \in Workers, m \in messages : m.task = t /\ ReservationAccepts(w, m)

Orphaned(t) ==
    /\ state[t] = "running"
    /\ ~\E e \in execs : e.task = t /\ e.claim = claimEpoch[t]

ReadyTaskEnds ==
    \A t \in Tasks : state[t] = "ready" ~>
        \/ state[t] \in TerminalStates \/ ~runLive
        \/ Stranded(t) \/ Orphaned(t)

(* "Duplicate requeue attempt is idempotent": the claim a requeue takes    *)
(* away is the claim its scan found stale, not one made since.             *)
RequeuesObservedClaim ==
    [][\A r \in Recoverers :
         Requeue(r) => claimEpoch[sweep[r].task] = sweep[r].claim]_vars
=============================================================================
