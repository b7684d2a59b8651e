----------------------------- MODULE WorkerFleet -----------------------------
(***************************************************************************)
(* Worker processes of one shard: WorkerService (start, fatal failure,     *)
(* drain, stop), the renewal of the group's lease of the shard, the owners *)
(* map and its orphan monitor, and the delivery of the messages of one     *)
(* task to the worker it is reserved for by WorkerConsumer.                *)
(*                                                                         *)
(* Time is left to expiry actions: a lease, a reservation or a drain may   *)
(* run out at any moment.  Heartbeats, and what the scheduler knows of the *)
(* workers, are the subject of WorkerRegistry; the scripts that claim,     *)
(* complete and requeue are TaskLifecycle's, here for one task.            *)
(***************************************************************************)
EXTENDS Naturals, FiniteSets

CONSTANTS
    Workers,        \* worker ids; a restarted process keeps its id
    Groups,         \* worker groups
    Grouping,       \* configurations: the group of every worker
    MaxRequeue,     \* HeartbeatPolicy.max_requeue_count
    MaxFaults,      \* bound: stops, crashes, failures and late renewals
    NoOne

ASSUME ConstantsAssumption ==
    /\ NoOne \notin Groups \cup Workers
    /\ Grouping \subseteq [Workers -> Groups]
    /\ MaxFaults \in Nat /\ MaxRequeue \in Nat
    /\ Workers \cap {"unsent", "new", "acked"} = {}

\* One message per dispatch, one term of a leader per message at most.
Entries == 1..(MaxRequeue + 1)
Terms   == Entries

VARIABLES
    group,          \* configuration: the group of every worker
    phase,          \* where the worker process is in start() and stop()
    pulling,        \* WorkerConsumer reads its streams
    renewer,        \* the lease renewal task runs
    lease,          \* owner key of the shard, with a TTL
    owners,         \* entry of the shard in the owners map, without one
    monitor,        \* orphan monitor between EXISTS and HDEL
    task,           \* state of the task
    claim,          \* its claim_epoch, which also counts its requeues
    resv,           \* its reservation: worker key and owner index, with a TTL
    entry,          \* each message: unsent, new, in a worker's PEL, acked
    sent,           \* the scheduler_epoch it carries
    doing,          \* what each worker does with a message, between awaits
    faults          \* stops, crashes, failures and late renewals so far

procVars  == <<phase, pulling, renewer>>
shardVars == <<lease, owners, monitor>>
msgVars   == <<task, claim, resv, entry, sent, doing>>
vars == <<group, procVars, shardVars, msgVars, faults>>

Up(w) == phase[w] = "up"

Init ==
    /\ group \in Grouping
    /\ phase = [w \in Workers |-> "down"]
    /\ pulling = [w \in Workers |-> FALSE]
    /\ renewer = [w \in Workers |-> FALSE]
    /\ lease = NoOne /\ owners = NoOne /\ monitor = "idle"
    /\ task = "ready" /\ claim = 0 /\ resv = NoOne
    /\ entry = [i \in Entries |-> "unsent"] /\ sent = [i \in Entries |-> 1]
    /\ doing = [w \in Workers |-> NoOne] /\ faults = 0

---------------------------------------------------------------------------
(* WorkerService.start.                                                    *)

\* One of the bounded faults.
Fault == faults < MaxFaults /\ faults' = faults + 1

Go(w, p) == phase' = [phase EXCEPT ![w] = p]

\* The consumer groups are prepared.
Start(w) ==
    /\ phase[w] = "down" /\ Go(w, "claim")
    /\ UNCHANGED <<faults, group, pulling, renewer, shardVars, msgVars>>

\* claim_shard: SET NX, then HSET in a second call.
ClaimShard(w) ==
    /\ phase[w] = "claim" /\ lease = NoOne
    /\ lease' = group[w] /\ Go(w, "map")
    /\ UNCHANGED <<faults, group, pulling, renewer, owners, monitor, msgVars>>

MapShard(w) ==
    /\ phase[w] = "map"
    /\ owners' = group[w] /\ Go(w, "beat")
    /\ UNCHANGED <<faults, group, pulling, renewer, lease, monitor, msgVars>>

\* Mutant: the renewal extends the lease and leaves the map alone.
RenewScriptLeaseOnly(w) == lease = group[w] /\ UNCHANGED owners

\* _RENEW_SHARD_LUA; the new expiry of the lease is left to LeaseExpires.
RenewScript(w) == lease = group[w] /\ owners' = group[w]

\* SET NX fails: the lease is a sibling's or another group's.
FindLease(w) ==
    /\ phase[w] = "claim" /\ lease # NoOne /\ Go(w, "confirm")
    /\ UNCHANGED <<faults, group, pulling, renewer, shardVars, msgVars>>

\* renew_shard tells them apart; a lease that lapsed meanwhile ends start().
ConfirmLease(w) ==
    /\ phase[w] = "confirm"
    /\ \/ RenewScript(w) /\ Go(w, "beat")
       \/ lease # group[w] /\ Go(w, "down") /\ UNCHANGED owners
    /\ UNCHANGED <<faults, group, pulling, renewer, lease, monitor, msgVars>>

\* _reclaim_pending_messages, once per start: entries idle for a minute.
Reclaimed(w) ==
    \E S \in SUBSET {i \in Entries : entry[i] \in Workers \ {w}} :
        entry' = [i \in Entries |-> IF i \in S THEN w ELSE entry[i]]

\* The first heartbeat is accepted, the consumer and the renewer start.
Serve(w) ==
    /\ phase[w] = "beat" /\ Go(w, "up")
    /\ pulling' = [pulling EXCEPT ![w] = TRUE]
    /\ renewer' = [renewer EXCEPT ![w] = TRUE]
    /\ Reclaimed(w)
    /\ UNCHANGED <<faults, group, shardVars, task, claim, resv, sent, doing>>

\* start() raises: the first heartbeat was taken and its reply lost, or not.
\* Nothing unschedulable is published, since the heartbeat never started.
StartFails(w) ==
    /\ Fault
    /\ phase[w] = "beat" /\ Go(w, "down")
    /\ UNCHANGED <<group, pulling, renewer, shardVars, msgVars>>

---------------------------------------------------------------------------
(* Background tasks and the end of a process.                              *)

Renews(w) ==
    /\ renewer[w] /\ RenewScript(w)
    /\ UNCHANGED <<faults, group, procVars, lease, monitor, msgVars>>

\* Mutant: the failure is recorded and the consumer goes on pulling.
FatalKeepsPulling(w) ==
    (IF Up(w) THEN Go(w, "fatal") ELSE UNCHANGED phase) /\ UNCHANGED pulling

\* _record_fatal_failure; it does nothing to a worker that is not ready.
Fatal(w) ==
    /\ IF Up(w) THEN Go(w, "fatal") ELSE UNCHANGED phase
    /\ pulling' = [pulling EXCEPT ![w] = FALSE]

\* A heartbeat or a read of the consumer raises.
TaskFails(w) ==
    /\ Fault
    /\ Up(w) /\ Fatal(w)
    /\ UNCHANGED <<group, renewer, shardVars, msgVars>>

LeaseLost(w) ==
    /\ renewer[w] /\ lease # group[w]
    /\ renewer' = [renewer EXCEPT ![w] = FALSE]
    /\ Fatal(w)
    /\ UNCHANGED <<faults, group, shardVars, msgVars>>

\* _stop_after_fatal_failure; the process root then closes the service.
FatalCleanup(w) ==
    /\ phase[w] = "fatal" /\ Go(w, "drain")
    /\ renewer' = [renewer EXCEPT ![w] = FALSE]
    /\ UNCHANGED <<faults, group, pulling, shardVars, msgVars>>

\* _stop_locked: no more pulling, the unschedulable heartbeat, the drain.
Stop(w) ==
    /\ Fault
    /\ Up(w) /\ Go(w, "drain")
    /\ pulling' = [pulling EXCEPT ![w] = FALSE]
    /\ UNCHANGED <<group, renewer, shardVars, msgVars>>

TasksEnd(w) ==
    /\ Go(w, "down")
    /\ pulling' = [pulling EXCEPT ![w] = FALSE]
    /\ renewer' = [renewer EXCEPT ![w] = FALSE]
    /\ doing' = [doing EXCEPT ![w] = NoOne]
    /\ UNCHANGED <<group, shardVars, task, claim, resv, entry, sent>>

\* Inflight work ended, or the deadline passed, or the announcement raised:
\* an execution still running is cancelled and its message stays pending.
DrainEnds(w) == phase[w] = "drain" /\ TasksEnd(w) /\ UNCHANGED faults

Crash(w) == Fault /\ phase[w] # "down" /\ TasksEnd(w)

---------------------------------------------------------------------------
(* The control plane.                                                      *)

\* A lease that a living worker renews, or has just claimed or confirmed,
\* lapses only if that worker is paused.
Renewed ==
    \E w \in Workers :
        group[w] = lease /\ (renewer[w] \/ phase[w] \in {"map", "beat"})
LeaseExpires ==
    /\ lease # NoOne /\ lease' = NoOne
    /\ IF Renewed THEN Fault ELSE UNCHANGED faults
    /\ UNCHANGED <<group, procVars, owners, monitor, msgVars>>

\* _check_orphans: EXISTS, then HDEL.
OrphanSeen ==
    /\ monitor = "idle" /\ owners # NoOne /\ lease = NoOne
    /\ monitor' = "delete"
    /\ UNCHANGED <<faults, group, procVars, lease, owners, msgVars>>

OrphanRemoved ==
    /\ monitor = "delete" /\ monitor' = "idle" /\ owners' = NoOne
    /\ UNCHANGED <<faults, group, procVars, lease, msgVars>>

\* The scheduler, of the same or of a later term, reserves w, of which its
\* snapshot may be stale, and appends to a shard of the group.  Terms are
\* numbered as they dispatch: only whether two are the same counts.
Dispatch(w, s) ==
    LET i == claim + 1 IN
    /\ task = "ready" /\ resv = NoOne /\ owners = group[w]
    /\ s <= i /\ \A j \in Entries : entry[j] # "unsent" => s >= sent[j]
    /\ task' = "scheduled" /\ resv' = [worker |-> w, term |-> s]
    /\ entry' = [entry EXCEPT ![i] = "new"] /\ sent' = [sent EXCEPT ![i] = s]
    /\ UNCHANGED <<faults, group, procVars, shardVars, claim, doing>>

\* The two keys of a reservation have a time to live.
ReservationLapses ==
    /\ resv # NoOne /\ resv' = NoOne
    /\ UNCHANGED <<faults, group, procVars, shardVars, task, claim, entry, sent,
                   doing>>

\* Mutant: the requeue count is never compared with its limit.
ExhaustedNever(n) == FALSE

Exhausted(n) == n > MaxRequeue

\* A worker that executes the claim heartbeats it.
Heartbeating == \E w \in Workers : /\ doing[w] # NoOne /\ doing[w].at = "run"
                                   /\ doing[w].claim = claim

\* The recovery sweep: a claim that looks dead is, unless its worker is paused.
Requeue ==
    /\ task = "running"
    /\ IF Heartbeating THEN Fault ELSE UNCHANGED faults
    /\ task' = IF Exhausted(claim) THEN "ended" ELSE "ready"
    /\ UNCHANGED <<group, procVars, shardVars, claim, resv, entry, sent, doing>>

---------------------------------------------------------------------------
(* WorkerConsumer.  The worker handles one message at a time: it offers    *)
(* one to its owner, runs the task of one or is about to acknowledge one.  *)

Doing(a, i, n, w) == [at |-> a, entry |-> i, claim |-> n, to |-> w]

Reads(v) == pulling[v] /\ Up(v) /\ doing[v] = NoOne

\* XREADGROUP ">": every consumer of the shard's stream is in one group.
ReadNew(v, i) ==
    /\ Reads(v) /\ entry[i] = "new" /\ entry' = [entry EXCEPT ![i] = v]
    /\ UNCHANGED <<faults, group, procVars, shardVars, task, claim, resv, sent,
                   doing>>

\* task_claim_start.lua on an entry of its own PEL, which the loop reads again
\* and again: the state is checked first, then the reservation and its epoch,
\* and both keys of the reservation are deleted.  A refusal changes nothing.
Claims(v, i) ==
    /\ Reads(v) /\ entry[i] = v /\ task = "scheduled"
    /\ resv = [worker |-> v, term |-> sent[i]]
    /\ task' = "running" /\ claim' = claim + 1 /\ resv' = NoOne
    /\ doing' = [doing EXCEPT ![v] = Doing("run", i, claim + 1, NoOne)]
    /\ UNCHANGED <<faults, group, procVars, shardVars, entry, sent>>

\* The claim was refused and the owner index, read after it, names another.
Offers(v, i) ==
    /\ Reads(v) /\ entry[i] = v /\ task = "scheduled"
    /\ resv # NoOne /\ resv.worker # v
    /\ doing' = [doing EXCEPT ![v] = Doing("offer", i, 0, resv.worker)]
    /\ UNCHANGED <<faults, group, procVars, shardVars, task, claim, resv, entry,
                   sent>>

\* Mutant: the entry is claimed for the worker that has it.
HandsOverToItself(v) ==
    /\ doing[v] # NoOne /\ doing[v].at = "offer"
    /\ entry' = [entry EXCEPT ![doing[v].entry] = IF @ \in Workers THEN v ELSE @]
    /\ doing' = [doing EXCEPT ![v] = NoOne]
    /\ UNCHANGED <<faults, group, procVars, shardVars, task, claim, resv, sent>>

\* _handoff_reserved_task_message: XCLAIM of whatever is still pending.
HandsOver(v) ==
    /\ doing[v] # NoOne /\ doing[v].at = "offer"
    /\ entry' = [entry EXCEPT ![doing[v].entry] =
                                 IF @ \in Workers THEN doing[v].to ELSE @]
    /\ doing' = [doing EXCEPT ![v] = NoOne]
    /\ UNCHANGED <<faults, group, procVars, shardVars, task, claim, resv, sent>>

Owns(v) ==
    /\ doing[v] # NoOne /\ doing[v].at = "run"
    /\ task = "running" /\ doing[v].claim = claim

\* The fenced completion, also while draining.
Completes(v) ==
    /\ Owns(v) /\ task' = "ended"
    /\ doing' = [doing EXCEPT ![v].at = "ack"]
    /\ UNCHANGED <<faults, group, procVars, shardVars, claim, resv, entry, sent>>

\* The completion or a heartbeat is refused, or the heartbeat raises: the
\* message stays pending.
LosesClaim(v) ==
    /\ doing[v] # NoOne /\ doing[v].at = "run"
    /\ IF Owns(v) THEN Fault ELSE UNCHANGED faults
    /\ doing' = [doing EXCEPT ![v] = NoOne]
    /\ UNCHANGED <<group, procVars, shardVars, task, claim, resv, entry, sent>>

Acks(v) ==
    /\ doing[v] # NoOne /\ doing[v].at = "ack"
    /\ entry' = [entry EXCEPT ![doing[v].entry] = "acked"]
    /\ doing' = [doing EXCEPT ![v] = NoOne]
    /\ UNCHANGED <<faults, group, procVars, shardVars, task, claim, resv, sent>>

\* classify_terminal_duplicate_delivery, before any claim.
AcksDuplicate(v, i) ==
    /\ Reads(v) /\ entry[i] = v /\ task = "ended"
    /\ entry' = [entry EXCEPT ![i] = "acked"]
    /\ UNCHANGED <<faults, group, procVars, shardVars, task, claim, resv, sent,
                   doing>>

---------------------------------------------------------------------------
ProcessNext(w) ==
    \/ Start(w) \/ ClaimShard(w) \/ MapShard(w) \/ FindLease(w)
    \/ ConfirmLease(w) \/ Serve(w) \/ StartFails(w)
    \/ Renews(w) \/ LeaseLost(w) \/ TaskFails(w) \/ FatalCleanup(w)
    \/ Stop(w) \/ DrainEnds(w) \/ Crash(w)

ConsumerNext(w) ==
    \/ \E i \in Entries : \/ ReadNew(w, i) \/ Claims(w, i) \/ Offers(w, i)
                          \/ AcksDuplicate(w, i)
    \/ HandsOver(w) \/ Completes(w) \/ Acks(w)

Next ==
    \/ \E w \in Workers : ProcessNext(w) \/ ConsumerNext(w) \/ LosesClaim(w)
    \/ LeaseExpires \/ OrphanSeen \/ OrphanRemoved
    \/ \E w \in Workers, s \in Terms : Dispatch(w, s)
    \/ ReservationLapses \/ Requeue

Spec == Init /\ [][Next]_vars

(* A supervisor restarts a worker that is down; started tasks go on; a     *)
(* lease that nobody renews runs out; recovery sweeps find a claim nobody  *)
(* heartbeats.  Nothing is assumed of the faults, the monitor, the         *)
(* dispatch or the end of a reservation.                                   *)
Fairness ==
    /\ \A w \in Workers :
         /\ WF_vars(Start(w)) /\ WF_vars(ClaimShard(w)) /\ WF_vars(MapShard(w))
         /\ WF_vars(FindLease(w)) /\ WF_vars(ConfirmLease(w)) /\ WF_vars(Serve(w))
         /\ WF_vars(Renews(w)) /\ WF_vars(LeaseLost(w))
         /\ WF_vars(FatalCleanup(w)) /\ WF_vars(DrainEnds(w))
         /\ WF_vars(ConsumerNext(w)) /\ WF_vars(LosesClaim(w) /\ ~Owns(w))
    /\ WF_vars(~Renewed /\ LeaseExpires) /\ WF_vars(~Heartbeating /\ Requeue)

FairSpec == Spec /\ Fairness

---------------------------------------------------------------------------
(* Types of the worker processes, of the shard and of the messages; the    *)
(* task is claimed once more than it may be requeued, at most.             *)
TypeOK ==
    /\ group \in [Workers -> Groups]
    /\ phase \in [Workers -> {"down", "claim", "map", "confirm", "beat", "up", "fatal", "drain"}]
    /\ pulling \in [Workers -> BOOLEAN] /\ renewer \in [Workers -> BOOLEAN]
    /\ lease \in Groups \cup {NoOne} /\ owners \in Groups \cup {NoOne}
    /\ monitor \in {"idle", "delete"}
    /\ task \in {"ready", "scheduled", "running", "ended"}
    /\ claim \in 0..(MaxRequeue + 1)
    /\ resv \in [worker : Workers, term : Terms] \cup {NoOne}
    /\ entry \in [Entries -> Workers \cup {"unsent", "new", "acked"}]
    /\ sent \in [Entries -> Terms]
    /\ doing \in [Workers -> {NoOne} \cup
                     [at : {"offer", "run", "ack"}, entry : Entries,
                      claim : 0..(MaxRequeue + 1), to : Workers \cup {NoOne}]]
    /\ faults \in 0..MaxFaults

(* A worker whose group has lost the lease of the shard reads messages of  *)
(* it only while its renewal task is there to find out: no failure of      *)
(* another task, cleanup, drain or restart leaves it pulling unfenced.     *)
ServingIsFenced == \A w \in Workers : pulling[w] => renewer[w] /\ Up(w)

(* The owners map, which places the tasks, gets a live owner back after a  *)
(* claim that died between its two calls and after an orphan check that    *)
(* deleted the entry of a lease claimed meanwhile.                         *)
OwnerIsMapped ==
    \A w \in Workers :
        (lease = group[w] /\ renewer[w])
        ~> (owners = group[w] \/ lease # group[w] \/ ~renewer[w])

(* The task of a message is claimed by the worker it is reserved for, and  *)
(* then completed or taken back by recovery, when the shard has one group: *)
(* whichever worker reads the message first, whoever stops, drains or      *)
(* crashes with it in the PEL, and whatever messages of earlier dispatches *)
(* are still pending.  A reservation that lapses first strands the task.   *)
MessageReachesOwner ==
    (task = "scheduled" /\ \A v, w \in Workers : group[v] = group[w])
    ~> (task \in {"ready", "ended"} \/ (task = "scheduled" /\ resv = NoOne))
==============================================================================
