-------------------------- MODULE LeaderElection --------------------------
(***************************************************************************)
(* hfa_control/leader.py with the watchdog of hfa_control/service.py that  *)
(* starts and stops the scheduler and the recovery loop.                   *)
(*                                                                         *)
(* Every Redis call of LeaderElection._try_acquire and close is a step of  *)
(* its own: the key may lapse, and other instances may act, between any    *)
(* two of them.  An instance keeps its instance_id across restarts         *)
(* (CP_INSTANCE_ID) and loses everything else.                             *)
(***************************************************************************)
EXTENDS Integers

CONSTANTS
    Instances,      \* control-plane instance ids
    MaxLapses,      \* bound: times the TTL of a live holder runs out
    MaxFaults,      \* bound: crashes, closes, failed calls
    NoOne           \* the leader key is absent

ASSUME BoundsAssumption  == MaxLapses \in Nat /\ MaxFaults \in Nat
ASSUME NoHolderAssumption == NoOne \notin Instances

VARIABLES
    key,            \* the leader key: instance id of its holder
    fence,          \* the INCR counter cp_fence
    pc,             \* next Redis call of each instance's election task
    isLeader,       \* LeaderElection._is_leader
    token,          \* LeaderElection._fencing_token
    wpc,            \* the watchdog: idle, or inside an await
    wtoken,         \* the token the watchdog passes to scheduler.start
    started,        \* ControlPlaneService._sched_started
    recovering,     \* ControlPlaneService._recovery_started
    epoch,          \* Scheduler._active_epoch (0: not running)
    lastEpoch,      \* scheduler_epoch of the last committed dispatch
    lapses, faults  \* used up so far

electionVars == <<pc, isLeader, token>>
watchVars    == <<wpc, wtoken, started, recovering, epoch>>
vars         == <<key, fence, electionVars, watchVars, lastEpoch, lapses, faults>>

LoopSteps  == {"set", "incr", "get", "expire"}
CloseSteps == {"closeGet", "closeDel"}

Init ==
    /\ key        = NoOne
    /\ fence      = 0
    /\ pc         = [i \in Instances |-> "set"]
    /\ isLeader   = [i \in Instances |-> FALSE]
    /\ token      = [i \in Instances |-> 0]
    /\ wpc        = [i \in Instances |-> "idle"]
    /\ wtoken     = [i \in Instances |-> 0]
    /\ started    = [i \in Instances |-> FALSE]
    /\ recovering = [i \in Instances |-> FALSE]
    /\ epoch      = [i \in Instances |-> 0]
    /\ lastEpoch  = 0
    /\ lapses     = 0
    /\ faults     = 0

Fault == faults < MaxFaults /\ faults' = faults + 1

----------------------------------------------------------------------------
(* LeaderElection._try_acquire.                                            *)

SetWithoutNx(i) ==                                          \* mutant
    /\ pc[i] = "set"
    /\ key' = i
    /\ pc'  = [pc EXCEPT ![i] = IF isLeader[i] THEN "set" ELSE "incr"]
    /\ UNCHANGED <<fence, isLeader, token, watchVars, lastEpoch, lapses, faults>>

(* SET NX.  An instance that still believes it leads keeps its old token.  *)
SetNx(i) ==
    /\ pc[i] = "set"
    /\ IF key = NoOne
         THEN /\ key' = i
              /\ pc'  = [pc EXCEPT ![i] = IF isLeader[i] THEN "set" ELSE "incr"]
         ELSE /\ pc'  = [pc EXCEPT ![i] = "get"]
              /\ UNCHANGED key
    /\ UNCHANGED <<fence, isLeader, token, watchVars, lastEpoch, lapses, faults>>

IncrCopies(i) ==                                            \* mutant
    /\ pc[i] = "incr"
    /\ fence'    = IF fence = 0 THEN 1 ELSE fence
    /\ token'    = [token EXCEPT ![i] = fence']
    /\ isLeader' = [isLeader EXCEPT ![i] = TRUE]
    /\ pc'       = [pc EXCEPT ![i] = "set"]
    /\ UNCHANGED <<key, watchVars, lastEpoch, lapses, faults>>

Incr(i) ==
    /\ pc[i] = "incr"
    /\ fence'    = fence + 1
    /\ token'    = [token EXCEPT ![i] = fence + 1]
    /\ isLeader' = [isLeader EXCEPT ![i] = TRUE]
    /\ pc'       = [pc EXCEPT ![i] = "set"]
    /\ UNCHANGED <<key, watchVars, lastEpoch, lapses, faults>>

(* GET: held by this instance, by another one, or gone meanwhile.          *)
Get(i) ==
    /\ pc[i] = "get"
    /\ IF key = i
         THEN /\ pc' = [pc EXCEPT ![i] = "expire"]
              /\ UNCHANGED isLeader
         ELSE /\ pc' = [pc EXCEPT ![i] = "set"]
              /\ isLeader' = [isLeader EXCEPT ![i] = FALSE]
    /\ UNCHANGED <<key, fence, token, watchVars, lastEpoch, lapses, faults>>

ExpireKeepsBelief(i) ==                                     \* mutant
    /\ pc[i] = "expire"
    /\ pc' = [pc EXCEPT ![i] = "set"]
    /\ UNCHANGED <<key, fence, isLeader, token, watchVars, lastEpoch, lapses,
                   faults>>

(* EXPIRE renews whatever key is there; its answer is not looked at.       *)
Expire(i) ==
    /\ pc[i] = "expire"
    /\ isLeader' = [isLeader EXCEPT ![i] = TRUE]
    /\ pc'       = [pc EXCEPT ![i] = "set"]
    /\ UNCHANGED <<key, fence, token, watchVars, lastEpoch, lapses, faults>>

(* A call raises, with or without its effect in Redis; _loop logs it and   *)
(* tries again from the start.                                             *)
CallFails(i) ==
    /\ Fault
    /\ pc[i] \in LoopSteps
    /\ \/ UNCHANGED <<key, fence>>
       \/ pc[i] = "set" /\ key = NoOne /\ key' = i /\ UNCHANGED fence
       \/ pc[i] = "incr" /\ fence' = fence + 1 /\ UNCHANGED key
    /\ pc' = [pc EXCEPT ![i] = "set"]
    /\ UNCHANGED <<isLeader, token, watchVars, lastEpoch, lapses>>

----------------------------------------------------------------------------
(* ControlPlaneService._reconcile_leadership_once.                         *)

(* A leader starts what is not running.  Token 0 raises ValueError.        *)
Reconcile(i) ==
    /\ wpc[i] = "idle" /\ pc[i] \in LoopSteps
    /\ isLeader[i] /\ token[i] > 0
    /\ ~started[i] \/ ~recovering[i]
    /\ wtoken' = [wtoken EXCEPT ![i] = token[i]]
    /\ wpc' = [wpc EXCEPT ![i] = IF started[i] THEN "recovery" ELSE "scheduler"]
    /\ UNCHANGED <<key, fence, electionVars, started, recovering, epoch,
                   lastEpoch, lapses, faults>>

(* scheduler.start(scheduler_epoch=token), then recovery.start.            *)
StartScheduler(i) ==
    /\ wpc[i] = "scheduler"
    /\ epoch'   = [epoch EXCEPT ![i] = wtoken[i]]
    /\ started' = [started EXCEPT ![i] = TRUE]
    /\ wpc'     = [wpc EXCEPT ![i] = IF recovering[i] THEN "idle" ELSE "both"]
    /\ UNCHANGED <<key, fence, electionVars, wtoken, recovering, lastEpoch,
                   lapses, faults>>

StartRecovery(i) ==
    /\ wpc[i] \in {"recovery", "both"}
    /\ recovering' = [recovering EXCEPT ![i] = TRUE]
    /\ wpc'        = [wpc EXCEPT ![i] = "idle"]
    /\ UNCHANGED <<key, fence, electionVars, wtoken, started, epoch, lastEpoch,
                   lapses, faults>>

(* Either start raises; a scheduler started in the same pass is stopped.   *)
StartFails(i) ==
    /\ Fault
    /\ wpc[i] # "idle"
    /\ IF wpc[i] = "both"
         THEN /\ epoch'   = [epoch EXCEPT ![i] = 0]
              /\ started' = [started EXCEPT ![i] = FALSE]
         ELSE UNCHANGED <<epoch, started>>
    /\ wpc' = [wpc EXCEPT ![i] = "idle"]
    /\ UNCHANGED <<key, fence, electionVars, wtoken, recovering, lastEpoch,
                   lapses>>

(* A standby stops the scheduler and the recovery loop.                    *)
StandDown(i) ==
    /\ wpc[i] = "idle" /\ pc[i] \in LoopSteps
    /\ ~isLeader[i]
    /\ started[i] \/ recovering[i]
    /\ epoch'      = [epoch EXCEPT ![i] = 0]
    /\ started'    = [started EXCEPT ![i] = FALSE]
    /\ recovering' = [recovering EXCEPT ![i] = FALSE]
    /\ UNCHANGED <<key, fence, electionVars, wpc, wtoken, lastEpoch, lapses,
                   faults>>

(* One of the stops raises: its flag stays set for the next pass.          *)
StandDownFails(i) ==
    /\ Fault
    /\ wpc[i] = "idle" /\ pc[i] \in LoopSteps
    /\ ~isLeader[i]
    /\ \/ started[i] /\ recovering' = [recovering EXCEPT ![i] = FALSE]
                     /\ UNCHANGED started
       \/ recovering[i] /\ started' = [started EXCEPT ![i] = FALSE]
                        /\ UNCHANGED recovering
    /\ epoch' = [epoch EXCEPT ![i] = 0]
    /\ UNCHANGED <<key, fence, electionVars, wpc, wtoken, lastEpoch, lapses>>

(* Scheduler._run_cycles gives up after scheduler_loop_max_failures;       *)
(* _sched_started is not told.                                             *)
SchedulerGivesUp(i) ==
    /\ Fault
    /\ epoch[i] # 0
    /\ epoch' = [epoch EXCEPT ![i] = 0]
    /\ UNCHANGED <<key, fence, electionVars, wpc, wtoken, started, recovering,
                   lastEpoch, lapses>>

(* A dispatch of the running scheduler: task_dispatch_commit.lua stores    *)
(* the scheduler_epoch it is given and compares it with nothing.           *)
Dispatch(i) ==
    /\ epoch[i] # 0
    /\ lastEpoch' = epoch[i]
    /\ UNCHANGED <<key, fence, electionVars, watchVars, lapses, faults>>

----------------------------------------------------------------------------
(* The key's TTL, and the end and the restart of an instance.              *)

KeyExpires ==
    /\ key # NoOne
    /\ IF pc[key] = "down"
         THEN UNCHANGED lapses
         ELSE lapses < MaxLapses /\ lapses' = lapses + 1
    /\ key' = NoOne
    /\ UNCHANGED <<fence, electionVars, watchVars, lastEpoch, faults>>

GoneUnset(i) ==                                             \* mutant
    /\ pc'       = [pc EXCEPT ![i] = "down"]
    /\ isLeader' = [isLeader EXCEPT ![i] = FALSE]
    /\ token'    = [token EXCEPT ![i] = -1]

(* The process is gone: its locals start again from their defaults.        *)
Gone(i) ==
    /\ pc'       = [pc EXCEPT ![i] = "down"]
    /\ isLeader' = [isLeader EXCEPT ![i] = FALSE]
    /\ token'    = [token EXCEPT ![i] = 0]

WatchGone(i) ==
    /\ wpc'        = [wpc EXCEPT ![i] = "idle"]
    /\ wtoken'     = [wtoken EXCEPT ![i] = 0]
    /\ started'    = [started EXCEPT ![i] = FALSE]
    /\ recovering' = [recovering EXCEPT ![i] = FALSE]
    /\ epoch'      = [epoch EXCEPT ![i] = 0]

Crash(i) ==
    /\ Fault
    /\ pc[i] # "down"
    /\ Gone(i) /\ WatchGone(i)
    /\ UNCHANGED <<key, fence, lastEpoch, lapses>>

Restart(i) ==
    /\ pc[i] = "down"
    /\ pc' = [pc EXCEPT ![i] = "set"]
    /\ UNCHANGED <<key, fence, isLeader, token, watchVars, lastEpoch, lapses,
                   faults>>

(* ControlPlaneService.close: watchdog, scheduler and recovery stop, then  *)
(* LeaderElection.close cancels the election task wherever it is.          *)
Close(i) ==
    /\ Fault
    /\ pc[i] \in LoopSteps
    /\ WatchGone(i)
    /\ IF isLeader[i]
         THEN pc' = [pc EXCEPT ![i] = "closeGet"] /\ UNCHANGED <<isLeader, token>>
         ELSE Gone(i)
    /\ UNCHANGED <<key, fence, lastEpoch, lapses>>

CloseGet(i) ==
    /\ pc[i] = "closeGet"
    /\ IF key = i
         THEN pc' = [pc EXCEPT ![i] = "closeDel"] /\ UNCHANGED <<isLeader, token>>
         ELSE Gone(i)
    /\ UNCHANGED <<key, fence, watchVars, lastEpoch, lapses, faults>>

(* DEL removes whatever key is there now.                                  *)
CloseDel(i) ==
    /\ pc[i] = "closeDel"
    /\ key' = NoOne
    /\ Gone(i)
    /\ UNCHANGED <<fence, watchVars, lastEpoch, lapses, faults>>

ElectionNext(i) == SetNx(i) \/ Incr(i) \/ Get(i) \/ Expire(i) \/ CallFails(i)

WatchdogNext(i) ==
    \/ Reconcile(i) \/ StartScheduler(i) \/ StartRecovery(i) \/ StartFails(i)
    \/ StandDown(i) \/ StandDownFails(i)
    \/ SchedulerGivesUp(i) \/ Dispatch(i)

LifecycleNext(i) ==
    Crash(i) \/ Restart(i) \/ Close(i) \/ CloseGet(i) \/ CloseDel(i)

Next ==
    \/ KeyExpires
    \/ \E i \in Instances : ElectionNext(i) \/ WatchdogNext(i) \/ LifecycleNext(i)

Spec == Init /\ [][Next]_vars

(* The election and watchdog tasks of a live process keep looping, a key   *)
(* nobody renews lapses, and a dead process is restarted.                  *)
Fairness ==
    /\ WF_vars(KeyExpires /\ pc[key] = "down")
    /\ \A i \in Instances :
         /\ WF_vars(SetNx(i) \/ Incr(i) \/ Get(i) \/ Expire(i))
         /\ WF_vars(Reconcile(i) \/ StartScheduler(i) \/ StartRecovery(i)
                      \/ StandDown(i))
         /\ WF_vars(Restart(i) \/ CloseGet(i) \/ CloseDel(i))

FairSpec == Spec /\ Fairness

----------------------------------------------------------------------------
TypeOK ==
    /\ key \in Instances \cup {NoOne}
    /\ fence \in Nat
    /\ pc \in [Instances -> LoopSteps \cup CloseSteps \cup {"down"}]
    /\ isLeader \in [Instances -> BOOLEAN]
    /\ token \in [Instances -> Nat]
    /\ wpc \in [Instances -> {"idle", "scheduler", "recovery", "both"}]
    /\ wtoken \in [Instances -> Nat]
    /\ started \in [Instances -> BOOLEAN]
    /\ recovering \in [Instances -> BOOLEAN]
    /\ epoch \in [Instances -> Nat]
    /\ lastEpoch \in Nat /\ lapses \in Nat /\ faults \in Nat

(* Scheduler epochs are exclusive: no two instances ever run schedulers    *)
(* under one epoch, or run one while another holds or is about to start    *)
(* with the same token, through overlapping leaderships, lost replies and  *)
(* restarts.  Reservations and completions are told apart by this epoch.   *)
Epochs(i) == {epoch[i], token[i], wtoken[i]} \ {0}

EpochExclusive ==
    \A i, j \in Instances : i # j => Epochs(i) \cap Epochs(j) = {}

(* The inductive part: every epoch in use was issued by the INCR counter.  *)
EpochsIssued == \A i \in Instances : \A n \in Epochs(i) : n <= fence

(* As long as a live holder renews in time there is one leader, whatever   *)
(* crashes, closes or loses its replies.                                   *)
SingleLeader ==
    lapses = 0 => \A i, j \in Instances : isLeader[i] /\ isLeader[j] => i = j

(* The inductive part: until a lapse, whoever believes that it leads, or   *)
(* is past a call that found the key its own, holds the key.               *)
BelieverHolds ==
    /\ lapses = 0 => \A i \in Instances :
         isLeader[i] \/ pc[i] \in {"incr", "expire", "closeDel"} => key = i
    /\ \A i \in Instances : pc[i] = "down" => ~isLeader[i]

IInv == TypeOK /\ EpochExclusive /\ EpochsIssued /\ BelieverHolds

(* Once the faults stop, some instance holds the key and knows that it     *)
(* leads, for good.                                                        *)
LeaderElected == <>[](\E i \in Instances : key = i /\ isLeader[i])

(* The fencing token "prevents stale leaders from writing": a dispatch     *)
(* under an older epoch is not accepted after one under a newer epoch.     *)
StaleLeaderFenced == [][lastEpoch' >= lastEpoch]_vars

(* "Scheduler loop re-elects leader": once the faults stop, some scheduler *)
(* keeps running.                                                          *)
SchedulerComesBack == <>[](\E i \in Instances : epoch[i] # 0)
=============================================================================
