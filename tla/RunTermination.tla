-------------------------- MODULE RunTermination --------------------------
(***************************************************************************)
(* The end of a run of several tasks: RunTerminationCoordinator and the    *)
(* RunFinalizing consumers over run_terminate_from_tasks.lua, composed     *)
(* with the task scripts of TaskLifecycle (the run termination binding on, *)
(* the canonical bindings off).                                            *)
(*                                                                         *)
(* A worker whose completion was committed finalizes the run in a second   *)
(* call and acknowledges its delivery in a third; a delivery of a task     *)
(* that has ended finalizes the run again.  The index of terminal event    *)
(* evidence has been prepared, as the script demands.  The entries are     *)
(* TaskRequested: the RunRequested ones of the older run dispatcher, whose *)
(* consumer ends a run without looking at tasks, are not modelled.         *)
(***************************************************************************)
EXTENDS TaskLifecycle

ASSUME NoResultAssumption ==
    \A ts \in SUBSET Tasks, st \in {"done", "failed"} :
        NoOne # [status |-> st, tasks |-> ts]

VARIABLES
    runState,       \* the run state key: "live" stands for its nonterminal values
    result,         \* run result: the tasks it counted and its status
    events,         \* RunCompleted and RunFailed entries of the results stream
    finalizing,     \* workers between a terminal task and the acknowledgement
    acked           \* deliveries that left the pending entries list

finVars == <<runState, result, events, finalizing, acked>>
allVars == <<vars, finVars>>

FinInit ==
    /\ Init
    /\ runState = "live" /\ result = NoOne /\ events = 0
    /\ finalizing = {} /\ acked = {}

---------------------------------------------------------------------------
(* Who calls run_terminate_from_tasks.lua.                                 *)

\* Mutant: the delivery is acknowledged before the run is finalized.
CompletesThenAcks(e) ==
    /\ CompleteDone(e) \/ CompleteFailed(e)
    /\ acked' = acked \cup {[task |-> e.task, epoch |-> e.epoch]}
    /\ UNCHANGED <<runState, result, events, finalizing>>

\* RunTerminationCoordinator.task_complete goes on after a commit.
Completes(e) ==
    /\ CompleteDone(e) \/ CompleteFailed(e)
    /\ finalizing' = finalizing \cup
         {[worker |-> e.worker, msg |-> [task |-> e.task, epoch |-> e.epoch],
           how |-> "completed", step |-> "finalize"]}
    /\ UNCHANGED <<runState, result, events, acked>>

\* Mutant: a delivery of a task that has ended is only dropped.
RedeliveredDropped(w, m) ==
    m \in messages /\ state[m.task] \in TerminalStates /\ UNCHANGED allVars

\* classify_terminal_duplicate_delivery finds the task ended.  An entry comes
\* back until it is acknowledged; a task dispatched again has several.
Redelivered(w, m) ==
    /\ m \in messages
    /\ state[m.task] \in TerminalStates
    /\ m \notin acked \/ requeues[m.task] > 0
    /\ finalizing' = finalizing \cup
         {[worker |-> w, msg |-> m, how |-> "redelivered", step |-> "finalize"]}
    /\ UNCHANGED <<vars, runState, result, events, acked>>

---------------------------------------------------------------------------
(* run_terminate_from_tasks.lua.                                           *)

Members  == {t \in Tasks : state[t] # "none"}
AllEnded == \A t \in Members : state[t] \in TerminalStates
Outcome  == IF \A t \in Members : state[t] = "done" THEN "done" ELSE "failed"
Summary  == [status |-> Outcome, tasks |-> Members]

\* The result and the event evidence are those of this aggregate; the event
\* id digests the outcome and the number of tasks.
AlreadyFinalized ==
    /\ runState = Outcome /\ result # NoOne
    /\ result.status = Outcome
    /\ Cardinality(result.tasks) = Cardinality(Members)

\* Mutant: the stored terminal state is not looked at.
MustFinalizeAgain == AllEnded

\* The one branch that writes.
MustFinalize == AllEnded /\ runState = "live"
FinalizeScript ==
    IF MustFinalize
      THEN /\ runLive' = FALSE /\ runState' = Outcome
           /\ result' = Summary /\ events' = events + 1
      ELSE UNCHANGED <<runLive, runState, result, events>>

AckAllowed == ~AllEnded \/ runState = "live" \/ AlreadyFinalized

\* The script and what its caller does with ack_allowed.
Finalize(f) ==
    /\ f \in finalizing /\ f.step = "finalize"
    /\ FinalizeScript
    /\ finalizing' = (finalizing \ {f}) \cup
                        (IF AckAllowed THEN {[f EXCEPT !.step = "ack"]} ELSE {})
    /\ UNCHANGED <<taskVars, metaVars, resVars, messages, execs, sched, sweep,
                   blocker, acked>>

\* The call raises, after the script ran or before: the delivery stays pending.
FinalizeRaises(f) ==
    /\ f \in finalizing /\ f.step = "finalize"
    /\ FinalizeScript \/ UNCHANGED <<runLive, runState, result, events>>
    /\ finalizing' = finalizing \ {f}
    /\ UNCHANGED <<taskVars, metaVars, resVars, messages, execs, sched, sweep,
                   blocker, acked>>

\* After a completion a plain XACK; after a redelivery worker_recovery_ack.lua,
\* which demands a canonical proof of the RUN that this profile does not have.
Acknowledge(f) ==
    /\ f \in finalizing /\ f.step = "ack"
    /\ acked' = IF f.how = "completed" THEN acked \cup {f.msg} ELSE acked
    /\ finalizing' = finalizing \ {f}
    /\ UNCHANGED <<vars, runState, result, events>>

\* A worker dies between its calls.
FinalizerCrash(w) ==
    /\ \E f \in finalizing : f.worker = w
    /\ finalizing' = {f \in finalizing : f.worker # w}
    /\ execs' = {e \in execs : e.worker # w}
    /\ UNCHANGED <<runLive, taskVars, metaVars, resVars, messages, sched,
                   sweep, blocker, runState, result, events, acked>>

---------------------------------------------------------------------------
TaskStep ==
    \/ \E t \in Tasks : Admit(t)
    \/ \E s \in Schedulers : SchedulerNext(s)
    \/ \E w \in Workers : ReservationExpires(w)
    \/ \E t \in Tasks : OwnerIndexExpires(t)
    \/ \E w \in Workers, m \in messages : Claim(w, m)
    \/ \E w \in Workers : WorkerCrash(w)
    \/ \E e \in execs : Heartbeat(e) \/ OwnershipLost(e) \/ CompletionRejected(e)
    \/ RecoveryNext

FinNext ==
    \/ TaskStep /\ UNCHANGED finVars
    \/ \E e \in execs : Completes(e)
    \/ \E w \in Workers, m \in messages : Redelivered(w, m)
    \/ \E f \in finalizing : Finalize(f) \/ FinalizeRaises(f) \/ Acknowledge(f)
    \/ \E w \in Workers : FinalizerCrash(w)

FinSpec == FinInit /\ [][FinNext]_allVars

(* Beyond the fairness of TaskLifecycle: a pending entry is delivered      *)
(* again, and a worker does not crash at the same call for ever.           *)
FinFairness ==
    /\ Fairness
    /\ \A t \in Tasks, s \in Schedulers :
         LET m == [task |-> t, epoch |-> s] IN
         WF_allVars(\E w \in Workers : m \notin acked /\ Redelivered(w, m))
    /\ \A w \in Workers : SF_allVars(\E f \in finalizing : f.worker = w /\ Finalize(f))
    /\ \A w \in Workers : SF_allVars(\E f \in finalizing : f.worker = w /\ Acknowledge(f))

FinFairSpec == FinSpec /\ FinFairness

---------------------------------------------------------------------------
(* What was published about the run stays true of it: every task that the  *)
(* result counted has ended for good, the status is that of their states,  *)
(* and no other status was or will be published, however late completions, *)
(* requeues, sweeps and second finalizations arrive.                       *)
PublishedOutcomeHolds ==
    /\ result # NoOne =>
         /\ \A t \in result.tasks : state[t] \in TerminalStates
         /\ result.status = "done" <=> \A t \in result.tasks : state[t] = "done"
         /\ runState = result.status
    /\ events = IF result = NoOne THEN 0 ELSE 1

(* A delivery is given up only when nothing depends on it any more: while  *)
(* every task has ended and the run has not, some pending entry, or some   *)
(* worker in the middle of its calls, will still finalize the run.  Tasks  *)
(* blocked by a failure have no entry of their own and are left out.       *)
FinalizerRemains ==
    (runLive /\ Members # {} /\ AllEnded
       /\ \A t \in Members : state[t] # "blocked_by_failure")
    => \/ \E f \in finalizing : f.step = "finalize"
       \/ \E m \in messages : state[m.task] \in TerminalStates /\ m \notin acked

(* Once every task has ended, by completion or because its retries ran     *)
(* out, the run ends too, across lost replies and worker crashes between   *)
(* the completion, the finalization and the acknowledgement.               *)
EndedTasksEndRun ==
    (Members # {} /\ AllEnded /\ \A t \in Members : state[t] # "blocked_by_failure")
    ~> (~runLive \/ ~AllEnded)

(* "Terminal duplicate delivery repairs missing RUN finalization before    *)
(* ACK": a delivery of a task whose run has been finalized is              *)
(* acknowledged in the end.                                                *)
RepairedDeliveryIsAcked ==
    \A t \in Tasks, s \in Schedulers :
        LET m == [task |-> t, epoch |-> s] IN
        (m \in messages /\ result # NoOne) ~> m \in acked
===========================================================================
