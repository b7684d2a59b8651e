------------------------ MODULE TaskLifecycle_proofs ------------------------
(* Proofs about TaskLifecycle and RunTermination, for every set of tasks,  *)
(* workers, terms and sweeps, every task graph and every retry limit.      *)
EXTENDS RunTermination, FiniteSetTheorems, TLAPS

(* The scheduler's locals at each point of reserve_and_dispatch.           *)
LEMMA LocalsShape ==
  ASSUME NEW x \in SchedulerLocals
  PROVE  /\ x.pc = "reserve" => x \in Locals({"reserve"}, Tasks, {NoOne}, {NoOne})
         /\ x.pc \in {"dispatch", "relTask"} =>
              x \in Locals({"dispatch", "relTask"}, Tasks, Workers, {NoOne})
         /\ x.pc = "relOwner" =>
              x \in Locals({"relOwner"}, Tasks, Workers, Tasks)
         /\ x.pc = "relDelete" =>
              x \in Locals({"relDelete"}, Tasks, Workers, Tasks \cup {NoOne})
BY DEF SchedulerLocals, Locals, Idle

(* The type invariant is inductive: every script and every caller step     *)
(* writes values of the fields' types.                                     *)
LEMMA TypeNext == TypeOK /\ [Next]_vars => TypeOK'
<1> SUFFICES ASSUME TypeOK, [Next]_vars PROVE TypeOK'
  OBVIOUS
<1> USE ChildrenAssumption, MaxRequeueAssumption, TasksAssumption
<1> Idle \in SchedulerLocals
  BY DEF SchedulerLocals
<1>1. ASSUME NEW t \in Tasks, Admit(t) PROVE TypeOK'
  <2>1. Cardinality(Parents(t)) \in Nat
    <3>1. Parents(t) \subseteq Tasks
      BY DEF Parents
    <3> QED BY <3>1, FS_Subset, FS_CardinalityType
  <2> QED BY <1>1, <2>1 DEF Admit, TypeOK, TaskStates, metaVars, resVars
<1>2. ASSUME NEW s \in Schedulers, NEW t \in Tasks, Peek(s, t) PROVE TypeOK'
  <2>1. [Idle EXCEPT !.pc = "reserve", !.task = t] \in SchedulerLocals
    BY DEF Idle, SchedulerLocals, Locals
  <2> QED BY <1>2, <2>1 DEF Peek, TypeOK, taskVars, metaVars, resVars
<1>3. ASSUME NEW s \in Schedulers, NEW w \in Workers, Reserve(s, w)
      PROVE TypeOK'
  <2> DEFINE x == sched[s]
  <2>1. x \in Locals({"reserve"}, Tasks, {NoOne}, {NoOne})
    BY <1>3, LocalsShape DEF Reserve, TypeOK
  <2>2. [x EXCEPT !.pc = "dispatch", !.worker = w] \in SchedulerLocals
    BY <2>1 DEF SchedulerLocals, Locals
  <2>3. sched' \in [Schedulers -> SchedulerLocals]
    BY <1>3, <2>2 DEF Reserve, TypeOK
  <2>4. [task |-> x.task, epoch |-> s] \in WorkerReservations
    BY <2>1 DEF Locals, WorkerReservations
  <2>5. [worker |-> w, epoch |-> s] \in OwnerReservations
    BY DEF OwnerReservations
  <2>6. /\ wres' \in [Workers -> WorkerReservations \cup {NoOne}]
        /\ ores' \in [Tasks -> OwnerReservations \cup {NoOne}]
    BY <1>3, <2>4, <2>5 DEF Reserve, TypeOK, resVars
  <2> QED BY <1>3, <2>3, <2>6 DEF Reserve, TypeOK, taskVars, metaVars
<1>4. ASSUME NEW s \in Schedulers, DispatchCommit(s) PROVE TypeOK'
  <2>1. sched[s].task \in Tasks
    BY <1>4, LocalsShape DEF DispatchCommit, TypeOK, Locals
  <2> QED BY <1>4, <2>1 DEF DispatchCommit, Dispatched, TypeOK, metaVars,
             resVars, Messages, TaskStates
<1>5. ASSUME NEW s \in Schedulers, DispatchRejected(s) \/ DispatchRaises(s)
      PROVE TypeOK'
  <2>1. /\ sched[s].task \in Tasks
        /\ [sched[s] EXCEPT !.pc = "relTask"] \in SchedulerLocals
    BY <1>5, LocalsShape DEF DispatchRejected, DispatchRaises, TypeOK, Locals,
       SchedulerLocals
  <2>2. sched' \in [Schedulers -> SchedulerLocals]
    BY <1>5, <2>1 DEF DispatchRejected, DispatchRaises, TypeOK
  <2>3. CASE Dispatched(s)
    BY <2>1, <2>2, <2>3 DEF Dispatched, TypeOK, metaVars, resVars, Messages,
       TaskStates
  <2>4. CASE UNCHANGED <<runLive, taskVars, metaVars, resVars, messages, execs,
                         sweep, blocker>>
    BY <2>2, <2>4 DEF TypeOK, taskVars, metaVars, resVars
  <2> QED BY <1>5, <2>3, <2>4 DEF DispatchRejected, DispatchRaises
<1>6. ASSUME NEW s \in Schedulers, ReleaseReadTask(s) PROVE TypeOK'
  <2>1. sched[s] \in Locals({"dispatch", "relTask"}, Tasks, Workers, {NoOne})
    BY <1>6, LocalsShape DEF ReleaseReadTask, TypeOK
  <2>2. wres[sched[s].worker] \in WorkerReservations \cup {NoOne}
    BY <2>1 DEF TypeOK, Locals
  <2>3. sched'[s] \in SchedulerLocals
    <3>1. CASE wres[sched[s].worker] = NoOne
      BY <1>6, <2>1, <3>1 DEF ReleaseReadTask, Locals, SchedulerLocals, TypeOK
    <3>2. CASE wres[sched[s].worker] # NoOne
      <4>1. wres[sched[s].worker].task \in Tasks
        BY <2>2, <3>2 DEF WorkerReservations
      <4> QED BY <1>6, <2>1, <3>2, <4>1 DEF ReleaseReadTask, Locals, SchedulerLocals, TypeOK
    <3> QED BY <3>1, <3>2
  <2>4. sched' \in [Schedulers -> SchedulerLocals]
    BY <1>6, <2>3 DEF ReleaseReadTask, TypeOK
  <2> QED BY <1>6, <2>4 DEF ReleaseReadTask, TypeOK, taskVars, metaVars, resVars
<1>7. ASSUME NEW s \in Schedulers, ReleaseReadOwner(s) PROVE TypeOK'
  <2>1. sched[s] \in Locals({"relOwner"}, Tasks, Workers, Tasks)
    BY <1>7, LocalsShape DEF ReleaseReadOwner, TypeOK
  <2>2. sched'[s] \in SchedulerLocals
    BY <1>7, <2>1 DEF ReleaseReadOwner, Locals, SchedulerLocals, TypeOK
  <2>3. sched' \in [Schedulers -> SchedulerLocals]
    BY <1>7, <2>2 DEF ReleaseReadOwner, TypeOK
  <2> QED BY <1>7, <2>3 DEF ReleaseReadOwner, TypeOK, taskVars, metaVars, resVars
<1>8. ASSUME NEW s \in Schedulers, ReleaseDelete(s) PROVE TypeOK'
  BY <1>8 DEF ReleaseDelete, TypeOK, taskVars, metaVars
<1>9. ASSUME NEW s \in Schedulers, SchedulerCrash(s) PROVE TypeOK'
  BY <1>9 DEF SchedulerCrash, TypeOK, taskVars, metaVars, resVars
<1>10. ASSUME NEW w \in Workers, ReservationExpires(w) PROVE TypeOK'
  BY <1>10 DEF ReservationExpires, TypeOK, taskVars, metaVars
<1>11. ASSUME NEW t \in Tasks, OwnerIndexExpires(t) PROVE TypeOK'
  BY <1>11 DEF OwnerIndexExpires, TypeOK, taskVars, metaVars
<1>12. ASSUME NEW w \in Workers, NEW m \in messages, Claim(w, m) PROVE TypeOK'
  <2>1. m.task \in Tasks /\ m.epoch \in Schedulers
    BY DEF TypeOK, Messages
  <2>2. [task |-> m.task, worker |-> w, epoch |-> m.epoch,
         claim |-> claimEpoch[m.task] + 1] \in Executions
    BY <2>1 DEF TypeOK, Executions
  <2> QED BY <1>12, <2>1, <2>2 DEF Claim, NextClaimEpoch, TypeOK, TaskStates
<1>13. ASSUME NEW w \in Workers, WorkerCrash(w) PROVE TypeOK'
  BY <1>13 DEF WorkerCrash, TypeOK, taskVars, metaVars, resVars
<1>14. ASSUME NEW e \in execs,
              Heartbeat(e) \/ OwnershipLost(e) \/ CompletionRejected(e)
       PROVE TypeOK'
  <2>1. e.task \in Tasks
    BY DEF TypeOK, Executions
  <2> QED BY <1>14, <2>1 DEF Heartbeat, OwnershipLost, CompletionRejected,
             TypeOK, taskVars, metaVars, resVars
<1>15. ASSUME NEW e \in execs, CompleteDone(e) PROVE TypeOK'
  <2>1. \A c \in Tasks : Decremented(remaining[c]) \in Nat
    BY DEF Decremented, TypeOK
  <2>2. Unlocked(e.task) \subseteq Tasks
    <3>1. e.task \in Tasks
      BY DEF TypeOK, Executions
    <3> QED BY <3>1 DEF Unlocked, CountedDown
  <2> QED BY <1>15, <2>1, <2>2 DEF CompleteDone, TypeOK, TaskStates,
             TerminalStates, metaVars, resVars
<1>16. ASSUME NEW e \in execs, CompleteFailed(e) PROVE TypeOK'
  BY <1>16 DEF CompleteFailed, TypeOK, TaskStates, TerminalStates, metaVars, resVars
<1>17. ASSUME NEW t \in Tasks, GoesStale(t) PROVE TypeOK'
  BY <1>17 DEF GoesStale, TypeOK, taskVars, resVars
<1>18. ASSUME NEW r \in Recoverers, NEW t \in Tasks, FindStale(r, t) PROVE TypeOK'
  BY <1>18 DEF FindStale, TypeOK, Sweeps, taskVars, metaVars, resVars
<1>19. ASSUME NEW r \in Recoverers, Requeue(r) PROVE TypeOK'
  <2>1. sweep[r].task \in Tasks
    BY <1>19 DEF Requeue, TypeOK, Sweeps
  <2> QED BY <1>19, <2>1 DEF Requeue, TypeOK, TaskStates, TerminalStates, resVars
<1>20. ASSUME NEW r \in Recoverers, RequeueRejected(r) \/ SweepDies(r) PROVE TypeOK'
  BY <1>20 DEF RequeueRejected, SweepDies, TypeOK, taskVars, metaVars, resVars
<1>21. ASSUME NEW p \in Tasks, NEW c \in Tasks, SweepReadChild(p, c) PROVE TypeOK'
  BY <1>21 DEF SweepReadChild, TypeOK, Blockers, taskVars, metaVars, resVars
<1>22. CASE SweepBlockChild
  BY <1>22 DEF SweepBlockChild, TypeOK, Blockers, TaskStates, TerminalStates, metaVars, resVars
<1>23. CASE SweepAppendFailed
  BY <1>23 DEF SweepAppendFailed, TypeOK, taskVars, metaVars, resVars
<1>24. CASE RunTerminates
  BY <1>24 DEF RunTerminates, TypeOK, taskVars, metaVars, resVars
<1>25. CASE UNCHANGED vars
  BY <1>25 DEF vars, TypeOK, taskVars, metaVars, resVars
<1> QED
  BY <1>1, <1>2, <1>3, <1>4, <1>5, <1>6, <1>7, <1>8, <1>9, <1>10, <1>11,
     <1>12, <1>13, <1>14, <1>15, <1>16, <1>17, <1>18, <1>19, <1>20, <1>21,
     <1>22, <1>23, <1>24, <1>25
  DEF Next, SchedulerNext, WorkerNext, RecoveryNext

----------------------------------------------------------------------------
(* Most steps move a caller or a reservation and leave the tasks alone; at *)
(* most they drop an execution or end a failure sweep.                     *)
QuietStep ==
    /\ UNCHANGED <<state, remaining, readyQ, schedZ, runZ, owner, schedEpoch,
                   claimEpoch, requeues>>
    /\ execs' \subseteq execs
    /\ blocker' \in {blocker, NoOne}

LEMMA QuietPreserves == Core /\ QuietStep => Core'
<1> SUFFICES ASSUME Core, QuietStep PROVE Core'
  OBVIOUS
<1>1. IndexesAgree' /\ DependencyOrder' /\ CountdownSound' /\ ClaimsCounted'
        /\ FenceStored'
  BY DEF Core, QuietStep, IndexesAgree, DependencyOrder, CountdownSound,
     Undone, ClaimsCounted, FenceStored
<1>2. BlockerSound'
  BY DEF Core, QuietStep, BlockerSound
<1>3. EpochsIssued' /\ ClaimEpochUnique'
  BY DEF Core, QuietStep, EpochsIssued, ClaimEpochUnique
<1> QED BY <1>1, <1>2, <1>3 DEF Core

(* The countdown set of a task only depends on which parents are done.     *)
LEMMA UndoneFinite ==
  ASSUME NEW t \in Tasks
  PROVE  /\ IsFiniteSet(Parents(t)) /\ IsFiniteSet(Undone(t))
         /\ Cardinality(Undone(t)) \in Nat
         /\ Cardinality(Undone(t)) <= Cardinality(Parents(t))
<1>1. IsFiniteSet(Parents(t))
  BY TasksAssumption, FS_Subset DEF Parents
<1>2. Undone(t) \subseteq Parents(t)
  BY DEF Undone
<1>3. IsFiniteSet(Undone(t)) /\ Cardinality(Undone(t)) <= Cardinality(Parents(t))
  BY <1>1, <1>2, FS_Subset
<1> QED BY <1>1, <1>3, FS_CardinalityType

(* A step that finishes no task and un-finishes none keeps every count.    *)
LEMMA UndoneKept ==
  ASSUME NEW t \in Tasks,
         \A p \in Tasks : state'[p] = "done" <=> state[p] = "done"
  PROVE  Undone(t)' = Undone(t)
BY DEF Undone, Parents

(* Admission: a root enters the ready queue, any other task waits with one *)
(* count per parent.                                                       *)
LEMMA AdmitPreserves ==
  ASSUME IInv, NEW t \in Tasks, Admit(t) PROVE Core'
<1> USE DEF IInv
<1>1. /\ state[t] = "none" /\ state' = [state EXCEPT ![t] = state'[t]]
      /\ state'[t] = IF Parents(t) = {} THEN "ready" ELSE "pending"
      /\ state \in [Tasks -> TaskStates]
  BY DEF Admit, TypeOK
<1>2. \A p \in Tasks : state'[p] = "done" <=> state[p] = "done"
  BY <1>1
<1>3. IndexesAgree'
  BY <1>1 DEF Core, IndexesAgree, Admit
<1>4. DependencyOrder'
  BY <1>1, <1>2 DEF Core, DependencyOrder, StartedStates, Parents
<1>5. CountdownSound'
  <2> SUFFICES ASSUME NEW c \in Tasks, state'[c] = "pending"
               PROVE Cardinality(Undone(c)') <= remaining'[c]
    BY DEF CountdownSound
  <2>1. Undone(c)' = Undone(c)
    BY <1>2, UndoneKept
  <2>2. CASE c = t
    BY <2>1, <2>2, UndoneFinite DEF Admit, TypeOK
  <2>3. CASE c # t
    BY <1>1, <2>1, <2>3 DEF Core, CountdownSound, Admit, TypeOK
  <2> QED BY <2>2, <2>3
<1>6. BlockerSound'
  BY <1>1 DEF Core, BlockerSound, Admit, TypeOK, Blockers
<1>7. ClaimsCounted'
  BY <1>1, MaxRequeueAssumption DEF Core, ClaimsCounted, Admit, metaVars, TypeOK
<1>8. EpochsIssued' /\ ClaimEpochUnique' /\ FenceStored'
  BY <1>1 DEF Core, EpochsIssued, ClaimEpochUnique, FenceStored, Admit, metaVars
<1> QED BY <1>3, <1>4, <1>5, <1>6, <1>7, <1>8 DEF Core

(* Dispatch moves a ready task to scheduled.                               *)
LEMMA DispatchPreserves ==
  ASSUME IInv, NEW s \in Schedulers, sched[s].pc = "dispatch", Dispatched(s)
  PROVE  Core'
<1> USE DEF IInv
<1> DEFINE t == sched[s].task
<1>1. /\ t \in Tasks /\ state[t] = "ready"
      /\ state' = [state EXCEPT ![t] = "scheduled"]
      /\ state \in [Tasks -> TaskStates]
  BY LocalsShape DEF Dispatched, TypeOK, Locals
<1> HIDE DEF t
<1>2. \A p \in Tasks : state'[p] = "done" <=> state[p] = "done"
  BY <1>1
<1>3. IndexesAgree'
  BY <1>1 DEF Core, IndexesAgree, Dispatched, t
<1>4. DependencyOrder'
  BY <1>1, <1>2 DEF Core, DependencyOrder, StartedStates, Parents
<1>5. CountdownSound'
  BY <1>1, <1>2, UndoneKept DEF Core, CountdownSound, Dispatched
<1>6. BlockerSound'
  BY <1>1 DEF Core, BlockerSound, Dispatched, TypeOK, Blockers
<1>7. ClaimsCounted'
  BY <1>1 DEF Core, ClaimsCounted, Dispatched
<1>8. EpochsIssued' /\ ClaimEpochUnique'
  BY DEF Core, EpochsIssued, ClaimEpochUnique, Dispatched
<1>9. FenceStored'
  BY <1>1 DEF Core, FenceStored, Dispatched, TypeOK, t
<1> QED BY <1>3, <1>4, <1>5, <1>6, <1>7, <1>8, <1>9 DEF Core

(* A claim issues the next claim epoch; no execution holds it yet.         *)
LEMMA ClaimPreserves ==
  ASSUME IInv, NEW w \in Workers, NEW m \in messages, Claim(w, m) PROVE Core'
<1> USE DEF IInv
<1> DEFINE t == m.task
           e0 == [task |-> t, worker |-> w, epoch |-> m.epoch,
                  claim |-> claimEpoch[t] + 1]
<1>1. /\ t \in Tasks /\ m.epoch \in Schedulers /\ state[t] = "scheduled"
      /\ state' = [state EXCEPT ![t] = "running"]
      /\ state \in [Tasks -> TaskStates]
      /\ claimEpoch \in [Tasks -> Nat]
      /\ claimEpoch' = [claimEpoch EXCEPT ![t] = @ + 1]
      /\ execs' = execs \cup {e0}
  BY DEF Claim, NextClaimEpoch, TypeOK, Messages
<1>2. /\ owner' = [owner EXCEPT ![t] = w]
      /\ schedEpoch' = [schedEpoch EXCEPT ![t] = m.epoch]
      /\ owner \in [Tasks -> Workers \cup {NoOne}]
      /\ schedEpoch \in [Tasks -> Schedulers \cup {NoOne}]
      /\ requeues' = requeues
      /\ requeues \in [Tasks -> Nat]
  BY DEF Claim, TypeOK
<1>3. IndexesAgree'
  BY <1>1 DEF Core, IndexesAgree, Claim
<1> HIDE DEF t
<1>4. \A p \in Tasks : state'[p] = "done" <=> state[p] = "done"
  BY <1>1
<1>5. DependencyOrder'
  BY <1>1, <1>4 DEF Core, DependencyOrder, StartedStates, Parents
<1>6. CountdownSound'
  BY <1>1, <1>4, UndoneKept DEF Core, CountdownSound, Claim
<1>7. BlockerSound'
  BY <1>1 DEF Core, BlockerSound, Claim, TypeOK, Blockers
<1>8. ClaimsCounted'
  BY <1>1, <1>2, MaxRequeueAssumption DEF Core, ClaimsCounted
<1>9. EpochsIssued'
  <2>1. \A e \in execs : e.task \in Tasks /\ e.claim \in Nat
    BY DEF TypeOK, Executions
  <2> QED BY <1>1, <2>1 DEF Core, EpochsIssued
<1>10. ClaimEpochUnique'
  <2>1. \A e \in execs : e.task = t => e.claim # e0.claim
    <3>1. \A e \in execs : e.claim \in Nat
      BY DEF TypeOK, Executions
    <3> QED BY <1>1, <3>1 DEF Core, EpochsIssued
  <2>2. e0.task = t
    OBVIOUS
  <2> HIDE DEF e0
  <2> QED BY <1>1, <2>1, <2>2 DEF Core, ClaimEpochUnique
<1>11. FenceStored'
  BY <1>1, <1>2 DEF Core, FenceStored
<1> QED BY <1>3, <1>5, <1>6, <1>7, <1>8, <1>9, <1>10, <1>11 DEF Core

(* A completion takes one parent off every pending child's countdown, and  *)
(* a child it unlocks has no unfinished parent left.                       *)
LEMMA CompleteDonePreserves ==
  ASSUME IInv, NEW e \in execs, CompleteDone(e) PROVE Core'
<1> USE DEF IInv
<1> DEFINE t == e.task
<1>1. /\ t \in Tasks /\ state[t] = "running"
      /\ state \in [Tasks -> TaskStates] /\ remaining \in [Tasks -> Nat]
      /\ execs' \subseteq execs
      /\ UNCHANGED <<owner, schedEpoch, claimEpoch, requeues, blocker, schedZ>>
  BY DEF CompleteDone, CompletionAccepts, TypeOK, Executions, metaVars
<1>2. /\ state' = [c \in Tasks |-> IF c = t THEN "done"
                                   ELSE IF c \in Unlocked(t) THEN "ready"
                                   ELSE state[c]]
      /\ remaining' = [c \in Tasks |-> IF c \in CountedDown(t)
                                         THEN Decremented(remaining[c])
                                         ELSE remaining[c]]
      /\ readyQ' = readyQ \cup Unlocked(t)
      /\ runZ' = runZ \ {t}
  BY DEF CompleteDone
<1> HIDE DEF t
<1>3. /\ CountedDown(t) \subseteq Tasks
      /\ \A c \in CountedDown(t) : c # t /\ state[c] = "pending" /\ t \in Undone(c)
      /\ Unlocked(t) \subseteq CountedDown(t)
      /\ \A c \in Unlocked(t) : Decremented(remaining[c]) = 0
  BY <1>1, ChildrenAssumption DEF CountedDown, Unlocked, Undone, Parents
<1>4. \A p \in Tasks : state'[p] = "done" <=> (p = t \/ state[p] = "done")
  BY <1>1, <1>2, <1>3
<1>5. \A c \in Tasks : Undone(c)' = Undone(c) \ {t}
  BY <1>1, <1>4 DEF Undone, Parents
<1>6. \A c \in CountedDown(t) :
        Cardinality(Undone(c)') <= Decremented(remaining[c])
  <2> SUFFICES ASSUME NEW c \in CountedDown(t)
               PROVE Cardinality(Undone(c)') <= Decremented(remaining[c])
    OBVIOUS
  <2>1. c \in Tasks /\ IsFiniteSet(Undone(c)) /\ Cardinality(Undone(c)) \in Nat
    BY <1>3, UndoneFinite
  <2>2. Cardinality(Undone(c) \ {t}) = Cardinality(Undone(c)) - 1
    BY <1>3, <2>1, FS_RemoveElement
  <2>3. Cardinality(Undone(c)) <= remaining[c]
    BY <1>3, <2>1 DEF Core, CountdownSound
  <2>4. Cardinality(Undone(c) \ {t}) \in Nat
    BY <2>1, FS_RemoveElement, FS_CardinalityType
  <2>5. Cardinality(Undone(c)') = Cardinality(Undone(c) \ {t})
    BY <1>5, <2>1
  <2> QED BY <1>1, <2>1, <2>2, <2>3, <2>4, <2>5 DEF Decremented
<1>7. \A c \in Unlocked(t) : \A p \in Parents(c) : state'[p] = "done"
  <2> SUFFICES ASSUME NEW c \in Unlocked(t), NEW p \in Parents(c)
               PROVE state'[p] = "done"
    OBVIOUS
  <2>1. c \in Tasks /\ IsFiniteSet(Undone(c) \ {t})
    BY <1>3, UndoneFinite, FS_RemoveElement
  <2>2. Cardinality(Undone(c) \ {t}) \in Nat
    BY <2>1, FS_CardinalityType
  <2>3. Cardinality(Undone(c) \ {t}) <= 0
    BY <1>3, <1>5, <1>6, <2>1
  <2>4. Undone(c) \ {t} = {}
    BY <2>1, <2>2, <2>3, FS_EmptySet
  <2> QED BY <1>1, <1>4, <2>1, <2>4 DEF Undone, Parents
<1>8. IndexesAgree'
  BY <1>1, <1>2, <1>3 DEF Core, IndexesAgree
<1>9. DependencyOrder'
  <2> SUFFICES ASSUME NEW c \in Tasks, state'[c] \in StartedStates,
                      NEW p \in Parents(c)
               PROVE state'[p] = "done"
    BY DEF DependencyOrder
  <2>1. CASE c \in Unlocked(t)
    BY <1>7, <2>1
  <2>2. CASE c \notin Unlocked(t)
    <3>1. state[c] \in StartedStates
      BY <1>1, <1>2, <2>2 DEF StartedStates
    <3>2. state[p] = "done" /\ p \in Tasks
      BY <3>1 DEF Core, DependencyOrder, Parents
    <3> QED BY <1>4, <3>2
  <2> QED BY <2>1, <2>2
<1>10. CountdownSound'
  <2> SUFFICES ASSUME NEW c \in Tasks, state'[c] = "pending"
               PROVE Cardinality(Undone(c)') <= remaining'[c]
    BY DEF CountdownSound
  <2>1. CASE c \in CountedDown(t)
    BY <1>2, <1>6, <2>1
  <2>2. CASE c \notin CountedDown(t)
    <3>1. state[c] = "pending"
      BY <1>2, <1>3, <2>2
    <3>2. t \notin Undone(c)
      BY <2>2, <3>1 DEF CountedDown, Undone, Parents
    <3>3. Undone(c)' = Undone(c)
      BY <1>5, <3>2
    <3> QED BY <1>2, <2>2, <3>1, <3>3 DEF Core, CountdownSound
  <2> QED BY <2>1, <2>2
<1>11. BlockerSound'
  <2> SUFFICES ASSUME blocker # NoOne
               PROVE /\ state'[blocker.parent] = "failed"
                     /\ state'[blocker.child] \in {"pending", "blocked_by_failure"}
    BY <1>1 DEF Core, BlockerSound
  <2> DEFINE p == blocker.parent
             c == blocker.child
  <2>1. /\ p \in Tasks /\ c \in Tasks /\ state[p] = "failed" /\ c \in Children[p]
        /\ state[c] \in {"pending", "blocked_by_failure"}
    BY DEF Core, BlockerSound, TypeOK, Blockers
  <2>2. c \notin Unlocked(t)
    <3>1. p \in Parents(c) /\ state'[p] # "done"
      BY <1>1, <1>4, <2>1 DEF Parents
    <3> QED BY <1>7, <3>1
  <2>3. p \notin Unlocked(t)
    BY <1>3, <2>1
  <2> QED BY <1>1, <1>2, <2>1, <2>2, <2>3
<1>12. ClaimsCounted'
  BY <1>1, <1>2, <1>3, MaxRequeueAssumption DEF Core, ClaimsCounted
<1>13. EpochsIssued' /\ ClaimEpochUnique'
  BY <1>1 DEF Core, EpochsIssued, ClaimEpochUnique
<1>14. FenceStored'
  BY <1>1, <1>2 DEF Core, FenceStored
<1> QED BY <1>8, <1>9, <1>10, <1>11, <1>12, <1>13, <1>14 DEF Core

(* A failed completion ends the task and touches nothing else.             *)
LEMMA CompleteFailedPreserves ==
  ASSUME IInv, NEW e \in execs, CompleteFailed(e) PROVE Core'
<1> USE DEF IInv
<1> DEFINE t == e.task
<1>1. /\ t \in Tasks /\ state[t] = "running"
      /\ state \in [Tasks -> TaskStates]
      /\ state' = [state EXCEPT ![t] = "failed"]
      /\ runZ' = runZ \ {t}
      /\ execs' \subseteq execs
      /\ UNCHANGED <<remaining, readyQ, schedZ, owner, schedEpoch, claimEpoch,
                     requeues, blocker>>
  BY DEF CompleteFailed, CompletionAccepts, TypeOK, Executions, metaVars
<1> HIDE DEF t
<1>2. \A p \in Tasks : state'[p] = "done" <=> state[p] = "done"
  BY <1>1
<1>3. IndexesAgree'
  BY <1>1 DEF Core, IndexesAgree
<1>4. DependencyOrder'
  BY <1>1, <1>2 DEF Core, DependencyOrder, StartedStates, Parents
<1>5. CountdownSound'
  BY <1>1, <1>2, UndoneKept DEF Core, CountdownSound
<1>6. BlockerSound'
  BY <1>1 DEF Core, BlockerSound, TypeOK, Blockers
<1>7. ClaimsCounted' /\ FenceStored'
  BY <1>1 DEF Core, ClaimsCounted, FenceStored
<1>8. EpochsIssued' /\ ClaimEpochUnique'
  BY <1>1 DEF Core, EpochsIssued, ClaimEpochUnique
<1> QED BY <1>3, <1>4, <1>5, <1>6, <1>7, <1>8 DEF Core

(* A requeue spends one retry; the claim epoch keeps its value, so the     *)
(* claim it took away can never be issued again.                           *)
LEMMA RequeuePreserves ==
  ASSUME IInv, NEW r \in Recoverers, Requeue(r) PROVE Core'
<1> USE DEF IInv
<1> DEFINE t == sweep[r].task
<1>1. /\ t \in Tasks /\ state[t] = "running"
      /\ state \in [Tasks -> TaskStates]
      /\ requeues \in [Tasks -> Nat] /\ claimEpoch \in [Tasks -> Nat]
      /\ requeues' = [requeues EXCEPT ![t] = requeues[t] + 1]
      /\ UNCHANGED <<remaining, schedZ, claimEpoch, execs, blocker>>
  BY DEF Requeue, RequeueAccepts, TypeOK, Sweeps
<1>2. /\ state' = [state EXCEPT ![t] = state'[t]]
      /\ runZ' = runZ \ {t}
      /\ \/ requeues[t] + 1 > MaxRequeue /\ state'[t] = "failed" /\ readyQ' = readyQ
         \/ requeues[t] + 1 <= MaxRequeue /\ state'[t] = "ready"
              /\ readyQ' = readyQ \cup {t}
  BY <1>1, MaxRequeueAssumption DEF Requeue, Exhausted
<1>3. /\ owner' = [owner EXCEPT ![t] = NoOne]
      /\ schedEpoch' = [schedEpoch EXCEPT ![t] = NoOne]
      /\ owner \in [Tasks -> Workers \cup {NoOne}]
      /\ schedEpoch \in [Tasks -> Schedulers \cup {NoOne}]
  BY DEF Requeue, TypeOK
<1> HIDE DEF t
<1>4. \A p \in Tasks : state'[p] = "done" <=> state[p] = "done"
  BY <1>1, <1>2
<1>5. IndexesAgree'
  BY <1>1, <1>2 DEF Core, IndexesAgree
<1>6. DependencyOrder'
  BY <1>1, <1>2, <1>4 DEF Core, DependencyOrder, StartedStates, Parents
<1>7. CountdownSound'
  BY <1>1, <1>2, <1>4, UndoneKept DEF Core, CountdownSound
<1>8. BlockerSound'
  BY <1>1, <1>2 DEF Core, BlockerSound, TypeOK, Blockers
<1>9. ClaimsCounted'
  BY <1>1, <1>2, MaxRequeueAssumption DEF Core, ClaimsCounted
<1>10. EpochsIssued' /\ ClaimEpochUnique'
  BY <1>1 DEF Core, EpochsIssued, ClaimEpochUnique
<1>11. FenceStored'
  BY <1>1, <1>2, <1>3 DEF Core, FenceStored
<1> QED BY <1>5, <1>6, <1>7, <1>8, <1>9, <1>10, <1>11 DEF Core

(* The failure sweeper reads a child of a failed parent: it is pending,    *)
(* because a ready task has no failed parent.                              *)
LEMMA SweepReadPreserves ==
  ASSUME IInv, NEW p \in Tasks, NEW c \in Tasks, SweepReadChild(p, c)
  PROVE  Core'
<1> USE DEF IInv
<1>1. /\ state[p] = "failed" /\ c \in Children[p]
      /\ state[c] \in {"pending", "ready"}
      /\ blocker' = [parent |-> p, child |-> c]
      /\ UNCHANGED <<state, remaining, readyQ, schedZ, runZ, owner, schedEpoch,
                     claimEpoch, requeues, execs>>
  BY DEF SweepReadChild, taskVars, metaVars
<1>2. state[c] = "pending"
  BY <1>1 DEF Core, DependencyOrder, StartedStates, Parents
<1>3. IndexesAgree' /\ DependencyOrder' /\ CountdownSound' /\ ClaimsCounted'
        /\ FenceStored'
  BY <1>1 DEF Core, IndexesAgree, DependencyOrder, CountdownSound,
     Undone, ClaimsCounted, FenceStored
<1>4. BlockerSound'
  BY <1>1, <1>2 DEF BlockerSound
<1>5. EpochsIssued' /\ ClaimEpochUnique'
  BY <1>1 DEF Core, EpochsIssued, ClaimEpochUnique
<1> QED BY <1>3, <1>4, <1>5 DEF Core

(* Its blind write can therefore only block a pending task, or write again *)
(* what an earlier sweep wrote.                                            *)
LEMMA SweepBlockPreserves ==
  ASSUME IInv, SweepBlockChild PROVE Core'
<1> USE DEF IInv
<1> DEFINE c == blocker.child
<1>1. /\ c \in Tasks /\ state[c] \in {"pending", "blocked_by_failure"}
      /\ state \in [Tasks -> TaskStates]
      /\ state' = [state EXCEPT ![c] = "blocked_by_failure"]
      /\ blocker' = NoOne
      /\ UNCHANGED <<remaining, readyQ, schedZ, runZ, owner, schedEpoch,
                     claimEpoch, requeues, execs>>
  BY DEF SweepBlockChild, Core, BlockerSound, TypeOK, Blockers, metaVars
<1> HIDE DEF c
<1>2. \A p \in Tasks : state'[p] = "done" <=> state[p] = "done"
  BY <1>1
<1>3. IndexesAgree'
  BY <1>1 DEF Core, IndexesAgree
<1>4. DependencyOrder'
  BY <1>1, <1>2 DEF Core, DependencyOrder, StartedStates, Parents
<1>5. CountdownSound'
  BY <1>1, <1>2, UndoneKept DEF Core, CountdownSound
<1>6. BlockerSound'
  BY <1>1 DEF BlockerSound
<1>7. ClaimsCounted' /\ FenceStored'
  BY <1>1 DEF Core, ClaimsCounted, FenceStored
<1>8. EpochsIssued' /\ ClaimEpochUnique'
  BY <1>1 DEF Core, EpochsIssued, ClaimEpochUnique
<1> QED BY <1>3, <1>4, <1>5, <1>6, <1>7, <1>8 DEF Core

(* An accepted heartbeat re-adds a task that is already in the running     *)
(* zset.                                                                   *)
LEMMA HeartbeatQuiet ==
  ASSUME IInv, NEW e \in execs, Heartbeat(e) PROVE QuietStep
<1>1. e.task \in runZ
  BY DEF IInv, Core, IndexesAgree, Heartbeat, HeartbeatAccepts, TypeOK, Executions
<1>2. runZ' = runZ
  BY <1>1 DEF Heartbeat
<1> QED BY <1>2 DEF Heartbeat, QuietStep

----------------------------------------------------------------------------
(* The invariant is inductive: one step per kind of action.                *)
LEMMA CoreNext == IInv /\ [Next]_vars => Core'
<1> SUFFICES ASSUME IInv, [Next]_vars PROVE Core'
  OBVIOUS
<1>q. ASSUME QuietStep PROVE Core'
  BY <1>q, QuietPreserves DEF IInv
<1> USE DEF QuietStep, taskVars, metaVars
<1>1. ASSUME NEW t \in Tasks, Admit(t) PROVE Core'
  BY <1>1, AdmitPreserves
<1>2. ASSUME NEW s \in Schedulers, DispatchCommit(s) PROVE Core'
  BY <1>2, DispatchPreserves DEF DispatchCommit
<1>2a. ASSUME NEW s \in Schedulers, DispatchRaises(s) PROVE Core'
  <2>1. CASE Dispatched(s)
    BY <1>2a, <2>1, DispatchPreserves DEF DispatchRaises
  <2>2. CASE ~Dispatched(s)
    <3>1. QuietStep
      BY <1>2a, <2>2 DEF DispatchRaises
    <3> QED BY <3>1, <1>q
  <2> QED BY <2>1, <2>2
<1>3. ASSUME NEW s \in Schedulers, NEW t \in Tasks, Peek(s, t) PROVE Core'
  <2>1. QuietStep
    BY <1>3 DEF Peek
  <2> QED BY <2>1, <1>q
<1>4. ASSUME NEW s \in Schedulers, NEW w \in Workers, Reserve(s, w) PROVE Core'
  <2>1. QuietStep
    BY <1>4 DEF Reserve
  <2> QED BY <2>1, <1>q
<1>5. ASSUME NEW s \in Schedulers,
             \/ DispatchRejected(s) \/ ReleaseReadTask(s) \/ ReleaseReadOwner(s)
             \/ ReleaseDelete(s) \/ SchedulerCrash(s)
      PROVE Core'
  <2>1. QuietStep
    BY <1>5 DEF DispatchRejected, ReleaseReadTask, ReleaseReadOwner,
       ReleaseDelete, SchedulerCrash
  <2> QED BY <2>1, <1>q
<1>6. ASSUME NEW w \in Workers, ReservationExpires(w) \/ WorkerCrash(w) PROVE Core'
  <2>1. QuietStep
    BY <1>6 DEF ReservationExpires, WorkerCrash
  <2> QED BY <2>1, <1>q
<1>7. ASSUME NEW t \in Tasks, OwnerIndexExpires(t) \/ GoesStale(t) PROVE Core'
  <2>1. QuietStep
    BY <1>7 DEF OwnerIndexExpires, GoesStale
  <2> QED BY <2>1, <1>q
<1>8. ASSUME NEW w \in Workers, NEW m \in messages, Claim(w, m) PROVE Core'
  BY <1>8, ClaimPreserves
<1>9. ASSUME NEW e \in execs, Heartbeat(e) PROVE Core'
  BY <1>9, <1>q, HeartbeatQuiet
<1>10. ASSUME NEW e \in execs, OwnershipLost(e) \/ CompletionRejected(e) PROVE Core'
  <2>1. QuietStep
    BY <1>10 DEF OwnershipLost, CompletionRejected
  <2> QED BY <2>1, <1>q
<1>11. ASSUME NEW e \in execs, CompleteDone(e) PROVE Core'
  BY <1>11, CompleteDonePreserves
<1>12. ASSUME NEW e \in execs, CompleteFailed(e) PROVE Core'
  BY <1>12, CompleteFailedPreserves
<1>13. ASSUME NEW r \in Recoverers, NEW t \in Tasks, FindStale(r, t) PROVE Core'
  <2>1. QuietStep
    BY <1>13 DEF FindStale
  <2> QED BY <2>1, <1>q
<1>14. ASSUME NEW r \in Recoverers, Requeue(r) PROVE Core'
  BY <1>14, RequeuePreserves
<1>15. ASSUME NEW r \in Recoverers, RequeueRejected(r) \/ SweepDies(r) PROVE Core'
  <2>1. QuietStep
    BY <1>15 DEF RequeueRejected, SweepDies
  <2> QED BY <2>1, <1>q
<1>16. ASSUME NEW p \in Tasks, NEW c \in Tasks, SweepReadChild(p, c) PROVE Core'
  BY <1>16, SweepReadPreserves
<1>17. CASE SweepBlockChild
  BY <1>17, SweepBlockPreserves
<1>18. CASE SweepAppendFailed \/ RunTerminates \/ UNCHANGED vars
  <2>1. QuietStep
    BY <1>18 DEF SweepAppendFailed, RunTerminates, vars
  <2> QED BY <2>1, <1>q
<1> QED
  BY <1>1, <1>2, <1>2a, <1>3, <1>4, <1>5, <1>6, <1>7, <1>8, <1>9, <1>10,
     <1>11, <1>12, <1>13, <1>14, <1>15, <1>16, <1>17, <1>18
  DEF Next, SchedulerNext, WorkerNext, RecoveryNext

LEMMA InitIInv == Init => IInv
<1> SUFFICES ASSUME Init PROVE IInv
  OBVIOUS
<1>1. TypeOK
  <2>1. Idle \in SchedulerLocals
    BY DEF SchedulerLocals
  <2> QED BY <2>1 DEF Init, TypeOK, TaskStates
<1>2. Core
  BY MaxRequeueAssumption DEF Init, Core, IndexesAgree, DependencyOrder,
     StartedStates, CountdownSound, BlockerSound, ClaimsCounted, EpochsIssued,
     ClaimEpochUnique, FenceStored
<1> QED BY <1>1, <1>2 DEF IInv

(* The inductive invariant holds in every reachable state.                 *)
THEOREM Invariance == Spec => []IInv
<1>1. IInv /\ [Next]_vars => IInv'
  BY TypeNext, CoreNext DEF IInv
<1> QED BY InitIInv, <1>1, PTL DEF Spec

(* The type invariant of the Redis keys and the callers' locals.           *)
THEOREM TypeCorrect == Spec => []TypeOK
<1>1. IInv => TypeOK
  BY DEF IInv
<1> QED BY Invariance, <1>1, PTL

(* The ready, scheduled and running zsets always hold exactly the tasks in *)
(* those states, through every script and every partial release.           *)
THEOREM IndexesCorrect == Spec => []IndexesAgree
<1>1. IInv => IndexesAgree
  BY DEF IInv, Core
<1> QED BY Invariance, <1>1, PTL

(* The countdown of task_complete.lua never releases a task before all of  *)
(* its parents are done, for every task graph.                             *)
THEOREM DependencyCorrect == Spec => []DependencyOrder
<1>1. IInv => DependencyOrder
  BY DEF IInv, Core
<1> QED BY Invariance, <1>1, PTL

(* A claim epoch is never shared by two executions in worker memory, for   *)
(* any number of racing sweeps, schedulers and redeliveries.               *)
THEOREM ClaimFencing == Spec => []ClaimEpochUnique
<1>1. IInv => ClaimEpochUnique
  BY DEF IInv, Core
<1> QED BY Invariance, <1>1, PTL

(* A task is claimed at most max_requeue_count + 1 times.                  *)
THEOREM ClaimBudgetHolds == Spec => []ClaimBudget
<1>1. IInv => ClaimBudget
  BY DEF IInv, Core, ClaimsCounted, ClaimBudget
<1> QED BY Invariance, <1>1, PTL

(* A running task always has all three of its fences stored.               *)
THEOREM FencesStored == Spec => []FenceStored
<1>1. IInv => FenceStored
  BY DEF IInv, Core
<1> QED BY Invariance, <1>1, PTL

----------------------------------------------------------------------------
(* What one step may do to a task, whichever process takes it: the edges   *)
(* of the task state machine.                                              *)
TaskMoves ==
    \A t \in Tasks :
        \/ state'[t] = state[t]
        \/ state[t] = "none" /\ state'[t] \in {"pending", "ready"}
        \/ state[t] = "pending" /\ state'[t] \in {"ready", "blocked_by_failure"}
        \/ /\ state[t] = "ready" /\ state'[t] = "scheduled"
           /\ \E m \in messages' : m.task = t
        \/ state[t] = "scheduled" /\ state'[t] = "running"
        \/ state[t] = "running" /\ state'[t] \in {"done", "failed", "ready"}

(* What no step takes back, and where executions come from.                *)
RunMoves ==
    /\ messages \subseteq messages'
    /\ \A e \in execs' : e \in execs \/ [task |-> e.task, epoch |-> e.epoch] \in messages
    /\ runLive' => runLive

LEMMA StepMoves ==
    ASSUME IInv, [Next]_vars PROVE TaskMoves /\ RunMoves
<1>0. state \in [Tasks -> TaskStates]
  BY DEF IInv, TypeOK
<1>1. ASSUME NEW t \in Tasks, Admit(t) PROVE TaskMoves /\ RunMoves
  BY <1>0, <1>1 DEF Admit, TaskMoves, RunMoves
<1>2. ASSUME NEW s \in Schedulers, DispatchCommit(s) \/ DispatchRaises(s)
      PROVE  TaskMoves /\ RunMoves
  <2>1. CASE Dispatched(s)
    <3> DEFINE u == sched[s].task
               n == [task |-> u, epoch |-> s]
    <3>1. n \in messages' /\ n.task = u
      BY <2>1 DEF Dispatched
    <3>2. /\ state[u] = "ready" /\ state' = [state EXCEPT ![u] = "scheduled"]
          /\ messages \subseteq messages' /\ UNCHANGED <<execs, runLive>>
      BY <2>1 DEF Dispatched
    <3> HIDE DEF u, n
    <3> QED BY <1>0, <3>1, <3>2 DEF TaskMoves, RunMoves
  <2>2. CASE UNCHANGED <<runLive, taskVars, messages, execs>>
    BY <2>2 DEF taskVars, TaskMoves, RunMoves
  <2> QED BY <1>2, <2>1, <2>2 DEF DispatchCommit, DispatchRaises
<1>3. ASSUME NEW w \in Workers, NEW m \in messages, Claim(w, m)
      PROVE  TaskMoves /\ RunMoves
  <2>1. m = [task |-> m.task, epoch |-> m.epoch]
    BY DEF IInv, TypeOK, Messages
  <2>2. TaskMoves
    BY <1>0, <1>3 DEF Claim, TaskMoves
  <2>3. RunMoves
    BY <1>3, <2>1 DEF Claim, RunMoves
  <2> QED BY <2>2, <2>3
<1>4. ASSUME NEW e \in execs, CompleteDone(e) PROVE TaskMoves /\ RunMoves
  BY <1>0, <1>4 DEF CompleteDone, CompletionAccepts, Unlocked, CountedDown,
     TaskMoves, RunMoves
<1>5. ASSUME NEW e \in execs, CompleteFailed(e) PROVE TaskMoves /\ RunMoves
  BY <1>0, <1>5 DEF CompleteFailed, CompletionAccepts, TaskMoves, RunMoves
<1>6. ASSUME NEW r \in Recoverers, Requeue(r) PROVE TaskMoves /\ RunMoves
  BY <1>0, <1>6 DEF Requeue, RequeueAccepts, TaskMoves, RunMoves
<1>7. CASE SweepBlockChild
  BY <1>0, <1>7 DEF SweepBlockChild, IInv, Core, BlockerSound, TaskMoves, RunMoves
<1>q. ASSUME state' = state, messages' = messages, execs' \subseteq execs,
             runLive' => runLive
      PROVE  TaskMoves /\ RunMoves
  BY <1>q DEF TaskMoves, RunMoves
<1>8. ASSUME NEW s \in Schedulers, SchedulerNext(s) PROVE TaskMoves /\ RunMoves
  <2>1. CASE DispatchCommit(s) \/ DispatchRaises(s)
    BY <1>2, <2>1
  <2>2. CASE ~(DispatchCommit(s) \/ DispatchRaises(s))
    <3>1. UNCHANGED <<runLive, state, messages, execs>>
      BY <1>8, <2>2
      DEF SchedulerNext, Peek, Reserve, DispatchRejected, ReleaseReadTask,
          ReleaseReadOwner, ReleaseDelete, SchedulerCrash, taskVars
    <3> QED BY <3>1, <1>q
  <2> QED BY <2>1, <2>2
<1>9. CASE WorkerNext
  <2>1. ASSUME NEW w \in Workers, WorkerCrash(w) PROVE TaskMoves /\ RunMoves
    BY <2>1, <1>q DEF WorkerCrash, taskVars
  <2>2. ASSUME NEW e \in execs,
               Heartbeat(e) \/ OwnershipLost(e) \/ CompletionRejected(e)
        PROVE  TaskMoves /\ RunMoves
    BY <2>2, <1>q DEF Heartbeat, OwnershipLost, CompletionRejected, taskVars
  <2> QED BY <1>3, <1>4, <1>5, <1>9, <2>1, <2>2 DEF WorkerNext
<1>10. CASE RecoveryNext
  <2>1. CASE ~SweepBlockChild /\ ~\E r \in Recoverers : Requeue(r)
    BY <1>10, <2>1, <1>q
    DEF RecoveryNext, GoesStale, FindStale, RequeueRejected, SweepDies,
        SweepReadChild, SweepAppendFailed, taskVars
  <2> QED BY <1>6, <1>7, <2>1
<1>11. CASE \/ \E w \in Workers : ReservationExpires(w)
            \/ \E t \in Tasks : OwnerIndexExpires(t)
            \/ RunTerminates \/ UNCHANGED vars
  BY <1>11, <1>q DEF ReservationExpires, OwnerIndexExpires, RunTerminates, taskVars, vars
<1> QED BY <1>1, <1>8, <1>9, <1>10, <1>11 DEF Next

(* No step of any process moves a task out of a terminal state.            *)
THEOREM TerminalForever == Spec => TerminalStable
<1>1. IInv /\ [Next]_vars =>
        [\A t \in Tasks : state[t] \in TerminalStates => state'[t] = state[t]]_vars
  BY StepMoves DEF TaskMoves, TerminalStates
<1> QED BY Invariance, <1>1, PTL DEF Spec, TerminalStable

(* Whatever schedulers, workers, sweeps and expiries do, a task moves only *)
(* along the edges of its state machine: only a running task is completed, *)
(* failed or requeued, only a pending one is blocked, and no task is       *)
(* scheduled without a TaskRequested entry.                                *)
THEOREM LegalMoves == Spec => [][TaskMoves]_vars
<1>1. IInv /\ [Next]_vars => [TaskMoves]_vars
  BY StepMoves
<1> QED BY Invariance, <1>1, PTL DEF Spec

----------------------------------------------------------------------------
(* The two keys of a reservation.  A release that has read the worker key  *)
(* of a pair its own term made still has that pair's task in hand.         *)
ReleaseAimed ==
    \A s \in Schedulers, w \in Workers, t \in Tasks :
        Paired(w, t) /\ ores[t].epoch = s =>
          /\ sched[s].pc = "relOwner" /\ sched[s].worker = w => sched[s].drop = t
          /\ sched[s].pc = "relDelete" => (sched[s].drop = t <=> sched[s].worker = w)

LEMMA AimedNext ==
    ASSUME IInv, ReleaseAimed, [Next]_vars PROVE ReleaseAimed'
<1> SUFFICES ASSUME NEW s \in Schedulers, NEW w \in Workers, NEW t \in Tasks,
                    Paired(w, t)', ores'[t].epoch = s
             PROVE  /\ sched'[s].pc = "relOwner" /\ sched'[s].worker = w => sched'[s].drop = t
                    /\ sched'[s].pc = "relDelete" => (sched'[s].drop = t <=> sched'[s].worker = w)
  BY DEF ReleaseAimed
<1> DEFINE Aimed == /\ sched'[s].pc = "relOwner" /\ sched'[s].worker = w => sched'[s].drop = t
                    /\ sched'[s].pc = "relDelete" => (sched'[s].drop = t <=> sched'[s].worker = w)
<1>0. /\ wres \in [Workers -> WorkerReservations \cup {NoOne}]
      /\ ores \in [Tasks -> OwnerReservations \cup {NoOne}]
      /\ sched \in [Schedulers -> SchedulerLocals]
  BY DEF IInv, TypeOK
<1>q. ASSUME Paired(w, t), ores[t].epoch = s, sched'[s] = sched[s] PROVE Aimed
  BY <1>q DEF ReleaseAimed
<1>e. ASSUME NEW l, sched' = [sched EXCEPT ![s] = l], l.pc \notin {"relOwner", "relDelete"}
      PROVE  Aimed
  BY <1>0, <1>e
<1>1. ASSUME NEW z \in Schedulers, NEW u \in Workers, Reserve(z, u) PROVE Aimed
  <2>1. CASE z = s
    <3>1. sched'[s].pc \in {"dispatch", "idle"}
      <4>1. sched[s] \in Locals({"reserve"}, Tasks, {NoOne}, {NoOne})
        BY <1>1, <2>1, <1>0, LocalsShape DEF Reserve
      <4> QED BY <1>0, <1>1, <2>1, <4>1 DEF Reserve, Idle, Locals
    <3> QED BY <3>1
  <2>2. CASE z # s
    <3>1. sched'[s] = sched[s]
      BY <1>0, <1>1, <2>2 DEF Reserve
    <3>2. Paired(w, t) /\ ores[t].epoch = s
      <4>1. CASE ~ReservationFree(u, sched[z].task)
        BY <1>1, <4>1 DEF Reserve, resVars, Paired
      <4>2. CASE ReservationFree(u, sched[z].task)
        <5>1. /\ wres' = [wres EXCEPT ![u] = [task |-> sched[z].task, epoch |-> z]]
              /\ ores' = [ores EXCEPT ![sched[z].task] = [worker |-> u, epoch |-> z]]
          BY <1>1, <4>2 DEF Reserve
        <5>2. sched[z].task # t
          BY <1>0, <2>2, <5>1
        <5>3. u # w
          BY <1>0, <5>1, <5>2 DEF Paired
        <5> QED BY <1>0, <5>1, <5>2, <5>3 DEF Paired
      <4> QED BY <4>1, <4>2
    <3> QED BY <3>1, <3>2, <1>q
  <2> QED BY <2>1, <2>2
<1>2. ASSUME NEW z \in Schedulers,
             \/ \E x \in Tasks : Peek(z, x)
             \/ DispatchCommit(z) \/ DispatchRaises(z) \/ DispatchRejected(z)
             \/ SchedulerCrash(z)
      PROVE  Aimed
  <2>1. UNCHANGED resVars
    BY <1>2 DEF Peek, DispatchCommit, DispatchRaises, DispatchRejected,
       SchedulerCrash, Dispatched
  <2>2. Paired(w, t) /\ ores[t].epoch = s
    BY <2>1 DEF Paired, resVars
  <2>3. CASE z = s
    <3>1. sched'[s].pc \in {"idle", "reserve", "relTask"}
      <4>1. CASE DispatchRaises(s) \/ DispatchRejected(s)
        <5>1. sched[s] \in Locals({"dispatch", "relTask"}, Tasks, Workers, {NoOne})
          BY <4>1, <1>0, LocalsShape DEF DispatchRaises, DispatchRejected
        <5> QED BY <1>0, <4>1, <5>1 DEF DispatchRaises, DispatchRejected, Locals
      <4>2. CASE DispatchCommit(s) \/ SchedulerCrash(s)
        BY <1>0, <4>2 DEF DispatchCommit, SchedulerCrash, Idle
      <4>3. ASSUME NEW x \in Tasks, Peek(s, x) PROVE sched'[s].pc = "reserve"
        <5>1. [Idle EXCEPT !.pc = "reserve", !.task = x].pc = "reserve"
          BY DEF Idle
        <5> QED BY <1>0, <4>3, <5>1 DEF Peek
      <4> QED BY <1>2, <2>3, <4>1, <4>2, <4>3
    <3> QED BY <3>1
  <2>4. CASE z # s
    <3>1. sched'[s] = sched[s]
      BY <1>0, <1>2, <2>4 DEF Peek, DispatchCommit, DispatchRaises,
         DispatchRejected, SchedulerCrash
    <3> QED BY <2>2, <3>1, <1>q
  <2> QED BY <2>3, <2>4
<1>3. ASSUME NEW z \in Schedulers, ReleaseReadTask(z) PROVE Aimed
  <2>1. Paired(w, t) /\ ores[t].epoch = s
    BY <1>3 DEF Paired, resVars, ReleaseReadTask
  <2>2. CASE z # s
    BY <1>0, <1>3, <1>q, <2>1, <2>2 DEF ReleaseReadTask
  <2>3. CASE z = s
    <3>1. sched[s] \in Locals({"dispatch", "relTask"}, Tasks, Workers, {NoOne})
      BY <1>0, <1>3, <2>3, LocalsShape DEF ReleaseReadTask
    <3> DEFINE v == sched[s].worker
    <3>2. CASE wres[v] = NoOne
      <4>1. sched'[s].pc = "relDelete" /\ sched'[s].drop = NoOne /\ sched'[s].worker = v
        BY <1>0, <1>3, <2>3, <3>1, <3>2 DEF ReleaseReadTask, Locals
      <4> QED BY <2>1, <3>2, <4>1, NoOneAssumption DEF Paired
    <3>3. CASE wres[v] # NoOne
      <4>1. sched'[s].pc = "relOwner" /\ sched'[s].drop = wres[v].task /\ sched'[s].worker = v
        BY <1>0, <1>3, <2>3, <3>1, <3>3 DEF ReleaseReadTask, Locals
      <4> QED BY <2>1, <3>3, <4>1 DEF Paired
    <3> QED BY <3>2, <3>3
  <2> QED BY <2>2, <2>3
<1>4. ASSUME NEW z \in Schedulers, ReleaseReadOwner(z) PROVE Aimed
  <2>1. Paired(w, t) /\ ores[t].epoch = s
    BY <1>4 DEF Paired, resVars, ReleaseReadOwner
  <2>2. CASE z # s
    BY <1>0, <1>4, <1>q, <2>1, <2>2 DEF ReleaseReadOwner
  <2>3. CASE z = s
    <3>1. sched[s] \in Locals({"relOwner"}, Tasks, Workers, Tasks)
      BY <1>0, <1>4, <2>3, LocalsShape DEF ReleaseReadOwner
    <3> DEFINE v == sched[s].worker
               d == sched[s].drop
    <3>2. /\ sched'[s].pc = "relDelete" /\ sched'[s].worker = v
          /\ sched'[s].drop = IF ores[d] # NoOne /\ ores[d].worker = v THEN d ELSE NoOne
      BY <1>0, <1>4, <2>3, <3>1 DEF ReleaseReadOwner, Locals
    <3>3. v = w => d = t
      BY <1>4, <2>1, <2>3 DEF ReleaseAimed, ReleaseReadOwner
    <3> HIDE DEF v, d
    <3> QED BY <2>1, <3>2, <3>3, NoOneAssumption DEF Paired
  <2> QED BY <2>2, <2>3
<1>5. ASSUME NEW z \in Schedulers, ReleaseDelete(z) PROVE Aimed
  <2>1. CASE z = s
    <3>1. sched'[s].pc = "idle"
      BY <1>0, <1>5, <2>1 DEF ReleaseDelete, Idle
    <3> QED BY <3>1
  <2>2. CASE z # s
    <3>1. sched[z] \in Locals({"relDelete"}, Tasks, Workers, Tasks \cup {NoOne})
      BY <1>0, <1>5, LocalsShape DEF ReleaseDelete
    <3>2. sched[z].worker # w /\ sched[z].drop # t
      BY <1>0, <1>5, <3>1, NoOneAssumption DEF ReleaseDelete, Paired, Locals
    <3>3. wres'[w] = wres[w] /\ ores'[t] = ores[t] /\ sched'[s] = sched[s]
      BY <1>0, <1>5, <2>2, <3>1, <3>2 DEF ReleaseDelete, Locals
    <3> QED BY <1>q, <3>3 DEF Paired
  <2> QED BY <2>1, <2>2
<1>6. ASSUME UNCHANGED sched, Paired(w, t), ores[t].epoch = s PROVE Aimed
  BY <1>6, <1>q
<1>7. ASSUME NEW u \in Workers, ReservationExpires(u) PROVE Aimed
  <2>1. wres'[w] = wres[w] /\ ores'[t] = ores[t]
    BY <1>0, <1>7 DEF ReservationExpires, Paired
  <2> QED BY <1>6, <1>7, <2>1 DEF Paired, ReservationExpires
<1>8. ASSUME NEW x \in Tasks, OwnerIndexExpires(x) PROVE Aimed
  <2>1. wres'[w] = wres[w] /\ ores'[t] = ores[t]
    BY <1>0, <1>8 DEF OwnerIndexExpires, Paired
  <2> QED BY <1>6, <1>8, <2>1 DEF Paired, OwnerIndexExpires
<1>9. ASSUME NEW u \in Workers, NEW m \in messages, Claim(u, m) PROVE Aimed
  <2>1. wres'[w] = wres[w] /\ ores'[t] = ores[t]
    BY <1>0, <1>9 DEF Claim, Paired
  <2> QED BY <1>6, <1>9, <2>1 DEF Paired, Claim
<1>10. ASSUME UNCHANGED <<sched, resVars>> PROVE Aimed
  BY <1>6, <1>10 DEF Paired, resVars
<1>11. CASE WorkerNext
  BY <1>9, <1>10, <1>11 DEF WorkerNext, WorkerCrash, Heartbeat, OwnershipLost,
     CompleteDone, CompleteFailed, CompletionRejected
<1>12. CASE RecoveryNext \/ RunTerminates \/ UNCHANGED vars \/ \E x \in Tasks : Admit(x)
  BY <1>10, <1>12 DEF RecoveryNext, GoesStale, FindStale, Requeue, RequeueRejected,
     SweepDies, SweepReadChild, SweepBlockChild, SweepAppendFailed, RunTerminates,
     Admit, vars
<1> QED
  BY <1>1, <1>2, <1>3, <1>4, <1>5, <1>7, <1>8, <1>11, <1>12 DEF Next, SchedulerNext

(* WorkerReservationManager.release reads, reads and deletes in three      *)
(* awaits, and keys lapse and are claimed meanwhile: still only the        *)
(* unfinished release of another term splits the pair of keys that makes a *)
(* reservation.                                                            *)
THEOREM PairsIntact == Spec => ReservationIntact
<1> DEFINE Split(w, t) == Paired(w, t) /\ (wres'[w] = wres[w] <=> ores'[t] # ores[t])
           Other(w, t) == \E s \in Schedulers \ {ores[t].epoch} :
                            /\ sched[s].pc = "relDelete"
                            /\ sched[s].drop = t \/ sched[s].worker = w
<1>1. IInv /\ ReleaseAimed /\ [Next]_vars =>
        [\A w \in Workers, t \in Tasks :
           Paired(w, t) /\ (wres'[w] = wres[w] <=> ores'[t] # ores[t]) =>
             \E s \in Schedulers \ {ores[t].epoch} :
               sched[s].pc = "relDelete" /\ (sched[s].drop = t \/ sched[s].worker = w)]_vars
  <2> SUFFICES ASSUME IInv, ReleaseAimed, Next,
                      NEW w \in Workers, NEW t \in Tasks, Split(w, t)
               PROVE  Other(w, t)
    BY DEF vars
  <2>0. /\ wres \in [Workers -> WorkerReservations \cup {NoOne}]
        /\ ores \in [Tasks -> OwnerReservations \cup {NoOne}]
        /\ sched \in [Schedulers -> SchedulerLocals]
    BY DEF IInv, TypeOK
  <2>q. ~(wres'[w] = wres[w] /\ ores'[t] = ores[t])
    OBVIOUS
  <2>b. ~(wres'[w] = NoOne /\ ores'[t] = NoOne)
    BY DEF Paired
  <2>1. ASSUME NEW z \in Schedulers, NEW u \in Workers, Reserve(z, u) PROVE FALSE
    <3>1. wres'[w] = wres[w] /\ ores'[t] = ores[t]
      BY <2>0, <2>1 DEF Reserve, ReservationFree, Paired, resVars
    <3> QED BY <2>q, <3>1
  <2>2. ASSUME NEW z \in Schedulers, ReleaseDelete(z) PROVE Other(w, t)
    <3>1. sched[z] \in Locals({"relDelete"}, Tasks, Workers, Tasks \cup {NoOne})
      BY <2>0, <2>2, LocalsShape DEF ReleaseDelete
    <3>2. sched[z].drop = t \/ sched[z].worker = w
      BY <2>0, <2>2, <2>q, <3>1 DEF ReleaseDelete, Locals
    <3>3. sched[z].drop = t /\ sched[z].worker = w => wres'[w] = NoOne /\ ores'[t] = NoOne
      BY <2>0, <2>2, NoOneAssumption DEF ReleaseDelete
    <3>4. z # ores[t].epoch
      BY <2>2, <2>b, <3>2, <3>3 DEF ReleaseAimed, ReleaseDelete
    <3> QED BY <2>2, <3>2, <3>4 DEF ReleaseDelete
  <2>3. ASSUME NEW u \in Workers, ReservationExpires(u) PROVE FALSE
    <3>1. CASE u = w
      BY <2>0, <2>3, <2>b, <3>1 DEF ReservationExpires
    <3>2. CASE u # w
      BY <2>0, <2>3, <2>q, <3>2 DEF ReservationExpires, Paired
    <3> QED BY <3>1, <3>2
  <2>4. ASSUME NEW x \in Tasks, OwnerIndexExpires(x) PROVE FALSE
    BY <2>0, <2>4, <2>q DEF OwnerIndexExpires
  <2>5. ASSUME NEW u \in Workers, NEW m \in messages, Claim(u, m) PROVE FALSE
    <3>1. m.task \in Tasks /\ m.epoch \in Schedulers
      BY DEF IInv, TypeOK, Messages
    <3>2. u = w <=> m.task = t
      BY <2>5, <3>1 DEF Claim, ReservationAccepts, Paired
    <3>3. /\ wres' = [wres EXCEPT ![u] = NoOne]
          /\ ores' = [ores EXCEPT ![m.task] = NoOne]
      BY <2>5 DEF Claim
    <3> QED BY <2>0, <2>b, <2>q, <3>2, <3>3
  <2>6. ASSUME UNCHANGED resVars PROVE FALSE
    BY <2>6, <2>q DEF resVars
  <2>7. ASSUME NEW z \in Schedulers, SchedulerNext(z) PROVE Other(w, t)
    BY <2>1, <2>2, <2>6, <2>7 DEF SchedulerNext, Peek, DispatchCommit,
       DispatchRaises, DispatchRejected, Dispatched, ReleaseReadTask,
       ReleaseReadOwner, SchedulerCrash
  <2>8. CASE WorkerNext
    BY <2>5, <2>6, <2>8 DEF WorkerNext, WorkerCrash, Heartbeat, OwnershipLost,
       CompleteDone, CompleteFailed, CompletionRejected
  <2>9. CASE RecoveryNext \/ RunTerminates \/ \E x \in Tasks : Admit(x)
    BY <2>6, <2>9 DEF RecoveryNext, GoesStale, FindStale, Requeue, RequeueRejected,
       SweepDies, SweepReadChild, SweepBlockChild, SweepAppendFailed, RunTerminates,
       Admit
  <2> QED BY <2>3, <2>4, <2>7, <2>8, <2>9 DEF Next
<1>2. Init => ReleaseAimed
  BY DEF Init, ReleaseAimed, Paired
<1>3. IInv /\ ReleaseAimed /\ [Next]_vars => ReleaseAimed'
  BY AimedNext
<1> QED BY Invariance, <1>1, <1>2, <1>3, PTL DEF Spec, ReservationIntact

----------------------------------------------------------------------------
(* The end of the run.  What holds of the published outcome, of the        *)
(* entries behind executions and finalizations, and who will still         *)
(* finalize.                                                               *)
Results == [status : {"done", "failed"}, tasks : SUBSET Tasks]
Finalizers == [worker : Workers, msg : Messages, how : {"completed", "redelivered"},
               step : {"finalize", "ack"}]

Published ==
    /\ runState \in {"live", "done", "failed"} /\ (runLive <=> runState = "live")
    /\ result \in Results \cup {NoOne}
    /\ PublishedOutcomeHolds

Entered ==
    /\ finalizing \subseteq Finalizers
    /\ \A e \in execs : [task |-> e.task, epoch |-> e.epoch] \in messages
    /\ \A t \in Tasks : state[t] \in {"scheduled", "running", "done", "failed"} =>
         \E m \in messages : m.task = t
    /\ \A f \in finalizing : f.msg \in messages /\ state[f.msg.task] \in TerminalStates
    /\ \A m \in acked : m \in messages /\ state[m.task] \in TerminalStates

(* Every task has ended, none of them blocked, and the run has not.        *)
Unfinished ==
    /\ runLive /\ \E t \in Tasks : state[t] # "none"
    /\ \A t \in Tasks : state[t] \in {"none", "done", "failed"}

(* An entry of an ended task, neither acknowledged nor about to be.        *)
Owing(m) ==
    /\ state[m.task] \in TerminalStates /\ m \notin acked
    /\ \A f \in finalizing : f.msg = m => f.how # "completed" \/ f.step # "ack"

Owed == Unfinished => \E m \in messages : Owing(m)

FinInv == Published /\ Entered /\ Owed

(* What a step does to finalizations and acknowledgements: a call goes on  *)
(* to its acknowledgement only while the run has work or is over.          *)
FinMoves ==
    /\ finalizing' \subseteq Finalizers
    /\ \A m \in acked' :
         \/ m \in acked
         \/ \E g \in finalizing : g.msg = m /\ g.how = "completed" /\ g.step = "ack"
    /\ \A f \in finalizing' :
         \/ f \in finalizing
         \/ /\ f.step = "finalize" /\ f.msg \in messages
            /\ state'[f.msg.task] \in TerminalStates
         \/ (\E g \in finalizing : g.msg = f.msg) /\ ~Unfinished'

(* Every step of RunTermination is a step of TaskLifecycle, or leaves its  *)
(* keys and processes alone.                                               *)
LEMMA FinStep ==
    ASSUME IInv, Published, [FinNext]_allVars PROVE [Next]_vars
<1>1. CASE TaskStep
  BY <1>1 DEF TaskStep, Next, WorkerNext
<1>2. ASSUME NEW e \in execs, Completes(e) PROVE Next
  BY <1>2 DEF Completes, Next, WorkerNext
<1>3. ASSUME UNCHANGED <<taskVars, metaVars, resVars, messages, execs, sched, sweep,
                         blocker>>,
             FinalizeScript \/ UNCHANGED runLive
      PROVE  [Next]_vars
  <2>1. CASE FinalizeScript /\ MustFinalize
    <3>1. RunTerminates
      BY <1>3, <2>1 DEF FinalizeScript, MustFinalize, RunTerminates, Published
    <3> QED BY <3>1 DEF Next
  <2>2. CASE UNCHANGED runLive
    BY <1>3, <2>2 DEF vars
  <2> QED BY <1>3, <2>1, <2>2 DEF FinalizeScript
<1>4. ASSUME NEW f \in finalizing, Finalize(f) \/ FinalizeRaises(f) PROVE [Next]_vars
  BY <1>3, <1>4 DEF Finalize, FinalizeRaises
<1>5. ASSUME NEW w \in Workers, FinalizerCrash(w) PROVE [Next]_vars
  <2>1. CASE \E e \in execs : e.worker = w
    <3>1. WorkerCrash(w)
      BY <1>5, <2>1 DEF FinalizerCrash, WorkerCrash
    <3> QED BY <3>1 DEF Next, WorkerNext
  <2>2. CASE ~\E e \in execs : e.worker = w
    <3>1. execs' = execs
      BY <1>5, <2>2 DEF FinalizerCrash
    <3> QED BY <1>5, <3>1 DEF FinalizerCrash, vars
  <2> QED BY <2>1, <2>2
<1>6. CASE UNCHANGED vars
  BY <1>6
<1>7. ASSUME NEW f \in finalizing, Acknowledge(f) PROVE UNCHANGED vars
  BY <1>7 DEF Acknowledge
<1>8. ASSUME NEW w \in Workers, NEW m \in messages, Redelivered(w, m) PROVE UNCHANGED vars
  BY <1>8 DEF Redelivered
<1>9. UNCHANGED allVars => UNCHANGED vars
  BY DEF allVars
<1> QED
  BY <1>1, <1>2, <1>4, <1>5, <1>6, <1>7, <1>8, <1>9 DEF FinNext

LEMMA FinStepMoves ==
    ASSUME IInv, FinInv, [FinNext]_allVars PROVE TaskMoves /\ RunMoves
  BY FinStep, StepMoves DEF FinInv

LEMMA TerminalKept ==
    ASSUME TaskMoves, NEW t \in Tasks, state[t] \in TerminalStates
    PROVE  state'[t] = state[t]
  BY DEF TaskMoves, TerminalStates

(* Published outcomes stay true: their tasks have ended for good.          *)
LEMMA OutcomeKept ==
    ASSUME Published, TaskMoves, UNCHANGED <<runLive, runState, result, events>>
    PROVE  Published'
<1>1. CASE result = NoOne
  BY <1>1 DEF Published, PublishedOutcomeHolds
<1>2. CASE result # NoOne
  <2>1. \A t \in result.tasks : t \in Tasks /\ state'[t] = state[t]
    BY <1>2, TerminalKept DEF Published, PublishedOutcomeHolds, Results
  <2> QED BY <1>2, <2>1 DEF Published, PublishedOutcomeHolds
<1> QED BY <1>1, <1>2

LEMMA ScriptPublishes ==
    ASSUME Published, FinalizeScript, state' = state PROVE Published'
<1>1. CASE ~MustFinalize
  <2>1. UNCHANGED <<runLive, runState, result, events, state>>
    BY <1>1 DEF FinalizeScript
  <2> QED BY <2>1 DEF Published, PublishedOutcomeHolds
<1>2. CASE MustFinalize
  <2>1. /\ runLive' = FALSE /\ runState' = Outcome /\ result' = Summary
        /\ events' = events + 1 /\ runState = "live" /\ AllEnded
    BY <1>2 DEF FinalizeScript, MustFinalize
  <2>2. Outcome \in {"done", "failed"} /\ (Outcome = "done" <=> \A t \in Members : state[t] = "done")
    BY DEF Outcome
  <2>3. Members \subseteq Tasks /\ \A t \in Members : state[t] \in TerminalStates
    BY <2>1 DEF Members, AllEnded
  <2>4. Summary = [status |-> Outcome, tasks |-> Members]
    BY DEF Summary
  <2>5. Summary \in Results /\ Summary # NoOne
    BY <2>2, <2>3, <2>4, NoResultAssumption DEF Results
  <2>6. result = NoOne /\ events = 0
    BY <2>1 DEF Published, PublishedOutcomeHolds, Results
  <2>7. Summary.status = Outcome /\ Summary.tasks = Members
    BY <2>4
  <2>8. PublishedOutcomeHolds'
    BY <2>1, <2>2, <2>3, <2>5, <2>6, <2>7 DEF PublishedOutcomeHolds
  <2> QED BY <2>1, <2>2, <2>5, <2>8 DEF Published
<1> QED BY <1>1, <1>2

LEMMA TaskStepKeepsRun ==
    ASSUME TaskStep PROVE UNCHANGED runLive
  BY DEF TaskStep, Admit, SchedulerNext, Peek, Reserve, DispatchCommit,
     DispatchRaises, Dispatched, DispatchRejected, ReleaseReadTask, ReleaseReadOwner,
     ReleaseDelete, SchedulerCrash, ReservationExpires, OwnerIndexExpires, Claim,
     WorkerCrash, Heartbeat, OwnershipLost, CompletionRejected, RecoveryNext,
     GoesStale, FindStale, Requeue, RequeueRejected, SweepDies, SweepReadChild,
     SweepBlockChild, SweepAppendFailed

LEMMA PublishedNext ==
    ASSUME IInv, FinInv, [FinNext]_allVars PROVE Published'
<1>0. TaskMoves /\ Published
  BY FinStepMoves DEF FinInv
<1>1. CASE TaskStep /\ UNCHANGED finVars
  BY <1>0, <1>1, OutcomeKept, TaskStepKeepsRun DEF finVars
<1>2. ASSUME NEW e \in execs, Completes(e) PROVE Published'
  BY <1>0, <1>2, OutcomeKept DEF Completes, CompleteDone, CompleteFailed
<1>3. ASSUME NEW f \in finalizing, Finalize(f) \/ FinalizeRaises(f) PROVE Published'
  <2>1. state' = state
    BY <1>3 DEF Finalize, FinalizeRaises, taskVars
  <2> QED BY <1>0, <1>3, <2>1, OutcomeKept, ScriptPublishes DEF Finalize, FinalizeRaises
<1>4. CASE \/ \E f \in finalizing : Acknowledge(f)
           \/ \E w \in Workers, m \in messages : Redelivered(w, m)
           \/ \E w \in Workers : FinalizerCrash(w)
           \/ UNCHANGED allVars
  BY <1>0, <1>4, OutcomeKept DEF Acknowledge, Redelivered, FinalizerCrash, allVars,
     vars, finVars
<1> QED BY <1>1, <1>2, <1>3, <1>4 DEF FinNext

LEMMA FinMovesHolds ==
    ASSUME IInv, FinInv, [FinNext]_allVars PROVE FinMoves
<1>0. finalizing \subseteq Finalizers
  BY DEF FinInv, Entered
<1>q. ASSUME acked' = acked, finalizing' \subseteq finalizing PROVE FinMoves
  BY <1>0, <1>q DEF FinMoves
<1>1. ASSUME NEW e \in execs, Completes(e) PROVE FinMoves
  <2> DEFINE m == [task |-> e.task, epoch |-> e.epoch]
             f == [worker |-> e.worker, msg |-> m, how |-> "completed", step |-> "finalize"]
  <2>1. m \in messages /\ m \in Messages /\ e.task \in Tasks /\ e.worker \in Workers
    BY DEF FinInv, Entered, IInv, TypeOK, Executions, Messages
  <2>2. state'[e.task] \in TerminalStates
    BY <1>1, <2>1 DEF Completes, CompleteDone, CompleteFailed, TerminalStates, IInv, TypeOK
  <2>3. f \in Finalizers /\ f.step = "finalize" /\ f.msg = m /\ m.task = e.task
    BY <2>1 DEF Finalizers
  <2>4. acked' = acked /\ finalizing' = finalizing \cup {f}
    BY <1>1 DEF Completes
  <2> HIDE DEF f, m
  <2> QED BY <1>0, <2>1, <2>2, <2>3, <2>4 DEF FinMoves
<1>2. ASSUME NEW w \in Workers, NEW m \in messages, Redelivered(w, m) PROVE FinMoves
  <2> DEFINE f == [worker |-> w, msg |-> m, how |-> "redelivered", step |-> "finalize"]
  <2>1. f \in Finalizers /\ f.step = "finalize" /\ f.msg = m
    BY DEF Finalizers, IInv, TypeOK
  <2>2. /\ acked' = acked /\ finalizing' = finalizing \cup {f}
        /\ state'[m.task] \in TerminalStates
    BY <1>2 DEF Redelivered, vars, taskVars
  <2> HIDE DEF f
  <2> QED BY <1>0, <2>1, <2>2 DEF FinMoves
<1>3. ASSUME NEW f \in finalizing, Finalize(f) PROVE FinMoves
  <2> DEFINE g == [f EXCEPT !.step = "ack"]
  <2>1. g \in Finalizers /\ g.msg = f.msg
    BY <1>0 DEF Finalizers
  <2>2. /\ acked' = acked /\ state' = state
        /\ \A h \in finalizing' : h \in finalizing \/ h = g
    BY <1>3 DEF Finalize, taskVars
  <2>3. ~Unfinished'
    <3>1. CASE Unfinished
      <4>1. MustFinalize
        BY <3>1 DEF Unfinished, MustFinalize, AllEnded, Members, TerminalStates,
           FinInv, Published
      <4> QED BY <1>3, <4>1 DEF Finalize, FinalizeScript, Unfinished
    <3>2. CASE ~Unfinished
      <4>1. runLive' => runLive
        BY FinStepMoves DEF RunMoves
      <4> QED BY <2>2, <3>2, <4>1 DEF Unfinished
    <3> QED BY <3>1, <3>2
  <2> HIDE DEF g
  <2> QED BY <1>0, <2>1, <2>2, <2>3 DEF FinMoves
<1>4. ASSUME NEW f \in finalizing, Acknowledge(f) PROVE FinMoves
  <2>1. /\ \A m \in acked' : m \in acked \/ (m = f.msg /\ f.how = "completed")
        /\ f.step = "ack" /\ finalizing' \subseteq finalizing
    BY <1>4 DEF Acknowledge
  <2> QED BY <1>0, <2>1 DEF FinMoves
<1>5. CASE \/ UNCHANGED finVars
           \/ \E f \in finalizing : FinalizeRaises(f)
           \/ \E w \in Workers : FinalizerCrash(w)
  BY <1>5, <1>q DEF finVars, FinalizeRaises, FinalizerCrash
<1> QED BY <1>1, <1>2, <1>3, <1>4, <1>5 DEF FinNext, allVars

LEMMA EnteredNext ==
    ASSUME IInv, IInv', FinInv, [FinNext]_allVars PROVE Entered'
<1>0. TaskMoves /\ RunMoves /\ FinMoves /\ Entered
  BY FinStepMoves, FinMovesHolds DEF FinInv
<1>1. \A m \in messages : m.task \in Tasks
  BY DEF IInv, TypeOK, Messages
<1>2. \A e \in execs' : [task |-> e.task, epoch |-> e.epoch] \in messages'
  BY <1>0 DEF RunMoves, Entered
<1>3. ASSUME NEW t \in Tasks, state'[t] \in {"scheduled", "running", "done", "failed"}
      PROVE  \E m \in messages' : m.task = t
  <2>1. \/ state[t] \in {"scheduled", "running", "done", "failed"}
        \/ \E m \in messages' : m.task = t
    BY <1>0, <1>3 DEF TaskMoves
  <2> QED BY <1>0, <2>1 DEF RunMoves, Entered
<1>4. ASSUME NEW f \in finalizing'
      PROVE  f.msg \in messages' /\ state'[f.msg.task] \in TerminalStates
  <2>1. CASE \E g \in finalizing : g.msg = f.msg
    <3>1. f.msg \in messages /\ state[f.msg.task] \in TerminalStates /\ f.msg.task \in Tasks
      BY <1>0, <1>1, <2>1 DEF Entered
    <3> QED BY <1>0, <3>1, TerminalKept DEF RunMoves
  <2>2. CASE f.msg \in messages /\ state'[f.msg.task] \in TerminalStates
    BY <1>0, <2>2 DEF RunMoves
  <2> QED BY <1>0, <2>1, <2>2 DEF FinMoves
<1>5. ASSUME NEW m \in acked'
      PROVE  m \in messages' /\ state'[m.task] \in TerminalStates
  <2>1. m \in messages /\ state[m.task] \in TerminalStates /\ m.task \in Tasks
    BY <1>0, <1>1 DEF FinMoves, Entered
  <2> QED BY <1>0, <2>1, TerminalKept DEF RunMoves
<1> QED BY <1>0, <1>2, <1>3, <1>4, <1>5 DEF Entered, FinMoves

(* The task that ends last leaves an entry of its own behind, and no call  *)
(* about it is past its finalization.                                      *)
LEMMA OwedNext ==
    ASSUME IInv, FinInv, [FinNext]_allVars PROVE Owed'
<1>0. TaskMoves /\ RunMoves /\ FinMoves /\ Entered /\ Owed
  BY FinStepMoves, FinMovesHolds DEF FinInv
<1> SUFFICES ASSUME Unfinished' PROVE \E m \in messages' : Owing(m)'
  BY DEF Owed
<1>1. CASE Unfinished
  <2>1. PICK m \in messages : Owing(m)
    BY <1>0, <1>1 DEF Owed
  <2>2. m.task \in Tasks
    BY DEF IInv, TypeOK, Messages
  <2>3. state'[m.task] \in TerminalStates
    BY <1>0, <2>1, <2>2, TerminalKept DEF Owing
  <2>4. m \notin acked'
    BY <1>0, <2>1 DEF FinMoves, Owing
  <2>5. \A f \in finalizing' : f.msg = m => f.how # "completed" \/ f.step # "ack"
    BY <1>0, <2>1 DEF FinMoves, Owing
  <2> QED BY <1>0, <2>3, <2>4, <2>5 DEF Owing, RunMoves
<1>2. CASE ~Unfinished
  <2>1. PICK t \in Tasks : state[t] = "running" /\ state'[t] \in {"done", "failed"}
    BY <1>0, <1>2 DEF Unfinished, TaskMoves, RunMoves
  <2>2. PICK m \in messages : m.task = t
    BY <1>0, <2>1 DEF Entered
  <2>3. m \notin acked /\ \A g \in finalizing : g.msg # m
    BY <1>0, <2>1, <2>2 DEF Entered, TerminalStates
  <2>4. m \notin acked'
    BY <1>0, <2>3 DEF FinMoves
  <2>5. \A f \in finalizing' : f.msg = m => f.step # "ack"
    BY <1>0, <2>3 DEF FinMoves
  <2> QED BY <1>0, <2>1, <2>2, <2>4, <2>5 DEF Owing, RunMoves, TerminalStates
<1> QED BY <1>1, <1>2

(* The run ends on top of the tasks: every step of the composition is one  *)
(* of TaskLifecycle's, so what holds of the tasks holds with RUN           *)
(* finalization running beside them, and FinInv holds of the run.          *)
THEOREM FinInvariance == FinSpec => [](IInv /\ FinInv)
<1>1. FinInit => IInv /\ FinInv
  <2> SUFFICES ASSUME FinInit PROVE IInv /\ FinInv
    OBVIOUS
  <2>1. IInv
    BY InitIInv DEF FinInit
  <2>2. Published /\ Entered
    BY DEF FinInit, Init, Published, PublishedOutcomeHolds, Entered
  <2>3. Owed
    BY DEF FinInit, Init, Owed, Unfinished
  <2> QED BY <2>1, <2>2, <2>3 DEF FinInv
<1>2. ASSUME IInv, FinInv, [FinNext]_allVars PROVE IInv' /\ FinInv'
  <2>1. IInv'
    BY <1>2, FinStep, TypeNext, CoreNext DEF IInv, FinInv
  <2> QED BY <1>2, <2>1, PublishedNext, EnteredNext, OwedNext DEF FinInv
<1>3. IInv /\ FinInv /\ [FinNext]_allVars => IInv' /\ FinInv'
  BY <1>2
<1> QED BY <1>1, <1>3, PTL DEF FinSpec

(* RunTermination implements TaskLifecycle: run_terminate_from_tasks.lua   *)
(* and its callers touch nothing of the tasks but the liveness of the run. *)
THEOREM RunsTaskLifecycle == FinSpec => Spec
<1>1. IInv /\ FinInv /\ [FinNext]_allVars => [Next]_vars
  BY FinStep DEF FinInv
<1>2. FinInit => Init
  BY DEF FinInit
<1> QED BY FinInvariance, <1>1, <1>2, PTL DEF FinSpec, Spec

(* What run_terminate_from_tasks.lua published is never contradicted by a  *)
(* late completion, requeue, sweep or second finalization.                 *)
THEOREM OutcomeHolds == FinSpec => []PublishedOutcomeHolds
<1>1. FinInv => PublishedOutcomeHolds
  BY DEF FinInv, Published
<1> QED BY FinInvariance, <1>1, PTL

(* A delivery is acknowledged only when another will finalize the run, or  *)
(* the run is over: no order of completions, lost replies and worker       *)
(* crashes leaves a run without a finalizer.                               *)
THEOREM FinalizerStays == FinSpec => []FinalizerRemains
<1>1. IInv /\ FinInv => FinalizerRemains
  <2> SUFFICES ASSUME IInv, FinInv, runLive, Members # {}, AllEnded,
                      \A t \in Members : state[t] # "blocked_by_failure"
               PROVE  \E m \in messages : state[m.task] \in TerminalStates /\ m \notin acked
    BY DEF FinalizerRemains
  <2>1. Unfinished
    BY DEF Unfinished, Members, AllEnded, TerminalStates
  <2> QED BY <2>1 DEF FinInv, Owed, Owing
<1> QED BY FinInvariance, <1>1, PTL

=============================================================================
