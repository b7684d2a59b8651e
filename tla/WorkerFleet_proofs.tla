--------------------------- MODULE WorkerFleet_proofs ---------------------------
(***************************************************************************)
(* Proofs about the worker processes of a shard: types, and the fencing of *)
(* a worker that reads messages.                                           *)
(***************************************************************************)
EXTENDS WorkerFleet, TLAPS

(* A message is offered to a worker, so that a handover moves it to a      *)
(* worker's pending entries.                                               *)
Offered == \A w \in Workers : doing[w] # NoOne /\ doing[w].at = "offer" =>
                                 doing[w].to \in Workers

(* A task that may be claimed again has a claim left: the sweep that took  *)
(* it back compared the count, and so the dispatch has a message to send.  *)
ClaimLeft == task \in {"ready", "scheduled"} => claim \in 0..MaxRequeue

(* The inductive invariant.  The renewal task alone knows whether the      *)
(* group still has the lease: it is there whenever the worker pulls.       *)
IInv == TypeOK /\ Offered /\ ClaimLeft /\ ServingIsFenced

LEMMA Counts == /\ MaxRequeue \in Nat /\ MaxFaults \in Nat
                /\ 1 \in Entries /\ Terms = Entries /\ 0 \in 0..MaxRequeue
                /\ \A n \in 0..MaxRequeue : n + 1 \in Entries
                                           /\ n + 1 \in 0..(MaxRequeue + 1)
                                           /\ n \in 0..(MaxRequeue + 1)
                /\ \A n \in 0..(MaxRequeue + 1) : ~(n > MaxRequeue) => n \in 0..MaxRequeue
BY ConstantsAssumption DEF Entries, Terms

LEMMA InitInv == Init => IInv
BY ConstantsAssumption, Counts
   DEF Init, IInv, TypeOK, Offered, ClaimLeft, ServingIsFenced

LEMMA FaultCounts == ASSUME TypeOK, Fault PROVE faults' \in 0..MaxFaults
BY ConstantsAssumption DEF TypeOK, Fault

(* start(): from the claim of the shard to the first read of the streams.  *)
LEMMA StartInv ==
  ASSUME IInv, NEW w \in Workers,
         Start(w) \/ ClaimShard(w) \/ MapShard(w) \/ FindLease(w)
         \/ ConfirmLease(w) \/ Serve(w) \/ StartFails(w)
  PROVE  IInv'
<1> USE ConstantsAssumption DEF IInv, TypeOK, Offered, ClaimLeft, ServingIsFenced, Up, Go,
        shardVars, msgVars
<1>1. CASE Start(w)
  BY <1>1 DEF Start
<1>2. CASE ClaimShard(w)
  BY <1>2 DEF ClaimShard
<1>3. CASE MapShard(w)
  BY <1>3 DEF MapShard
<1>4. CASE ConfirmLease(w)
  BY <1>4 DEF ConfirmLease, RenewScript
<1>5. CASE Serve(w)
  BY <1>5 DEF Serve, Reclaimed
<1>6. CASE StartFails(w)
  BY <1>6, FaultCounts DEF StartFails
<1>7. CASE FindLease(w)
  BY <1>7 DEF FindLease
<1> QED BY <1>1, <1>2, <1>3, <1>4, <1>5, <1>6, <1>7

(* Renewal, failure, drain and crash: whatever ends the renewal task has   *)
(* stopped the consumer before, or does so in the same step.               *)
LEMMA EndInv ==
  ASSUME IInv, NEW w \in Workers,
         Renews(w) \/ LeaseLost(w) \/ TaskFails(w) \/ FatalCleanup(w)
         \/ Stop(w) \/ DrainEnds(w) \/ Crash(w)
  PROVE  IInv'
<1> USE ConstantsAssumption DEF IInv, TypeOK, Offered, ClaimLeft, ServingIsFenced, Up, Go,
        procVars, shardVars, msgVars
<1>1. CASE Renews(w)
  BY <1>1 DEF Renews, RenewScript
<1>2. CASE LeaseLost(w)
  BY <1>2 DEF LeaseLost, Fatal
<1>3. CASE TaskFails(w)
  BY <1>3, FaultCounts DEF TaskFails, Fatal
<1>4. CASE FatalCleanup(w)
  BY <1>4 DEF FatalCleanup
<1>5. CASE Stop(w)
  BY <1>5, FaultCounts DEF Stop
<1>6. CASE DrainEnds(w)
  BY <1>6 DEF DrainEnds, TasksEnd
<1>7. CASE Crash(w)
  BY <1>7, FaultCounts DEF Crash, TasksEnd
<1> QED BY <1>1, <1>2, <1>3, <1>4, <1>5, <1>6, <1>7

(* The dispatch, the consumer and recovery move the messages only.         *)
LEMMA MessageInv ==
  ASSUME IInv, NEW w \in Workers, ConsumerNext(w) \/ LosesClaim(w)
  PROVE  IInv'
<1> USE ConstantsAssumption DEF IInv, TypeOK, Offered, ClaimLeft, ServingIsFenced,
        Up, procVars, shardVars
<1>1. ASSUME NEW i \in Entries, ReadNew(w, i) PROVE IInv'
  BY <1>1 DEF ReadNew
<1>2. ASSUME NEW i \in Entries, Claims(w, i) PROVE IInv'
  BY <1>2, Counts DEF Claims, Doing
<1>3. ASSUME NEW i \in Entries, Offers(w, i) PROVE IInv'
  BY <1>3, Counts DEF Offers, Doing
<1>4. ASSUME NEW i \in Entries, AcksDuplicate(w, i) PROVE IInv'
  BY <1>4 DEF AcksDuplicate
<1>5. CASE HandsOver(w)
  BY <1>5 DEF HandsOver
<1>6. CASE Completes(w)
  BY <1>6 DEF Completes, Owns
<1>7. CASE Acks(w)
  BY <1>7 DEF Acks
<1>8. CASE LosesClaim(w)
  BY <1>8, FaultCounts DEF LosesClaim
<1> QED BY <1>1, <1>2, <1>3, <1>4, <1>5, <1>6, <1>7, <1>8 DEF ConsumerNext

LEMMA TaskInv ==
  ASSUME IInv, \/ \E w \in Workers, s \in Terms : Dispatch(w, s)
               \/ ReservationLapses \/ Requeue
  PROVE  IInv'
<1> USE ConstantsAssumption DEF IInv, TypeOK, Offered, ClaimLeft, ServingIsFenced,
        Up, procVars, shardVars
<1>1. ASSUME NEW w \in Workers, NEW s \in Terms, Dispatch(w, s) PROVE IInv'
  BY <1>1, Counts DEF Dispatch
<1>2. CASE ReservationLapses
  BY <1>2 DEF ReservationLapses
<1>3. CASE Requeue
  BY <1>3, Counts, FaultCounts DEF Requeue, Exhausted
<1> QED BY <1>1, <1>2, <1>3

LEMMA ShardInv ==
  ASSUME IInv, LeaseExpires \/ OrphanSeen \/ OrphanRemoved
  PROVE  IInv'
<1> USE DEF IInv, TypeOK, Offered, ClaimLeft, ServingIsFenced, Up, procVars, msgVars
<1>1. CASE LeaseExpires
  BY <1>1, FaultCounts DEF LeaseExpires
<1>2. CASE OrphanSeen \/ OrphanRemoved
  BY <1>2 DEF OrphanSeen, OrphanRemoved
<1> QED BY <1>1, <1>2

THEOREM FleetInductive == Spec => []IInv
<1>1. IInv /\ [Next]_vars => IInv'
  <2> SUFFICES ASSUME IInv, [Next]_vars PROVE IInv'
    OBVIOUS
  <2>1. ASSUME NEW w \in Workers, ProcessNext(w) PROVE IInv'
    BY <2>1, StartInv, EndInv DEF ProcessNext
  <2>2. ASSUME NEW w \in Workers, ConsumerNext(w) \/ LosesClaim(w) PROVE IInv'
    BY <2>2, MessageInv
  <2>3. CASE UNCHANGED vars
    BY <2>3 DEF vars, procVars, shardVars, msgVars, IInv, TypeOK, Offered, ClaimLeft,
       ServingIsFenced, Up
  <2> QED BY <2>1, <2>2, <2>3, ShardInv, TaskInv DEF Next
<1> QED BY InitInv, <1>1, PTL DEF Spec

(* Types of the processes, of the lease and of the messages; however often *)
(* recovery takes the task back, it is claimed MaxRequeue + 1 times at     *)
(* most and every dispatch has a message of its own.                       *)
THEOREM FleetTypes == Spec => []TypeOK
<1>1. IInv => TypeOK
  BY DEF IInv
<1> QED BY FleetInductive, <1>1, PTL

(* WorkerService never pulls without its renewal task: neither a failure   *)
(* of another task nor a drain, a restart or a late renewal leaves a       *)
(* consumer that would not find out that its group lost the shard.         *)
THEOREM ServingFenced == Spec => []ServingIsFenced
<1>1. IInv => ServingIsFenced
  BY DEF IInv
<1> QED BY FleetInductive, <1>1, PTL
=================================================================================
