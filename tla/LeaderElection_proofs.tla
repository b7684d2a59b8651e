----------------------- MODULE LeaderElection_proofs -----------------------
(* Proofs about LeaderElection, for every set of instances and every bound *)
(* on lapses and faults.                                                   *)
EXTENDS LeaderElection, TLAPS

(* Every step keeps the types of the key, the counter and the locals.      *)
LEMMA TypeNext == TypeOK /\ [Next]_vars => TypeOK'
<1> SUFFICES ASSUME TypeOK, [Next]_vars PROVE TypeOK'
  OBVIOUS
<1> USE DEF TypeOK, LoopSteps, CloseSteps, electionVars, watchVars, Fault
<1>1. CASE KeyExpires
  BY <1>1 DEF KeyExpires
<1>2. ASSUME NEW i \in Instances, SetNx(i) PROVE TypeOK'
  BY <1>2 DEF SetNx
<1>3. ASSUME NEW i \in Instances, Incr(i) PROVE TypeOK'
  BY <1>3 DEF Incr
<1>4. ASSUME NEW i \in Instances, Get(i) PROVE TypeOK'
  BY <1>4 DEF Get
<1>5. ASSUME NEW i \in Instances, Expire(i) PROVE TypeOK'
  BY <1>5 DEF Expire
<1>6. ASSUME NEW i \in Instances, CallFails(i) PROVE TypeOK'
  BY <1>6 DEF CallFails
<1>7. ASSUME NEW i \in Instances, Reconcile(i) PROVE TypeOK'
  BY <1>7 DEF Reconcile
<1>8. ASSUME NEW i \in Instances, StartScheduler(i) PROVE TypeOK'
  BY <1>8 DEF StartScheduler
<1>9. ASSUME NEW i \in Instances, StartRecovery(i) PROVE TypeOK'
  BY <1>9 DEF StartRecovery
<1>10. ASSUME NEW i \in Instances, StartFails(i) PROVE TypeOK'
  <2>1. CASE wpc[i] = "both"
    <3>1. started' = [started EXCEPT ![i] = FALSE]
      BY <1>10, <2>1 DEF StartFails
    <3>2. started' \in [Instances -> BOOLEAN]
      BY <3>1
    <3> QED BY <1>10, <2>1, <3>2 DEF StartFails
  <2>2. CASE wpc[i] # "both"
    BY <1>10, <2>2 DEF StartFails
  <2> QED BY <2>1, <2>2
<1>11. ASSUME NEW i \in Instances, StandDown(i) PROVE TypeOK'
  BY <1>11 DEF StandDown
<1>12. ASSUME NEW i \in Instances, StandDownFails(i) PROVE TypeOK'
  <2>1. \/ started' = started /\ recovering' = [recovering EXCEPT ![i] = FALSE]
        \/ recovering' = recovering /\ started' = [started EXCEPT ![i] = FALSE]
    BY <1>12 DEF StandDownFails
  <2>2. /\ started' \in [Instances -> BOOLEAN]
        /\ recovering' \in [Instances -> BOOLEAN]
    BY <2>1
  <2>3. /\ UNCHANGED <<key, fence, electionVars, wpc, wtoken, lastEpoch, lapses>>
        /\ faults' = faults + 1
        /\ epoch' = [epoch EXCEPT ![i] = 0]
    BY <1>12 DEF StandDownFails
  <2> QED BY <2>2, <2>3
<1>13. ASSUME NEW i \in Instances, SchedulerGivesUp(i) PROVE TypeOK'
  BY <1>13 DEF SchedulerGivesUp
<1>14. ASSUME NEW i \in Instances, Dispatch(i) PROVE TypeOK'
  BY <1>14 DEF Dispatch
<1>15. ASSUME NEW i \in Instances, Crash(i) PROVE TypeOK'
  BY <1>15 DEF Crash, Gone, WatchGone
<1>16. ASSUME NEW i \in Instances, Restart(i) PROVE TypeOK'
  BY <1>16 DEF Restart
<1>17. ASSUME NEW i \in Instances, Close(i) PROVE TypeOK'
  <2>1. CASE isLeader[i]
    BY <1>17, <2>1 DEF Close, WatchGone
  <2>2. CASE ~isLeader[i]
    <3>1. isLeader' = [isLeader EXCEPT ![i] = FALSE]
      BY <1>17, <2>2 DEF Close, Gone
    <3>2. isLeader' \in [Instances -> BOOLEAN]
      BY <3>1
    <3>3. /\ WatchGone(i)
          /\ pc' = [pc EXCEPT ![i] = "down"]
          /\ token' = [token EXCEPT ![i] = 0]
          /\ UNCHANGED <<key, fence, lastEpoch, lapses>>
          /\ faults' = faults + 1
      BY <1>17, <2>2 DEF Close, Gone
    <3> QED BY <3>2, <3>3 DEF WatchGone
  <2> QED BY <2>1, <2>2
<1>18. ASSUME NEW i \in Instances, CloseGet(i) PROVE TypeOK'
  <2>1. CASE key = i
    BY <1>18, <2>1 DEF CloseGet
  <2>2. CASE key # i
    <3>1. isLeader' = [isLeader EXCEPT ![i] = FALSE]
      BY <1>18, <2>2 DEF CloseGet, Gone
    <3>2. isLeader' \in [Instances -> BOOLEAN]
      BY <3>1
    <3>3. /\ pc' = [pc EXCEPT ![i] = "down"]
          /\ token' = [token EXCEPT ![i] = 0]
          /\ UNCHANGED <<key, fence, watchVars, lastEpoch, lapses, faults>>
      BY <1>18, <2>2 DEF CloseGet, Gone
    <3> QED BY <3>2, <3>3
  <2> QED BY <2>1, <2>2
<1>19. ASSUME NEW i \in Instances, CloseDel(i) PROVE TypeOK'
  BY <1>19 DEF CloseDel, Gone
<1>20. CASE UNCHANGED vars
  BY <1>20 DEF vars
<1> QED
  BY <1>1, <1>2, <1>3, <1>4, <1>5, <1>6, <1>7, <1>8, <1>9, <1>10, <1>11,
     <1>12, <1>13, <1>14, <1>15, <1>16, <1>17, <1>18, <1>19, <1>20
  DEF Next, ElectionNext, WatchdogNext, LifecycleNext

(* A step that brings no epoch into use and does not lower the counter     *)
(* keeps epochs exclusive.                                                 *)
LEMMA NoNewEpoch ==
  ASSUME TypeOK, EpochExclusive, EpochsIssued,
         fence' \in Nat, fence <= fence',
         \A i \in Instances : Epochs(i)' \subseteq Epochs(i)
  PROVE  EpochExclusive' /\ EpochsIssued'
<1>1. EpochExclusive'
  BY DEF EpochExclusive
<1>2. \A i \in Instances : \A n \in Epochs(i) : n \in Nat
  BY DEF Epochs, TypeOK
<1>3. EpochsIssued'
  BY <1>2 DEF EpochsIssued, TypeOK
<1> QED BY <1>1, <1>3

(* Epochs stay exclusive: only INCR brings in a new one, and it is larger  *)
(* than every epoch in use.                                                *)
LEMMA EpochNext ==
  TypeOK /\ EpochExclusive /\ EpochsIssued /\ [Next]_vars
    => EpochExclusive' /\ EpochsIssued'
<1> SUFFICES ASSUME TypeOK, EpochExclusive, EpochsIssued, [Next]_vars
             PROVE  EpochExclusive' /\ EpochsIssued'
  OBVIOUS
<1>0. TypeOK'
  BY TypeNext
<1>q. ASSUME fence <= fence', \A i \in Instances : Epochs(i)' \subseteq Epochs(i)
      PROVE  EpochExclusive' /\ EpochsIssued'
  <2>1. fence' \in Nat
    BY <1>0 DEF TypeOK
  <2> QED BY <1>q, <2>1, NoNewEpoch
<1> USE DEF electionVars, watchVars
<1>1. CASE KeyExpires
  <2>1. fence <= fence' /\ \A i \in Instances : Epochs(i)' \subseteq Epochs(i)
    BY <1>1 DEF KeyExpires, Epochs, TypeOK
  <2> QED BY <2>1, <1>q
<1>2. ASSUME NEW k \in Instances, Incr(k) PROVE EpochExclusive' /\ EpochsIssued'
  <2>1. /\ fence \in Nat /\ fence' = fence + 1
        /\ token \in [Instances -> Nat] /\ token' = [token EXCEPT ![k] = fence + 1]
        /\ epoch' = epoch /\ wtoken' = wtoken
    BY <1>2 DEF Incr, TypeOK
  <2>2. /\ \A i \in Instances : Epochs(i)' \subseteq Epochs(i) \cup {fence + 1}
        /\ \A i \in Instances \ {k} : Epochs(i)' = Epochs(i)
    BY <2>1 DEF Epochs
  <2>3. \A i \in Instances : \A n \in Epochs(i) : n \in Nat /\ n <= fence
    BY DEF Epochs, TypeOK, EpochsIssued
  <2>4. \A i \in Instances : fence + 1 \notin Epochs(i)
    BY <2>1, <2>3
  <2>5. EpochExclusive'
    BY <2>2, <2>4 DEF EpochExclusive
  <2>6. EpochsIssued'
    BY <2>1, <2>2, <2>3 DEF EpochsIssued
  <2> QED BY <2>5, <2>6
<1>3. ASSUME NEW k \in Instances, SetNx(k) \/ Get(k) \/ Expire(k) \/ CallFails(k)
      PROVE EpochExclusive' /\ EpochsIssued'
  <2>1. fence <= fence' /\ \A i \in Instances : Epochs(i)' \subseteq Epochs(i)
    BY <1>3 DEF SetNx, Get, Expire, CallFails, Epochs, TypeOK
  <2> QED BY <2>1, <1>q
<1>4. ASSUME NEW k \in Instances, WatchdogNext(k)
      PROVE EpochExclusive' /\ EpochsIssued'
  <2>1. fence <= fence' /\ token' = token
    BY <1>4 DEF WatchdogNext, Reconcile, StartScheduler, StartRecovery, StartFails,
       StandDown, StandDownFails, SchedulerGivesUp, Dispatch, TypeOK
  <2>2. \/ epoch' = epoch /\ wtoken' = wtoken
        \/ epoch' = epoch /\ wtoken' = [wtoken EXCEPT ![k] = token[k]]
        \/ wtoken' = wtoken /\ epoch' = [epoch EXCEPT ![k] = wtoken[k]]
        \/ wtoken' = wtoken /\ epoch' = [epoch EXCEPT ![k] = 0]
    BY <1>4 DEF WatchdogNext, Reconcile, StartScheduler, StartRecovery, StartFails,
       StandDown, StandDownFails, SchedulerGivesUp, Dispatch
  <2>3. \A i \in Instances : Epochs(i)' \subseteq Epochs(i)
    BY <2>1, <2>2 DEF Epochs, TypeOK
  <2> QED BY <2>1, <2>3, <1>q
<1>5. ASSUME NEW k \in Instances, LifecycleNext(k)
      PROVE EpochExclusive' /\ EpochsIssued'
  <2>1. fence <= fence'
    BY <1>5 DEF LifecycleNext, Crash, Restart, Close, CloseGet, CloseDel, TypeOK
  <2>2. /\ token' = token \/ token' = [token EXCEPT ![k] = 0]
        /\ \/ epoch' = epoch /\ wtoken' = wtoken
           \/ epoch' = [epoch EXCEPT ![k] = 0] /\ wtoken' = [wtoken EXCEPT ![k] = 0]
    BY <1>5 DEF LifecycleNext, Crash, Restart, Close, CloseGet, CloseDel, Gone,
       WatchGone
  <2>3. \A i \in Instances : Epochs(i)' \subseteq Epochs(i)
    BY <2>2 DEF Epochs, TypeOK
  <2> QED BY <2>1, <2>3, <1>q
<1>6. CASE UNCHANGED vars
  <2>1. fence <= fence' /\ \A i \in Instances : Epochs(i)' \subseteq Epochs(i)
    BY <1>6 DEF vars, Epochs, TypeOK
  <2> QED BY <2>1, <1>q
<1> QED BY <1>1, <1>2, <1>3, <1>4, <1>5, <1>6 DEF Next, ElectionNext

(* Until a lapse the believer holds the key: one step per Redis call.      *)
LEMMA BelieverNext == TypeOK /\ BelieverHolds /\ [Next]_vars => BelieverHolds'
<1> SUFFICES ASSUME TypeOK, BelieverHolds, [Next]_vars PROVE BelieverHolds'
  OBVIOUS
<1> USE NoHolderAssumption DEF TypeOK, BelieverHolds, electionVars, watchVars
<1>1. CASE KeyExpires
  BY <1>1 DEF KeyExpires
<1>2. ASSUME NEW i \in Instances, SetNx(i) PROVE BelieverHolds'
  BY <1>2 DEF SetNx
<1>3. ASSUME NEW i \in Instances, Incr(i) \/ Get(i) \/ Expire(i) PROVE BelieverHolds'
  BY <1>3 DEF Incr, Get, Expire
<1>4. ASSUME NEW i \in Instances, CallFails(i) PROVE BelieverHolds'
  BY <1>4 DEF CallFails, LoopSteps
<1>5. ASSUME NEW i \in Instances, WatchdogNext(i) PROVE BelieverHolds'
  BY <1>5 DEF WatchdogNext, Reconcile, StartScheduler, StartRecovery, StartFails,
     StandDown, StandDownFails, SchedulerGivesUp, Dispatch
<1>6. ASSUME NEW i \in Instances, Crash(i) \/ Restart(i) PROVE BelieverHolds'
  BY <1>6 DEF Crash, Restart, Gone
<1>7. ASSUME NEW i \in Instances, Close(i) \/ CloseGet(i) PROVE BelieverHolds'
  BY <1>7 DEF Close, CloseGet, Gone, LoopSteps
<1>8. ASSUME NEW i \in Instances, CloseDel(i) PROVE BelieverHolds'
  BY <1>8 DEF CloseDel, Gone
<1>9. CASE UNCHANGED vars
  BY <1>9 DEF vars
<1> QED BY <1>1, <1>2, <1>3, <1>4, <1>5, <1>6, <1>7, <1>8, <1>9
        DEF Next, ElectionNext, LifecycleNext

(* The inductive invariant of the election.                                *)
THEOREM ElectionInvariance == Spec => []IInv
<1>1. Init => IInv
  BY DEF Init, IInv, TypeOK, EpochExclusive, EpochsIssued, Epochs, BelieverHolds,
     LoopSteps
<1>2. IInv /\ [Next]_vars => IInv'
  BY TypeNext, EpochNext, BelieverNext DEF IInv
<1> QED BY <1>1, <1>2, PTL DEF Spec

(* Two instances never run or hold the same scheduler epoch, whatever the  *)
(* overlap of their leaderships.                                           *)
THEOREM EpochsExclusive == Spec => []EpochExclusive
<1>1. IInv => EpochExclusive
  BY DEF IInv
<1> QED BY ElectionInvariance, <1>1, PTL

(* Types of the leader key, of the election loops and of the watchdogs, in *)
(* every step of start(), close(), crash and restart of an instance.       *)
THEOREM ElectionTypes == Spec => []TypeOK
<1>1. IInv => TypeOK
  BY DEF IInv
<1> QED BY ElectionInvariance, <1>1, PTL

(* Without a lapse there is at most one leader.                            *)
THEOREM OneLeader == Spec => []SingleLeader
<1>1. IInv => SingleLeader
  BY DEF IInv, BelieverHolds, SingleLeader
<1> QED BY ElectionInvariance, <1>1, PTL
=============================================================================
