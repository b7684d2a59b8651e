------------------------ MODULE RunSubmission_proofs ------------------------
(***************************************************************************)
(* Proofs about RunAdmission and RunSubmission, for every set of runs,     *)
(* callers, workers, payloads and keys, every limit and every number of    *)
(* calls and failures.                                                     *)
(***************************************************************************)
EXTENDS RunSubmission, FiniteSetTheorems, TLAPS

(* Types of the calls in progress, beyond RunAdmission!TypeOK.             *)
Active   == {"rate", "reserve", "read", "inspect", "commit", "resolve",
             "finalize", "project", "task", "release", "done"}
Calls(rs) == [run : rs, payload : Payloads, mine : BOOLEAN, stamp : Nat,
              verdict : {"none", "rejected", "incomplete"}]
Commands == [state : {"pending"}, payload : Payloads, stamp : Nat]

CallsTyped ==
    /\ pc \in [Callers -> {"idle", "gate"} \cup Active]
    /\ call \in [Callers -> {NoCall} \cup Calls(Runs \cup {"none"})]
    /\ \A c \in Callers : pc[c] \in Active => call[c] \in Calls(Runs)
    /\ answer \in [Callers -> {"none", "rejected", "incomplete", "accepted"}]
    /\ tpc \in [Workers -> {"idle", "commit", "settle", "project", "ack"}]
    /\ trun \in [Workers -> Runs \cup {"none"}]
    /\ \A w \in Workers : tpc[w] # "idle" => trun[w] \in Runs

Fin(r) == receipt[r] \in {"FINALIZED", "SETTLED"}

(* Where admission and termination are, and what is stored by then.        *)
Admitting ==
    \A c \in Callers :
        /\ pc[c] \in {"project", "task"} => Fin(call[c].run)
        /\ pc[c] = "task" => admitted[call[c].run] = 1

Tasked == \A r \in Runs : task[r] # "none" => Fin(r)

Ended == \A r \in Runs : canon[r].state \in Terminal => canon[r].state = task[r]

Serving ==
    \A w \in Workers : tpc[w] # "idle" =>
        LET r == trun[w] IN
        /\ task[r] \in Terminal
        /\ tpc[w] # "commit" => canon[r].state \in Terminal
        /\ tpc[w] \in {"project", "ack"} => receipt[r] = "SETTLED"
        /\ tpc[w] = "ack" => ended[r] = 1

AdmittedState == \A r \in Runs : runState[r] = "admitted" => admitted[r] = 1

AckedEnded == \A r \in acked : task[r] \in Terminal

(* What holds of the stored keys alone, and of the processes with them.    *)
StoreInv ==
    /\ TypeOK /\ wire \subseteq [run : Runs, cmd : Commands]
    /\ CountersMatch /\ Tasked /\ Ended /\ AdmittedState
    /\ AckedIsSettled /\ AckedEnded /\ EventsOnce

IInv == StoreInv /\ CallsTyped /\ Admitting /\ Serving

(* Nothing that was stored is taken back.                                  *)
Forward ==
    \A r \in Runs :
        /\ Fin(r) => Fin(r)'
        /\ receipt[r] = "SETTLED" => receipt'[r] = "SETTLED"
        /\ task[r] # "none" => task'[r] # "none"
        /\ task[r] \in Terminal => task'[r] = task[r]
        /\ canon[r].state \in Terminal => canon'[r] = canon[r]
        /\ admitted[r] = 1 => admitted'[r] = 1
        /\ ended[r] = 1 => ended'[r] = 1

Counted == faults \in 0..MaxFaults /\ calls \in 0..MaxCalls

----------------------------------------------------------------------------
(* The reservations held are finitely many and are counted one by one.     *)
Held == {r \in Runs : Holds(r)}

LEMMA HeldFinite == IsFiniteSet(Held) /\ Cardinality(Held) \in Nat
  BY AdmissionAssumption, FS_Subset, FS_CardinalityType DEF Held

LEMMA HeldMore ==
    ASSUME NEW r \in Runs, ~Holds(r), Held' = Held \cup {r}
    PROVE  Cardinality(Held') = Cardinality(Held) + 1
<1>1. r \notin Held
  BY DEF Held
<1> QED BY <1>1, HeldFinite, FS_AddElement

LEMMA HeldLess ==
    ASSUME NEW r \in Runs, Holds(r), Held' = Held \ {r}
    PROVE  /\ Cardinality(Held') = Cardinality(Held) - 1
           /\ Cardinality(Held) \in Nat \ {0}
<1>1. r \in Held
  BY DEF Held
<1>2. Cardinality(Held) # 0
  BY <1>1, HeldFinite, FS_EmptySet
<1> QED BY <1>1, <1>2, HeldFinite, FS_RemoveElement

(* The counters are those of Held.                                         *)
LEMMA CountersHeld == CountersMatch <=> inflight = Cardinality(Held) /\ inflight <= Limit
  BY DEF CountersMatch, Held

----------------------------------------------------------------------------
(* Each script of the store keeps what holds of the stored keys.           *)

LEMMA SameStore ==
    ASSUME StoreInv, Counted', UNCHANGED store PROVE StoreInv' /\ Forward
<1> USE DEF store
<1>1. CountersMatch'
  BY DEF StoreInv, CountersMatch, Holds
<1> QED
  BY <1>1 DEF StoreInv, Counted, TypeOK, Tasked, Ended, AdmittedState,
     AckedIsSettled, AckedEnded, EventsOnce, Forward, Fin

LEMMA ReserveKeeps ==
    ASSUME StoreInv, Counted', NEW r \in Runs, ReserveScript(r)
    PROVE  StoreInv' /\ Forward
<1>1. CASE ~CanReserve(r)
  BY <1>1, SameStore DEF ReserveScript, store
<1>2. CASE CanReserve(r)
  <2> USE DEF StoreInv, CanReserve, ReserveScript
  <2>1. TypeOK'
    BY <1>2 DEF TypeOK, Counted, ReceiptStates
  <2>2. CountersMatch'
    <3>1. Held' = Held \cup {r} /\ ~Holds(r)
      BY <1>2 DEF Held, Holds, TypeOK
    <3>2. Cardinality(Held') = Cardinality(Held) + 1
      BY <3>1, HeldMore
    <3>3. inflight = Cardinality(Held) /\ inflight < Limit /\ inflight' = inflight + 1
      BY <1>2, CountersHeld
    <3>4. inflight' = Cardinality(Held') /\ inflight' <= Limit
      BY <3>2, <3>3, AdmissionAssumption DEF TypeOK
    <3> QED BY <3>4 DEF CountersMatch, Held
  <2>3. Forward /\ \A q \in Runs : Fin(q) <=> Fin(q)'
    BY <1>2 DEF Forward, Fin, TypeOK
  <2> QED
    BY <1>2, <2>1, <2>2, <2>3 DEF Tasked, Ended, AdmittedState, AckedIsSettled,
       AckedEnded, EventsOnce, TypeOK
<1> QED BY <1>1, <1>2

(* What a step that leaves the counters and their receipts alone owes.     *)
LEMMA SameHeld ==
    ASSUME StoreInv, inflight' = inflight,
           \A r \in Runs : Holds(r)' <=> Holds(r)
    PROVE  CountersMatch'
<1>1. Held' = Held
  BY DEF Held
<1> QED BY <1>1, CountersHeld DEF StoreInv, CountersMatch, Held

LEMMA GiveBack ==
    ASSUME StoreInv, NEW r \in Runs, Holds(r), Held' = Held \ {r},
           inflight' = inflight - 1
    PROVE  CountersMatch' /\ inflight' \in Nat
<1>1. /\ Cardinality(Held') = Cardinality(Held) - 1
      /\ Cardinality(Held) \in Nat \ {0}
  BY HeldLess
<1>2. inflight = Cardinality(Held) /\ inflight <= Limit
  BY CountersHeld DEF StoreInv
<1>3. /\ inflight' = Cardinality(Held') /\ inflight' <= Limit
      /\ inflight' \in Nat
  BY <1>1, <1>2, AdmissionAssumption
<1> QED BY <1>3 DEF CountersMatch, Held

LEMMA ReleaseKeeps ==
    ASSUME StoreInv, Counted', NEW r \in Runs, ReleaseScript(r)
    PROVE  StoreInv' /\ Forward
<1>1. CASE receipt[r] # "RESERVED"
  BY <1>1, SameStore DEF ReleaseScript, store
<1>2. CASE receipt[r] = "RESERVED"
  <2> USE DEF StoreInv, ReleaseScript
  <2>1. Held' = Held \ {r} /\ Holds(r)
    BY <1>2 DEF Held, Holds, TypeOK
  <2>2. CountersMatch' /\ inflight' \in Nat
    BY <1>2, <2>1, GiveBack
  <2>3. TypeOK'
    BY <1>2, <2>2 DEF TypeOK, Counted, ReceiptStates
  <2>4. Forward /\ \A q \in Runs : Fin(q) <=> Fin(q)'
    BY <1>2 DEF Forward, Fin, TypeOK
  <2> QED
    BY <1>2, <2>2, <2>3, <2>4 DEF Tasked, Ended, AdmittedState, AckedIsSettled,
       AckedEnded, EventsOnce, TypeOK
<1> QED BY <1>1, <1>2

(* A RUN_CREATE is committed only where there is no head.                  *)
LEMMA CommitKeeps ==
    ASSUME StoreInv, Counted', NEW r \in Runs, NEW cmd \in Commands,
           CommitScript(cmd, r), wire' \subseteq [run : Runs, cmd : Commands],
           UNCHANGED <<receipt, stamp, inflight, runState, admitted, ended,
                       task, acked>>
    PROVE  StoreInv' /\ Forward
<1> USE DEF StoreInv, CommitScript
<1>1. TypeOK'
  BY DEF TypeOK, Counted, Commands
<1>2. CountersMatch'
  BY SameHeld DEF Holds
<1>3. \A q \in Runs : canon'[q] = canon[q] \/ (canon[q].state = "none" /\ canon'[q].state = "pending")
  BY DEF Durable, Commands, TypeOK
<1>4. Forward /\ \A q \in Runs : canon'[q].state \in Terminal => canon'[q] = canon[q]
  BY <1>3 DEF Forward, Fin, Terminal
<1>5. AckedIsSettled'
  <2> SUFFICES ASSUME NEW q \in acked PROVE canon'[q].state = task[q]
    BY DEF AckedIsSettled
  <2>1. canon[q].state = task[q] /\ receipt[q] = "SETTLED" /\ q \in Runs
    BY DEF AckedIsSettled, TypeOK
  <2> QED BY <1>3, <2>1 DEF AckedEnded, Terminal
<1>6. Ended'
  BY <1>4 DEF Ended
<1>7. Tasked' /\ AdmittedState' /\ AckedEnded' /\ EventsOnce'
  BY DEF Tasked, AdmittedState, AckedEnded, EventsOnce, Fin
<1> QED BY <1>1, <1>2, <1>4, <1>5, <1>6, <1>7

LEMMA FinalizeKeeps ==
    ASSUME StoreInv, Counted', NEW r \in Runs, NEW cmd, FinalizeScript(r, cmd)
    PROVE  StoreInv' /\ Forward
<1> USE DEF StoreInv
<1>1. /\ receipt' = receipt \/ (Holds(r) /\ receipt' = [receipt EXCEPT ![r] = "FINALIZED"])
      /\ UNCHANGED <<stamp, inflight, canon, wire, runState, admitted, ended,
                     task, acked>>
  BY DEF FinalizeScript, CanFinalize
<1>2. TypeOK'
  BY <1>1 DEF TypeOK, Counted, ReceiptStates
<1>3. CountersMatch'
  BY <1>1, SameHeld DEF Holds, TypeOK
<1>4. \A q \in Runs : /\ Fin(q) => Fin(q)'
                      /\ receipt[q] = "SETTLED" => receipt'[q] = "SETTLED"
  BY <1>1 DEF Fin, TypeOK, Holds
<1>5. Forward
  BY <1>1, <1>4 DEF Forward
<1>6. AckedIsSettled' /\ Tasked'
  BY <1>1, <1>4 DEF AckedIsSettled, Tasked, TypeOK
<1> QED
  BY <1>1, <1>2, <1>3, <1>5, <1>6 DEF Ended, AdmittedState, AckedEnded, EventsOnce

(* The projection publishes RunAdmitted at most once.                      *)
LEMMA ProjectKeeps ==
    ASSUME StoreInv, Counted', NEW r \in Runs, NEW cmd, ProjectScript(r, cmd)
    PROVE  StoreInv' /\ Forward
<1> USE DEF StoreInv, ProjectScript, CanProject
<1>1. TypeOK'
  BY DEF TypeOK, Counted
<1>2. CountersMatch'
  BY SameHeld DEF Holds
<1>3. EventsOnce' /\ AdmittedState'
  BY DEF EventsOnce, AdmittedState, TypeOK
<1>4. Forward
  BY DEF Forward, Fin, TypeOK
<1> QED
  BY <1>1, <1>2, <1>3, <1>4 DEF Tasked, Ended, AckedIsSettled, AckedEnded, Fin

(* _reject_run and an expiry touch a run state no property depends on.     *)
LEMMA RunStateKeeps ==
    ASSUME StoreInv, Counted', NEW r \in Runs,
           runState' = [runState EXCEPT ![r] = runState'[r]],
           runState'[r] \in {"none", "rejected", runState[r]},
           UNCHANGED <<receipt, stamp, inflight, canon, wire, admitted, ended,
                       task, acked>>
    PROVE  StoreInv' /\ Forward
<1> USE DEF StoreInv
<1>1. TypeOK'
  BY DEF TypeOK, Counted
<1>2. CountersMatch'
  BY SameHeld DEF Holds
<1>3. AdmittedState'
  BY DEF AdmittedState, TypeOK
<1> QED
  BY <1>1, <1>2, <1>3 DEF Tasked, Ended, AckedIsSettled, AckedEnded, EventsOnce,
     Forward, Fin

LEMMA ReceiptExpires ==
    ASSUME StoreInv, Counted', NEW r \in Runs, receipt[r] = "RELEASED",
           receipt' = [receipt EXCEPT ![r] = "absent"],
           UNCHANGED <<stamp, inflight, canon, wire, runState, admitted, ended,
                       task, acked>>
    PROVE  StoreInv' /\ Forward
<1> USE DEF StoreInv
<1>1. TypeOK'
  BY DEF TypeOK, Counted, ReceiptStates
<1>2. CountersMatch'
  BY SameHeld DEF Holds, TypeOK
<1>3. Forward /\ \A q \in Runs : Fin(q) <=> Fin(q)'
  BY DEF Forward, Fin, TypeOK
<1> QED
  BY <1>1, <1>2, <1>3 DEF Tasked, Ended, AdmittedState, AckedIsSettled,
     AckedEnded, EventsOnce, TypeOK

(* The root task is seeded by an admission that is finalized, and ends     *)
(* once.                                                                   *)
LEMMA TaskKeeps ==
    ASSUME StoreInv, Counted', NEW r \in Runs,
           \/ task[r] = "none" /\ Fin(r) /\ task'[r] = "live"
           \/ task[r] = "live" /\ task'[r] \in Terminal,
           task' = [task EXCEPT ![r] = task'[r]],
           UNCHANGED <<receipt, stamp, inflight, canon, wire, runState, admitted,
                       ended, acked>>
    PROVE  StoreInv' /\ Forward
<1> USE DEF StoreInv, Terminal
<1>1. TypeOK'
  BY DEF TypeOK, Counted
<1>2. CountersMatch'
  BY SameHeld DEF Holds
<1>3. Tasked' /\ Ended' /\ Forward
  BY DEF Tasked, Ended, Forward, Fin, TypeOK
<1>4. AckedIsSettled' /\ AckedEnded'
  BY DEF AckedIsSettled, AckedEnded, TypeOK
<1> QED
  BY <1>1, <1>2, <1>3, <1>4 DEF AdmittedState, EventsOnce

(* Termination: the head ends as its task did, the receipt is settled, the *)
(* end is published, the delivery is acknowledged, each in a script of its *)
(* own.                                                                    *)
LEMMA TerminateKeeps ==
    ASSUME StoreInv, Counted', NEW r \in Runs,
           canon[r].state = "pending", task[r] \in Terminal,
           canon' = [canon EXCEPT ![r].state = task[r]],
           UNCHANGED <<receipt, stamp, inflight, wire, runState, admitted, ended,
                       task, acked>>
    PROVE  StoreInv' /\ Forward /\ canon'[r].state \in Terminal
<1> USE DEF StoreInv, Terminal
<1>1. canon[r] \in [state : {"pending", "done", "failed"}, payload : Payloads, stamp : Nat]
  BY DEF TypeOK, Absent
<1>2. TypeOK'
  BY <1>1 DEF TypeOK, Counted
<1>3. CountersMatch'
  BY SameHeld DEF Holds
<1>4. /\ canon'[r].state = task[r]
      /\ \A q \in Runs \ {r} : canon'[q] = canon[q]
  BY <1>1 DEF TypeOK
<1>5. Ended' /\ Forward
  BY <1>4 DEF Ended, Forward, Fin
<1>6. AckedIsSettled'
  BY <1>4 DEF AckedIsSettled, TypeOK
<1> QED
  BY <1>2, <1>3, <1>4, <1>5, <1>6 DEF Tasked, AdmittedState, AckedEnded, EventsOnce, Fin

LEMMA SettleKeeps ==
    ASSUME StoreInv, Counted', NEW r \in Runs, SettleScript(r)
    PROVE  /\ StoreInv' /\ Forward
           /\ receipt[r] \in {"FINALIZED", "SETTLED"} => receipt'[r] = "SETTLED"
<1>1. CASE receipt[r] # "FINALIZED"
  BY <1>1, SameStore DEF SettleScript, store
<1>2. CASE receipt[r] = "FINALIZED"
  <2> USE DEF StoreInv, SettleScript
  <2>1. Held' = Held \ {r} /\ Holds(r)
    BY <1>2 DEF Held, Holds, TypeOK
  <2>2. CountersMatch' /\ inflight' \in Nat
    BY <1>2, <2>1, GiveBack
  <2>3. TypeOK'
    BY <1>2, <2>2 DEF TypeOK, Counted, ReceiptStates
  <2>4. \A q \in Runs : receipt'[q] = IF q = r THEN "SETTLED" ELSE receipt[q]
    BY <1>2 DEF TypeOK
  <2>5. \A q \in Runs : Fin(q) => Fin(q)'
    BY <1>2, <2>4 DEF Fin
  <2>6. Forward
    BY <1>2, <2>4, <2>5 DEF Forward
  <2>7. AckedIsSettled' /\ Tasked'
    BY <1>2, <2>4, <2>5 DEF AckedIsSettled, Tasked, TypeOK
  <2> QED
    BY <1>2, <2>2, <2>3, <2>4, <2>6, <2>7 DEF Ended, AdmittedState, AckedEnded, EventsOnce
<1> QED BY <1>1, <1>2

LEMMA EndKeeps ==
    ASSUME StoreInv, Counted', NEW r \in Runs, canon[r].state \in Terminal,
           EndScript(r)
    PROVE  StoreInv' /\ Forward
<1> USE DEF StoreInv, EndScript, CanEnd, Terminal
<1>1. TypeOK'
  BY DEF TypeOK, Counted
<1>2. CountersMatch'
  BY SameHeld DEF Holds
<1>3. EventsOnce' /\ AdmittedState'
  BY DEF EventsOnce, AdmittedState, TypeOK
<1>4. Forward /\ AckedIsSettled'
  BY DEF Forward, Fin, TypeOK, AckedIsSettled
<1> QED
  BY <1>1, <1>2, <1>3, <1>4 DEF Tasked, Ended, AckedEnded, Fin

LEMMA AckKeeps ==
    ASSUME StoreInv, Counted', NEW r \in Runs,
           canon[r].state \in Terminal, receipt[r] = "SETTLED", ended[r] = 1,
           acked' = acked \cup {r},
           UNCHANGED <<receipt, stamp, inflight, canon, wire, runState, admitted,
                       ended, task>>
    PROVE  StoreInv' /\ Forward
<1> USE DEF StoreInv
<1>1. TypeOK'
  BY DEF TypeOK, Counted
<1>2. CountersMatch'
  BY SameHeld DEF Holds
<1>3. AckedIsSettled' /\ AckedEnded'
  BY DEF AckedIsSettled, AckedEnded, Ended
<1> QED
  BY <1>1, <1>2, <1>3 DEF Tasked, Ended, AdmittedState, EventsOnce, Forward, Fin

----------------------------------------------------------------------------
(* A caller's step: what the store did, and what its new place demands.    *)
LEMMA CallerMoves ==
    ASSUME IInv, StoreInv', Forward, UNCHANGED worker, NEW c \in Callers,
           NEW l \in {"idle", "gate"} \cup Active,
           NEW k \in {NoCall} \cup Calls(Runs \cup {"none"}),
           l \in Active => k \in Calls(Runs),
           pc' = [pc EXCEPT ![c] = l], call' = [call EXCEPT ![c] = k],
           answer' \in [Callers -> {"none", "rejected", "incomplete", "accepted"}],
           l \in {"project", "task"} => Fin(k.run)',
           l = "task" => admitted'[k.run] = 1
    PROVE  IInv'
<1>1. CallsTyped'
  BY DEF IInv, CallsTyped, worker
<1>2. Admitting'
  <2> SUFFICES ASSUME NEW d \in Callers
               PROVE  /\ pc'[d] \in {"project", "task"} =>
                           receipt'[call'[d].run] \in {"FINALIZED", "SETTLED"}
                      /\ pc'[d] = "task" => admitted'[call'[d].run] = 1
    BY DEF Admitting, Fin
  <2>1. CASE d = c
    BY <2>1 DEF IInv, CallsTyped, Fin
  <2>2. CASE d # c
    <3>1. pc'[d] = pc[d] /\ call'[d] = call[d]
      BY <2>2 DEF IInv, CallsTyped
    <3>2. pc[d] \in {"project", "task"} => call[d].run \in Runs
      BY DEF IInv, CallsTyped, Active, Calls
    <3> QED BY <3>1, <3>2 DEF IInv, Admitting, Forward, Fin
  <2> QED BY <2>1, <2>2
<1>3. Serving'
  BY DEF IInv, CallsTyped, Serving, Forward, worker, Terminal
<1> QED BY <1>1, <1>2, <1>3 DEF IInv

LEMMA InCall ==
    ASSUME IInv, NEW c \in Callers, pc[c] \in Active
    PROVE  /\ call[c] \in Calls(Runs) /\ call[c].run \in Runs
           /\ Command(c) \in Commands
  BY DEF IInv, CallsTyped, Calls, Command, Commands

LEMMA GotoMoves ==
    ASSUME IInv, StoreInv', Forward, UNCHANGED worker, NEW c \in Callers,
           pc[c] \in Active, NEW l \in Active, Goto(c, l), UNCHANGED <<call, answer>>,
           l \in {"project", "task"} => receipt'[call[c].run] \in {"FINALIZED", "SETTLED"},
           l = "task" => admitted'[call[c].run] = 1
    PROVE  IInv'
<1>1. call[c] \in Calls(Runs) /\ call[c].run \in Runs
  BY InCall
<1>2. /\ call[c] \in {NoCall} \cup Calls(Runs \cup {"none"})
      /\ call' = [call EXCEPT ![c] = call[c]]
      /\ answer' \in [Callers -> {"none", "rejected", "incomplete", "accepted"}]
  BY DEF IInv, CallsTyped
<1>3. l \in {"project", "task"} => Fin(call[c].run)'
  BY DEF Fin
<1> QED
  <2> DEFINE k == call[c]
  <2> HIDE DEF k
  <2> QED BY <1>1, <1>2, <1>3, CallerMoves DEF Goto

LEMMA RaiseMoves ==
    ASSUME IInv, StoreInv', Forward, UNCHANGED worker, NEW c \in Callers,
           pc[c] \in Active, NEW v \in {"none", "rejected", "incomplete", "accepted"},
           Raise(c, v)
    PROVE  IInv'
<1>1. call[c] \in Calls(Runs)
  BY InCall
<1>2. /\ call[c] \in {NoCall} \cup Calls(Runs \cup {"none"})
      /\ call' = [call EXCEPT ![c] = call[c]]
      /\ answer' \in [Callers -> {"none", "rejected", "incomplete", "accepted"}]
      /\ pc' = [pc EXCEPT ![c] = "done"]
  BY DEF IInv, CallsTyped, Raise, Goto
<1>3. "done" \in Active
  BY DEF Active
<1> QED
  <2> DEFINE k == call[c]
  <2> HIDE DEF k
  <2> QED BY <1>1, <1>2, <1>3, CallerMoves

LEMMA ReleaseMoves ==
    ASSUME IInv, StoreInv', Forward, UNCHANGED worker, NEW c \in Callers,
           pc[c] \in Active, NEW v \in {"rejected", "incomplete"},
           ReleaseAndRaise(c, v)
    PROVE  IInv'
<1>1. CASE ~call[c].mine
  BY <1>1, RaiseMoves DEF ReleaseAndRaise
<1>2. CASE call[c].mine
  <2> DEFINE k == [call[c] EXCEPT !.verdict = v]
  <2>1. call[c] \in Calls(Runs) /\ call \in [Callers -> {NoCall} \cup Calls(Runs \cup {"none"})]
    BY InCall DEF IInv, CallsTyped
  <2>2. k \in Calls(Runs) /\ k \in {NoCall} \cup Calls(Runs \cup {"none"})
    BY <2>1 DEF Calls
  <2>3. call' = [call EXCEPT ![c] = k] /\ pc' = [pc EXCEPT ![c] = "release"] /\ answer' = answer
    BY <1>2, <2>1 DEF ReleaseAndRaise, Goto
  <2>4. answer' \in [Callers -> {"none", "rejected", "incomplete", "accepted"}]
    BY <2>3 DEF IInv, CallsTyped
  <2>5. "release" \in Active
    BY DEF Active
  <2> HIDE DEF k
  <2> QED BY <2>2, <2>3, <2>4, <2>5, CallerMoves
<1> QED BY <1>1, <1>2

LEMMA FailsCounted ==
    ASSUME StoreInv, NEW f, Fails(f), calls' = calls
    PROVE  Counted'
  BY AdmissionAssumption DEF StoreInv, TypeOK, Fails, Counted

LEMMA StillCounted ==
    ASSUME StoreInv, UNCHANGED <<faults, calls>> PROVE Counted'
  BY DEF StoreInv, TypeOK, Counted

(* A worker's step, in the same way.                                       *)
LEMMA WorkerMoves ==
    ASSUME IInv, StoreInv', Forward, UNCHANGED locals, NEW w \in Workers,
           NEW l \in {"idle", "commit", "settle", "project", "ack"},
           NEW r \in Runs \cup {"none"}, TGoto(w, l, r),
           l # "idle" => /\ r \in Runs /\ task'[r] \in Terminal
                         /\ l # "commit" => canon'[r].state \in Terminal
                         /\ l \in {"project", "ack"} => receipt'[r] = "SETTLED"
                         /\ l = "ack" => ended'[r] = 1
    PROVE  IInv'
<1>1. CallsTyped'
  BY DEF IInv, CallsTyped, locals, TGoto
<1>2. Admitting'
  <2> SUFFICES ASSUME NEW d \in Callers
               PROVE  /\ pc[d] \in {"project", "task"} =>
                           receipt'[call[d].run] \in {"FINALIZED", "SETTLED"}
                      /\ pc[d] = "task" => admitted'[call[d].run] = 1
    BY DEF Admitting, Fin, locals
  <2>1. pc[d] \in {"project", "task"} => call[d].run \in Runs
    BY DEF IInv, CallsTyped, Active, Calls
  <2> QED BY <2>1 DEF IInv, Admitting, Forward, Fin
<1>3. Serving'
  <2> SUFFICES ASSUME NEW u \in Workers, tpc'[u] # "idle"
               PROVE  /\ task'[trun'[u]] \in Terminal
                      /\ tpc'[u] # "commit" => canon'[trun'[u]].state \in Terminal
                      /\ tpc'[u] \in {"project", "ack"} => receipt'[trun'[u]] = "SETTLED"
                      /\ tpc'[u] = "ack" => ended'[trun'[u]] = 1
    BY DEF Serving
  <2>1. CASE u = w
    BY <2>1 DEF IInv, CallsTyped, TGoto
  <2>2. CASE u # w
    <3>1. tpc'[u] = tpc[u] /\ trun'[u] = trun[u] /\ trun[u] \in Runs
      BY <2>2 DEF IInv, CallsTyped, TGoto
    <3> QED BY <3>1 DEF IInv, Serving, Forward, Terminal
  <2> QED BY <2>1, <2>2
<1> QED BY <1>1, <1>2, <1>3 DEF IInv

(* A step of the environment moves no process.                             *)
LEMMA NobodyMoves ==
    ASSUME IInv, StoreInv', Forward, UNCHANGED <<locals, worker>>
    PROVE  IInv'
<1>1. CallsTyped'
  BY DEF IInv, CallsTyped, locals, worker
<1>2. Admitting'
  <2> SUFFICES ASSUME NEW d \in Callers
               PROVE  /\ pc[d] \in {"project", "task"} =>
                           receipt'[call[d].run] \in {"FINALIZED", "SETTLED"}
                      /\ pc[d] = "task" => admitted'[call[d].run] = 1
    BY DEF Admitting, Fin, locals
  <2>1. pc[d] \in {"project", "task"} => call[d].run \in Runs
    BY DEF IInv, CallsTyped, Active, Calls
  <2> QED BY <2>1 DEF IInv, Admitting, Forward, Fin
<1>3. Serving'
  BY DEF IInv, CallsTyped, Serving, Forward, worker, Terminal
<1> QED BY <1>1, <1>2, <1>3 DEF IInv

----------------------------------------------------------------------------
(* One lemma per action: the invariant is kept and nothing is taken back.  *)

LEMMA CheckRateKeeps ==
    ASSUME IInv, NEW c \in Callers, CheckRate(c) PROVE IInv' /\ Forward
<1> DEFINE r == call[c].run
<1>1. pc[c] \in Active /\ UNCHANGED <<worker, faults>>
  BY DEF CheckRate, Active
<1>2. r \in Runs
  BY <1>1, InCall
<1>3. CASE Goto(c, "reserve") /\ UNCHANGED <<store, call, answer, calls>>
  <2>1. StoreInv' /\ Forward
    BY <1>1, <1>3, SameStore, StillCounted DEF IInv
  <2>2. "reserve" \in Active
    BY DEF Active
  <2> QED BY <1>1, <1>3, <2>1, <2>2, GotoMoves
<1>4. CASE /\ RejectRun(r) /\ Raise(c, "rejected")
           /\ UNCHANGED <<receipt, stamp, inflight, canon, wire, admitted,
                          ended, task, acked>>
  <2>1. Counted' /\ StoreInv
    BY <1>1, <1>4, StillCounted DEF IInv, Raise
  <2>2. /\ runState' = [runState EXCEPT ![r] = runState'[r]]
        /\ runState'[r] \in {"none", "rejected", runState[r]}
    BY <1>2, <1>4, <2>1 DEF RejectRun, StoreInv, TypeOK
  <2>3. StoreInv' /\ Forward
    BY <1>2, <1>4, <2>1, <2>2, RunStateKeeps
  <2> QED BY <1>1, <1>4, <2>3, RaiseMoves
<1> QED BY <1>3, <1>4 DEF CheckRate

LEMMA ReserveActionKeeps ==
    ASSUME IInv, NEW c \in Callers, Reserve(c) PROVE IInv' /\ Forward
<1> DEFINE r == call[c].run
<1>1. pc[c] \in Active /\ UNCHANGED <<worker, faults>> /\ StoreInv
  BY DEF Reserve, Active, IInv
<1>2. r \in Runs /\ call[c] \in Calls(Runs)
  BY <1>1, InCall
<1>3. CASE /\ ReserveScript(r)
           /\ call' = [call EXCEPT ![c].mine  = CanReserve(r),
                                   ![c].stamp = stamp'[r]]
           /\ Goto(c, "read") /\ UNCHANGED <<answer, calls>>
  <2>1. StoreInv' /\ Forward
    BY <1>1, <1>2, <1>3, ReserveKeeps, StillCounted
  <2> DEFINE k == [call[c] EXCEPT !.mine = CanReserve(r), !.stamp = stamp'[r]]
  <2>2. stamp'[r] \in Nat /\ CanReserve(r) \in BOOLEAN
    BY <1>2, <2>1 DEF StoreInv, TypeOK, CanReserve
  <2>3. k \in Calls(Runs) /\ k \in {NoCall} \cup Calls(Runs \cup {"none"})
    BY <1>2, <2>2 DEF Calls
  <2>4. call' = [call EXCEPT ![c] = k]
    BY <1>3 DEF IInv, CallsTyped
  <2>5. answer' \in [Callers -> {"none", "rejected", "incomplete", "accepted"}]
    BY <1>3 DEF IInv, CallsTyped
  <2>6. "read" \in Active /\ pc' = [pc EXCEPT ![c] = "read"]
    BY <1>3 DEF Active, Goto
  <2> HIDE DEF k
  <2> QED BY <1>1, <2>1, <2>3, <2>4, <2>5, <2>6, CallerMoves
<1>4. CASE /\ RejectRun(r) /\ Raise(c, "rejected")
           /\ UNCHANGED <<receipt, stamp, inflight, canon, wire, admitted,
                          ended, task, acked>>
  <2>1. Counted'
    BY <1>1, <1>4, StillCounted DEF Raise
  <2>2. /\ runState' = [runState EXCEPT ![r] = runState'[r]]
        /\ runState'[r] \in {"none", "rejected", runState[r]}
    BY <1>1, <1>2, <1>4, <2>1 DEF RejectRun, StoreInv, TypeOK
  <2>3. StoreInv' /\ Forward
    BY <1>1, <1>2, <1>4, <2>1, <2>2, RunStateKeeps
  <2> QED BY <1>1, <1>4, <2>3, RaiseMoves
<1>5. CASE Raise(c, "rejected") /\ UNCHANGED store
  BY <1>1, <1>5, SameStore, StillCounted, RaiseMoves DEF Raise
<1> QED BY <1>3, <1>4, <1>5 DEF Reserve

LEMMA ReadKeeps ==
    ASSUME IInv, NEW c \in Callers, Read(c) PROVE IInv' /\ Forward
<1>1. pc[c] \in Active /\ UNCHANGED <<worker, faults, calls, store>> /\ StoreInv
  BY DEF Read, Active, IInv, ReleaseAndRaise, Raise
<1>2. StoreInv' /\ Forward
  BY <1>1, SameStore, StillCounted
<1>3. \/ Goto(c, "inspect") /\ UNCHANGED <<call, answer>>
      \/ Goto(c, "finalize") /\ UNCHANGED <<call, answer>>
      \/ ReleaseAndRaise(c, "incomplete")
      \/ Raise(c, "incomplete")
  BY DEF Read
<1>4. "inspect" \in Active /\ "finalize" \in Active
  BY DEF Active
<1> QED BY <1>1, <1>2, <1>3, <1>4, GotoMoves, ReleaseMoves, RaiseMoves

LEMMA InspectKeeps ==
    ASSUME IInv, NEW c \in Callers, Inspect(c) PROVE IInv' /\ Forward
<1>1. pc[c] \in Active /\ UNCHANGED <<worker, faults, calls, store>> /\ StoreInv
  BY DEF Inspect, Active, IInv, ReleaseAndRaise, Raise
<1>2. StoreInv' /\ Forward
  BY <1>1, SameStore, StillCounted
<1>3. \/ Goto(c, "commit") /\ UNCHANGED <<call, answer>>
      \/ ReleaseAndRaise(c, "rejected")
  BY DEF Inspect
<1>4. "commit" \in Active
  BY DEF Active
<1> QED BY <1>1, <1>2, <1>3, <1>4, GotoMoves, ReleaseMoves

LEMMA CommitActionKeeps ==
    ASSUME IInv, NEW c \in Callers, Commit(c) PROVE IInv' /\ Forward
<1>1. /\ pc[c] \in Active /\ StoreInv
      /\ UNCHANGED <<worker, faults, calls, receipt, stamp, inflight, wire,
                     runState, admitted, ended, task, acked>>
  BY DEF Commit, Active, IInv, ReleaseAndRaise, Raise
<1>2. /\ call[c].run \in Runs /\ Command(c) \in Commands
      /\ wire' \subseteq [run : Runs, cmd : Commands]
      /\ CommitScript(Command(c), call[c].run)
  BY <1>1, InCall DEF Commit, StoreInv
<1>3. StoreInv' /\ Forward
  BY <1>1, <1>2, CommitKeeps, StillCounted
<1>4. \/ Goto(c, "finalize") /\ UNCHANGED <<call, answer>>
      \/ Goto(c, "resolve") /\ UNCHANGED <<call, answer>>
      \/ ReleaseAndRaise(c, "rejected")
  BY DEF Commit
<1>5. "resolve" \in Active /\ "finalize" \in Active
  BY DEF Active
<1> QED BY <1>1, <1>3, <1>4, <1>5, GotoMoves, ReleaseMoves

LEMMA ResolveKeeps ==
    ASSUME IInv, NEW c \in Callers, Resolve(c) PROVE IInv' /\ Forward
<1>1. pc[c] \in Active /\ UNCHANGED <<worker, faults, calls, store>> /\ StoreInv
  BY DEF Resolve, Active, IInv, ReleaseAndRaise, Raise
<1>2. StoreInv' /\ Forward
  BY <1>1, SameStore, StillCounted
<1>3. \/ ReleaseAndRaise(c, "rejected")
      \/ Goto(c, "finalize") /\ UNCHANGED <<call, answer>>
      \/ Raise(c, "incomplete")
  BY DEF Resolve
<1>4. "finalize" \in Active
  BY DEF Active
<1> QED BY <1>1, <1>2, <1>3, <1>4, GotoMoves, ReleaseMoves, RaiseMoves

LEMMA FinalizeActionKeeps ==
    ASSUME IInv, NEW c \in Callers, Finalize(c) PROVE IInv' /\ Forward
<1>1. /\ pc[c] \in Active /\ StoreInv /\ UNCHANGED <<worker, faults, calls>>
      /\ FinalizeScript(call[c].run, Command(c))
  BY DEF Finalize, Active, IInv, Raise
<1>2. call[c].run \in Runs
  BY <1>1, InCall
<1>3. StoreInv' /\ Forward
  BY <1>1, <1>2, FinalizeKeeps, StillCounted
<1>4. \/ /\ Goto(c, "project") /\ UNCHANGED <<call, answer>>
         /\ receipt'[call[c].run] = "FINALIZED"
      \/ Raise(c, "incomplete")
  BY <1>1, <1>2 DEF Finalize, FinalizeScript, StoreInv, TypeOK
<1>5. "project" \in Active
  BY DEF Active
<1> QED BY <1>1, <1>3, <1>4, <1>5, GotoMoves, RaiseMoves

LEMMA ProjectActionKeeps ==
    ASSUME IInv, NEW c \in Callers, Project(c) PROVE IInv' /\ Forward
<1>1. /\ pc[c] = "project" /\ pc[c] \in Active /\ StoreInv
      /\ UNCHANGED <<worker, faults, calls>>
      /\ ProjectScript(call[c].run, Command(c))
  BY DEF Project, Active, IInv, Raise
<1>2. call[c].run \in Runs
  BY <1>1, InCall
<1>3. StoreInv' /\ Forward
  BY <1>1, <1>2, ProjectKeeps, StillCounted
<1>4. receipt'[call[c].run] \in {"FINALIZED", "SETTLED"}
  BY <1>1, <1>2, <1>3 DEF IInv, Admitting, Forward, Fin
<1>5. \/ Goto(c, "task") /\ UNCHANGED <<call, answer>> /\ admitted'[call[c].run] > 0
      \/ Raise(c, "incomplete")
  BY <1>1, <1>2 DEF Project, ProjectScript, CanProject, StoreInv, TypeOK
<1>6. admitted'[call[c].run] > 0 => admitted'[call[c].run] = 1
  BY <1>2, <1>3 DEF StoreInv, EventsOnce, TypeOK
<1>7. "task" \in Active
  BY DEF Active
<1> QED BY <1>1, <1>3, <1>4, <1>5, <1>6, <1>7, GotoMoves, RaiseMoves

LEMMA ReleaseActionKeeps ==
    ASSUME IInv, NEW c \in Callers, Release(c) PROVE IInv' /\ Forward
<1>1. /\ pc[c] \in Active /\ StoreInv /\ UNCHANGED <<worker, faults, calls>>
      /\ ReleaseScript(call[c].run)
  BY DEF Release, Active, IInv, Raise
<1>2. call[c].run \in Runs
  BY <1>1, InCall
<1>3. StoreInv' /\ Forward
  BY <1>1, <1>2, ReleaseKeeps, StillCounted
<1>4. call[c].verdict \in {"none", "rejected", "incomplete"}
  BY <1>1, InCall DEF Calls
<1>5. PICK v \in {"none", "rejected", "incomplete", "accepted"} : Raise(c, v)
  BY <1>4 DEF Release
<1> QED BY <1>1, <1>3, <1>5, RaiseMoves

LEMMA TaskAdmitKeeps ==
    ASSUME IInv, NEW c \in Callers, TaskAdmit(c) PROVE IInv' /\ Forward
<1> DEFINE r == call[c].run
<1>1. /\ pc[c] = "task" /\ pc[c] \in Active /\ StoreInv
      /\ UNCHANGED <<worker, faults, calls>>
      /\ UNCHANGED <<receipt, stamp, inflight, canon, wire, runState, admitted,
                     ended, acked>>
  BY DEF TaskAdmit, Active, IInv, Raise
<1>2. r \in Runs /\ Fin(r) /\ Counted'
  BY <1>1, InCall, StillCounted DEF IInv, Admitting
<1>3. CASE /\ task[r] = "none" /\ task' = [task EXCEPT ![r] = "live"]
           /\ Raise(c, "accepted")
  <2>1. task'[r] = "live" /\ task' = [task EXCEPT ![r] = task'[r]]
    BY <1>1, <1>2, <1>3 DEF StoreInv, TypeOK
  <2>2. StoreInv' /\ Forward
    BY <1>1, <1>2, <1>3, <2>1, TaskKeeps
  <2> QED BY <1>1, <1>3, <2>2, RaiseMoves
<1>4. CASE Raise(c, "incomplete") /\ UNCHANGED task
  <2>1. UNCHANGED store
    BY <1>1, <1>4 DEF store
  <2> QED BY <1>1, <1>2, <1>4, <2>1, SameStore, RaiseMoves
<1> QED BY <1>3, <1>4 DEF TaskAdmit

LEMMA NoReplyKeeps ==
    ASSUME IInv, NEW c \in Callers, NoReply(c) PROVE IInv' /\ Forward
<1> DEFINE r == call[c].run
<1>1. /\ pc[c] \in Active /\ StoreInv /\ UNCHANGED worker
      /\ Fails("no_reply") /\ calls' = calls
  BY DEF NoReply, Active, IInv, Raise
<1>2. Counted' /\ r \in Runs /\ Command(c) \in Commands
  BY <1>1, InCall, FailsCounted
<1>3. CASE /\ Goto(c, "resolve")
           /\ CommitScript(Command(c), r) \/ UNCHANGED canon
           /\ UNCHANGED <<receipt, stamp, inflight, wire, runState, admitted,
                          ended, task, acked, call, answer, calls>>
  <2>1. CASE CommitScript(Command(c), r)
    <3>1. StoreInv' /\ Forward
      BY <1>1, <1>2, <1>3, <2>1, CommitKeeps DEF StoreInv
    <3>2. "resolve" \in Active
      BY DEF Active
    <3> QED BY <1>1, <1>3, <3>1, <3>2, GotoMoves
  <2>2. CASE UNCHANGED canon
    <3>1. UNCHANGED store
      BY <1>3, <2>2 DEF store
    <3>2. StoreInv' /\ Forward
      BY <1>1, <1>2, <3>1, SameStore
    <3>3. "resolve" \in Active
      BY DEF Active
    <3> QED BY <1>1, <1>3, <3>2, <3>3, GotoMoves
  <2> QED BY <1>3, <2>1, <2>2
<1>4. CASE /\ Raise(c, "rejected") \/ Raise(c, "incomplete")
           /\ \/ ReserveScript(r) \/ ReleaseScript(r)
              \/ FinalizeScript(r, Command(c)) \/ ProjectScript(r, Command(c))
              \/ UNCHANGED store
  <2>1. StoreInv' /\ Forward
    BY <1>1, <1>2, <1>4, ReserveKeeps, ReleaseKeeps, FinalizeKeeps, ProjectKeeps,
       SameStore
  <2> QED BY <1>1, <1>4, <2>1, RaiseMoves
<1> QED BY <1>3, <1>4 DEF NoReply

LEMMA GiveUpCommitKeeps ==
    ASSUME IInv, NEW c \in Callers, GiveUpCommit(c) PROVE IInv' /\ Forward
<1> DEFINE r == call[c].run
<1>1. /\ pc[c] \in Active /\ StoreInv /\ Fails("late")
      /\ UNCHANGED <<receipt, stamp, inflight, canon, runState, admitted, ended,
                     task, acked, call, answer, calls, worker>>
  BY DEF GiveUpCommit, Active, IInv
<1>2. Counted' /\ r \in Runs /\ Command(c) \in Commands
  BY <1>1, InCall, FailsCounted
<1>3. wire' \subseteq [run : Runs, cmd : Commands]
  BY <1>1, <1>2 DEF GiveUpCommit, StoreInv
<1>4. StoreInv' /\ Forward
  <2> USE DEF StoreInv
  <2>1. CountersMatch'
    BY <1>1, SameHeld DEF Holds
  <2> QED
    BY <1>1, <1>2, <1>3, <2>1 DEF Counted, TypeOK, Tasked, Ended, AdmittedState,
       AckedIsSettled, AckedEnded, EventsOnce, Forward, Fin
<1>5. "resolve" \in Active
  BY DEF Active
<1> QED BY <1>1, <1>4, <1>5, GotoMoves DEF GiveUpCommit

LEMMA UnavailableKeeps ==
    ASSUME IInv, NEW c \in Callers, Unavailable(c) PROVE IInv' /\ Forward
<1>1. /\ pc[c] \in Active /\ StoreInv /\ Fails("unavailable")
      /\ UNCHANGED <<store, calls, worker>>
  BY DEF Unavailable, Active, IInv, Raise, ReleaseAndRaise
<1>2. StoreInv' /\ Forward
  BY <1>1, SameStore, FailsCounted
<1> QED BY <1>1, <1>2, RaiseMoves, ReleaseMoves DEF Unavailable

(* The steps of a caller around admit leave the store alone.               *)
LEMMA TurnKeeps ==
    ASSUME IInv, UNCHANGED <<store, worker>>, Counted', NEW c \in Callers,
           NEW l \in {"idle", "gate", "rate"},
           NEW k \in {NoCall} \cup Calls(Runs \cup {"none"}),
           l = "rate" => k \in Calls(Runs),
           pc' = [pc EXCEPT ![c] = l], call' = [call EXCEPT ![c] = k],
           answer' = answer \/ answer' = [answer EXCEPT ![c] = "none"]
    PROVE  IInv' /\ Forward
<1>1. StoreInv' /\ Forward
  BY SameStore DEF IInv
<1>2. answer' \in [Callers -> {"none", "rejected", "incomplete", "accepted"}]
  BY DEF IInv, CallsTyped
<1>3. /\ l \in {"idle", "gate"} \cup Active
      /\ l \in Active => k \in Calls(Runs)
  BY DEF Active
<1> QED BY <1>1, <1>2, <1>3, CallerMoves

LEMMA CrashKeeps ==
    ASSUME IInv, NEW c \in Callers, Crash(c) PROVE IInv' /\ Forward
  BY TurnKeeps, FailsCounted DEF Crash, Goto, IInv

LEMMA ReturnKeeps ==
    ASSUME IInv, NEW c \in Callers, Return(c) PROVE IInv' /\ Forward
  BY TurnKeeps, StillCounted DEF Return, Goto, IInv

LEMMA NewCallTyped ==
    ASSUME NEW rs, NEW r \in rs, NEW p \in Payloads
    PROVE  NewCall(r, p) \in Calls(rs)
  BY DEF NewCall, Calls

LEMMA MoreCalls ==
    ASSUME StoreInv, calls < MaxCalls, calls' = calls + 1, faults' = faults
    PROVE  Counted'
  BY AdmissionAssumption DEF StoreInv, TypeOK, Counted

LEMMA StartAdmitKeeps ==
    ASSUME IInv, NEW c \in Callers, NEW r \in Runs, NEW p \in Payloads,
           StartAdmit(c, r, p), UNCHANGED <<store, worker, faults>>
    PROVE  IInv' /\ Forward
<1>1. NewCall(r, p) \in Calls(Runs) /\ NewCall(r, p) \in Calls(Runs \cup {"none"})
  BY NewCallTyped
<1>2. Counted'
  BY MoreCalls DEF StartAdmit, IInv
<1> QED BY <1>1, <1>2, TurnKeeps DEF StartAdmit, Goto

LEMMA AdmitKeeps ==
    ASSUME IInv, NEW c \in Callers, AdmitStep(c) \/ AdmitFault(c)
    PROVE  IInv' /\ Forward
  BY CheckRateKeeps, ReserveActionKeeps, ReadKeeps, InspectKeeps,
     CommitActionKeeps, ResolveKeeps, FinalizeActionKeeps, ProjectActionKeeps,
     ReleaseActionKeeps, TaskAdmitKeeps, NoReplyKeeps, GiveUpCommitKeeps,
     UnavailableKeeps, CrashKeeps DEF AdmitStep, AdmitFault

LEMMA InService ==
    ASSUME IInv, NEW w \in Workers, tpc[w] # "idle"
    PROVE  /\ trun[w] \in Runs /\ task[trun[w]] \in Terminal
           /\ tpc[w] # "commit" => canon[trun[w]].state \in Terminal
           /\ tpc[w] \in {"project", "ack"} => receipt[trun[w]] = "SETTLED"
           /\ tpc[w] = "ack" => ended[trun[w]] = 1
  BY DEF IInv, CallsTyped, Serving

LEMMA DropMoves ==
    ASSUME IInv, StoreInv', Forward, UNCHANGED locals, NEW w \in Workers, Drop(w)
    PROVE  IInv'
  BY WorkerMoves DEF Drop

LEMMA DeliverKeeps ==
    ASSUME IInv, NEW w \in Workers, NEW r \in Runs, Deliver(w, r)
    PROVE  IInv' /\ Forward
<1>1. StoreInv' /\ Forward /\ UNCHANGED <<store, locals>>
  BY SameStore, StillCounted DEF Deliver, IInv, locals
<1> QED BY <1>1, WorkerMoves DEF Deliver, store

LEMMA TerminateActionKeeps ==
    ASSUME IInv, NEW w \in Workers, Terminate(w) PROVE IInv' /\ Forward
<1> DEFINE r == trun[w]
<1>1. /\ StoreInv /\ Counted' /\ UNCHANGED locals
      /\ UNCHANGED <<receipt, stamp, inflight, wire, runState, admitted, ended,
                     task, acked>>
  BY StillCounted DEF Terminate, IInv, locals
<1>2. r \in Runs /\ task[r] \in Terminal
  BY InService DEF Terminate
<1>3. CASE canon[r].state = "pending"
  <2>1. canon' = [canon EXCEPT ![r].state = task[r]] /\ TGoto(w, "settle", r)
    BY <1>3 DEF Terminate
  <2>2. StoreInv' /\ Forward /\ canon'[r].state \in Terminal
    BY <1>1, <1>2, <1>3, <2>1, TerminateKeeps
  <2> QED BY <1>1, <1>2, <2>1, <2>2, WorkerMoves
<1>4. CASE canon[r].state # "pending"
  <2>1. Drop(w) /\ UNCHANGED store
    BY <1>1, <1>4 DEF Terminate, store
  <2> QED BY <1>1, <2>1, SameStore, DropMoves
<1> QED BY <1>3, <1>4

LEMMA SettleActionKeeps ==
    ASSUME IInv, NEW w \in Workers, Settle(w) PROVE IInv' /\ Forward
<1> DEFINE r == trun[w]
<1>1. StoreInv /\ Counted' /\ UNCHANGED locals /\ SettleScript(r)
  BY StillCounted DEF Settle, IInv, locals
<1>2. r \in Runs /\ task[r] \in Terminal /\ canon[r].state \in Terminal
  BY InService DEF Settle
<1>3. /\ StoreInv' /\ Forward
      /\ receipt[r] \in {"FINALIZED", "SETTLED"} => receipt'[r] = "SETTLED"
  BY <1>1, <1>2, SettleKeeps
<1>4. task' = task /\ canon' = canon
  BY <1>1 DEF SettleScript
<1>5. \/ TGoto(w, "project", r) /\ receipt[r] \in {"FINALIZED", "SETTLED"}
      \/ Drop(w)
  BY DEF Settle
<1> QED BY <1>1, <1>2, <1>3, <1>4, <1>5, WorkerMoves, DropMoves

LEMMA ProjectEndKeeps ==
    ASSUME IInv, NEW w \in Workers, ProjectEnd(w) PROVE IInv' /\ Forward
<1> DEFINE r == trun[w]
<1>1. StoreInv /\ Counted' /\ UNCHANGED locals /\ EndScript(r)
  BY StillCounted DEF ProjectEnd, IInv, locals
<1>2. /\ r \in Runs /\ task[r] \in Terminal /\ canon[r].state \in Terminal
      /\ receipt[r] = "SETTLED"
  BY InService DEF ProjectEnd
<1>3. StoreInv' /\ Forward
  BY <1>1, <1>2, EndKeeps
<1>4. task' = task /\ canon' = canon /\ receipt' = receipt
  BY <1>1 DEF EndScript
<1>5. \/ TGoto(w, "ack", r) /\ ended'[r] > 0
      \/ Drop(w)
  BY <1>1, <1>2 DEF ProjectEnd, EndScript, CanEnd, StoreInv, TypeOK
<1>6. ended'[r] > 0 => ended'[r] = 1
  <2>1. ended'[r] \in Nat /\ admitted'[r] \in Nat
    BY <1>2, <1>3 DEF StoreInv, TypeOK
  <2>2. ended'[r] <= admitted'[r] /\ admitted'[r] <= 1
    BY <1>2, <1>3 DEF StoreInv, EventsOnce
  <2> QED BY <2>1, <2>2
<1> QED BY <1>1, <1>2, <1>3, <1>4, <1>5, <1>6, WorkerMoves, DropMoves

LEMMA AckActionKeeps ==
    ASSUME IInv, NEW w \in Workers, Ack(w) PROVE IInv' /\ Forward
<1> DEFINE r == trun[w]
<1>1. StoreInv /\ Counted' /\ UNCHANGED locals
  BY StillCounted DEF Ack, IInv, locals
<1>2. /\ r \in Runs /\ canon[r].state \in Terminal
      /\ receipt[r] = "SETTLED" /\ ended[r] = 1
  BY InService DEF Ack
<1>3. StoreInv' /\ Forward
  BY <1>1, <1>2, AckKeeps DEF Ack
<1> QED BY <1>1, <1>3, DropMoves DEF Ack

LEMMA WorkerKeeps ==
    ASSUME IInv, NEW w \in Workers, WorkerStep(w) PROVE IInv' /\ Forward
  BY DeliverKeeps, TerminateActionKeeps, SettleActionKeeps, ProjectEndKeeps,
     AckActionKeeps DEF WorkerStep

LEMMA TaskEndsKeeps ==
    ASSUME IInv, NEW r \in Runs, TaskEnds(r) PROVE IInv' /\ Forward
<1>1. /\ task'[r] \in Terminal /\ task' = [task EXCEPT ![r] = task'[r]]
      /\ task[r] = "live" /\ StoreInv
  BY DEF TaskEnds, IInv, StoreInv, TypeOK
<1>2. StoreInv' /\ Forward /\ UNCHANGED <<locals, worker>>
  BY <1>1, TaskKeeps, StillCounted DEF TaskEnds, locals
<1> QED BY <1>2, NobodyMoves

LEMMA ExpireKeeps ==
    ASSUME IInv, NEW r \in Runs, Expire(r) PROVE IInv' /\ Forward
<1>1. /\ StoreInv /\ Counted'
      /\ UNCHANGED <<stamp, inflight, canon, wire, admitted, ended, task, acked,
                     locals, worker>>
  BY FailsCounted DEF Expire, IInv, locals
<1>2. CASE /\ receipt[r] = "RELEASED"
           /\ receipt' = [receipt EXCEPT ![r] = "absent"] /\ UNCHANGED runState
  BY <1>1, <1>2, ReceiptExpires, NobodyMoves
<1>3. CASE /\ runState' = [runState EXCEPT ![r] = "none"] /\ UNCHANGED receipt
  <2>1. /\ runState' = [runState EXCEPT ![r] = runState'[r]]
        /\ runState'[r] \in {"none", "rejected", runState[r]}
    BY <1>1, <1>3 DEF StoreInv, TypeOK
  <2> QED BY <1>1, <1>3, <2>1, RunStateKeeps, NobodyMoves
<1> QED BY <1>2, <1>3 DEF Expire

LEMMA ArriveKeeps ==
    ASSUME IInv, NEW m \in wire, Arrive(m) PROVE IInv' /\ Forward
<1>1. /\ StoreInv /\ Counted' /\ UNCHANGED <<locals, worker>>
      /\ m.run \in Runs /\ m.cmd \in Commands
      /\ wire' \subseteq [run : Runs, cmd : Commands]
  BY StillCounted DEF Arrive, IInv, StoreInv, locals
<1>2. StoreInv' /\ Forward
  BY <1>1, CommitKeeps DEF Arrive
<1> QED BY <1>1, <1>2, NobodyMoves

LEMMA WorkerCrashKeeps ==
    ASSUME IInv, NEW w \in Workers, WorkerCrash(w) PROVE IInv' /\ Forward
<1>1. StoreInv' /\ Forward /\ UNCHANGED locals
  BY SameStore, FailsCounted DEF WorkerCrash, IInv, locals
<1> QED BY <1>1, DropMoves DEF WorkerCrash

LEMMA EnvironmentKeeps ==
    ASSUME IInv, Environment PROVE IInv' /\ Forward
  BY TaskEndsKeeps, ExpireKeeps, ArriveKeeps, WorkerCrashKeeps DEF Environment

LEMMA StutterKeeps ==
    ASSUME IInv, UNCHANGED vars PROVE IInv' /\ Forward
<1>1. UNCHANGED <<store, locals, worker, faults>>
  BY DEF vars
<1>2. StoreInv' /\ Forward
  BY <1>1, SameStore, StillCounted DEF IInv, locals
<1> QED BY <1>1, <1>2, NobodyMoves

----------------------------------------------------------------------------
(* The theorems about admission and termination.                           *)

LEMMA InitHolds == Init => IInv
<1> SUFFICES ASSUME Init PROVE IInv
  OBVIOUS
<1>1. TypeOK /\ wire \subseteq [run : Runs, cmd : Commands]
  BY AdmissionAssumption DEF Init, TypeOK, ReceiptStates
<1>2. CountersMatch
  <2>1. {r \in Runs : Holds(r)} = {}
    BY DEF Init, Holds
  <2> QED BY <2>1, FS_EmptySet, AdmissionAssumption DEF CountersMatch, Init
<1>3. /\ Tasked /\ Ended /\ AdmittedState /\ AckedIsSettled /\ AckedEnded
      /\ EventsOnce /\ Admitting /\ Serving
  BY DEF Init, Tasked, Ended, AdmittedState, AckedIsSettled, AckedEnded,
     EventsOnce, Admitting, Serving, Absent, Terminal
<1>4. CallsTyped
  BY DEF Init, CallsTyped, Active
<1> QED BY <1>1, <1>2, <1>3, <1>4 DEF IInv, StoreInv

LEMMA NextKeeps == IInv /\ [Next]_vars => IInv' /\ Forward
  BY StartAdmitKeeps, AdmitKeeps, ReturnKeeps, WorkerKeeps, EnvironmentKeeps,
     StutterKeeps DEF Next

LEMMA IInvGives ==
    IInv => TypeOK /\ CountersMatch /\ EndedWasFinalized /\ AckedIsSettled /\ EventsOnce
  BY DEF IInv, StoreInv, EndedWasFinalized, Ended, Tasked, Fin, Terminal

(* What admission and termination rely on: IInv holds at every step of     *)
(* admit, of RUN_TERMINATE and of their failures.                          *)
THEOREM AdmissionInductive == Spec => []IInv
  BY InitHolds, NextKeeps, PTL DEF Spec

(* Receipts, heads, states, events and calls keep their types.             *)
THEOREM AdmissionTypes == Spec => []TypeOK
  BY AdmissionInductive, IInvGives, PTL

(* The resource script gives every reservation back exactly once, whatever *)
(* admit, its retries, its lost replies and the settlement of RUN_TERMINATE *)
(* interleave: the counters are the reservations held, within the limit.   *)
THEOREM CountersExact == Spec => []CountersMatch
  BY AdmissionInductive, IInvGives, PTL

(* RunTerminateAuthorityBinding always finds a finalized reservation to    *)
(* settle, though its commit comes before the settlement.                  *)
THEOREM EndsSettleable == Spec => []EndedWasFinalized
  BY AdmissionInductive, IInvGives, PTL

(* The XACK of a delivery comes after the RUN ended as its task did, gave  *)
(* its resources back and published its end.                               *)
THEOREM AcksAreFinal == Spec => []AckedIsSettled
  BY AdmissionInductive, IInvGives, PTL

(* The two projections publish one RunAdmitted and one end of a RUN.       *)
THEOREM PublishedOnce == Spec => []EventsOnce
  BY AdmissionInductive, IInvGives, PTL

(* No step of any caller, worker or failure takes back a finalized receipt, *)
(* a settlement, the end of a task, a terminal head or a published event.  *)
THEOREM NothingTakenBack == Spec => [][Forward]_vars
  BY AdmissionInductive, NextKeeps, PTL DEF Spec

----------------------------------------------------------------------------
(* Submission: the records of the idempotency keys, and whose runs they    *)
(* are.                                                                    *)
Records == [state : {"IN_PROGRESS", "FINAL"}, payload : Payloads, run : Runs,
            result : {"none", "rejected", "incomplete", "accepted"}]

KeysTyped ==
    /\ idem \in [Keys -> {NoRecord} \cup Records]
    /\ keyOf \in [Runs -> Keys \cup {"none"}]
    /\ key \in [Callers -> Keys \cup {"none"}]
    /\ lapsed \subseteq Keys
    /\ \A c \in Callers :
         /\ pc[c] # "idle" => key[c] \in Keys
         /\ pc[c] = "gate" => call[c] \in Calls({"none"})

(* A run is worked on, on the wire or stored only under a key.             *)
Keyed ==
    /\ \A r \in Runs : Durable(r) \/ task[r] # "none" => keyOf[r] \in Keys
    /\ \A m \in wire : keyOf[m.run] \in Keys
    /\ \A c \in Callers : pc[c] \in Active => keyOf[call[c].run] = key[c]

(* The live record of a key names the one run made for it.                 *)
Recorded ==
    /\ \A r \in Runs : keyOf[r] \in Keys \ lapsed =>
         idem[keyOf[r]] \in Records /\ idem[keyOf[r]].run = r
    /\ \A k \in Keys : idem[k] \in Records => keyOf[idem[k].run] = k

AnswersComplete ==
    \A c \in Callers : pc[c] = "done" /\ answer[c] = "accepted" =>
        LET r == call[c].run IN
        /\ receipt[r] \in {"FINALIZED", "SETTLED"}
        /\ admitted[r] = 1 /\ task[r] # "none"

KeyInv == /\ KeysTyped /\ Keyed /\ Recorded /\ AnswersComplete
          /\ AcceptedIsComplete

(* What the keys see of a step of admit: one caller moves, within its call *)
(* or out of it, and touches the head and the task of its run only.        *)
Moves(c) ==
    /\ \A d \in Callers \ {c} :
         pc'[d] = pc[d] /\ call'[d] = call[d] /\ answer'[d] = answer[d]
    /\ \/ pc'[c] = "idle"
       \/ pc[c] \in Active /\ pc'[c] \in Active /\ call'[c].run = call[c].run
    /\ pc'[c] = "done" /\ answer'[c] = "accepted" =>
         pc[c] = "task" /\ task'[call[c].run] # "none"
    /\ \A r \in Runs : \/ canon'[r] = canon[r] /\ task'[r] = task[r]
                       \/ pc[c] \in Active /\ r = call[c].run
    /\ \A m \in wire' : \/ m \in wire
                        \/ pc[c] \in Active /\ m.run = call[c].run

LEMMA ShapeOfGoto ==
    ASSUME IInv, NEW c \in Callers, pc[c] \in Active, NEW l \in Active, l # "done",
           Goto(c, l), UNCHANGED answer,
           call' = call \/ call'[c].run = call[c].run,
           \A d \in Callers \ {c} : call'[d] = call[d]
    PROVE  /\ \A d \in Callers \ {c} :
                pc'[d] = pc[d] /\ call'[d] = call[d] /\ answer'[d] = answer[d]
           /\ pc'[c] \in Active /\ call'[c].run = call[c].run /\ pc'[c] # "done"
  BY DEF IInv, CallsTyped, Goto

LEMMA ShapeOfRaise ==
    ASSUME IInv, NEW c \in Callers, pc[c] \in Active, NEW v, Raise(c, v)
    PROVE  /\ \A d \in Callers \ {c} :
                pc'[d] = pc[d] /\ call'[d] = call[d] /\ answer'[d] = answer[d]
           /\ pc'[c] = "done" /\ pc'[c] \in Active /\ call'[c].run = call[c].run
           /\ answer'[c] = v
  BY DEF IInv, CallsTyped, Raise, Goto, Active

LEMMA ShapeOfRelease ==
    ASSUME IInv, NEW c \in Callers, pc[c] \in Active, NEW v,
           v # "accepted", ReleaseAndRaise(c, v)
    PROVE  /\ \A d \in Callers \ {c} :
                pc'[d] = pc[d] /\ call'[d] = call[d] /\ answer'[d] = answer[d]
           /\ pc'[c] \in Active /\ call'[c].run = call[c].run
           /\ pc'[c] = "done" => answer'[c] # "accepted"
<1>1. CASE ~call[c].mine
  BY <1>1, ShapeOfRaise DEF ReleaseAndRaise
<1>2. CASE call[c].mine
  <2>1. /\ Goto(c, "release") /\ UNCHANGED answer
        /\ call' = [call EXCEPT ![c].verdict = v]
    BY <1>2 DEF ReleaseAndRaise
  <2>2. call[c] \in Calls(Runs) /\ call \in [Callers -> {NoCall} \cup Calls(Runs \cup {"none"})]
    BY InCall DEF IInv, CallsTyped
  <2>3. call'[c].run = call[c].run /\ \A d \in Callers \ {c} : call'[d] = call[d]
    BY <2>1, <2>2 DEF Calls
  <2>4. "release" \in Active
    BY DEF Active
  <2> QED BY <2>1, <2>3, <2>4, ShapeOfGoto
<1> QED BY <1>1, <1>2

(* A step that moves one caller along or makes it raise, and touches       *)
(* neither heads, nor tasks, nor the wire.                                 *)
LEMMA PlainMoves ==
    ASSUME IInv, NEW c \in Callers, pc[c] \in Active, UNCHANGED <<canon, task, wire>>,
           \/ \E l \in Active \ {"done"} : Goto(c, l) /\ UNCHANGED <<answer, call>>
           \/ \E v \in {"none", "rejected", "incomplete"} :
                 Raise(c, v) \/ ReleaseAndRaise(c, v)
    PROVE  Moves(c)
<1>1. CASE \E l \in Active \ {"done"} : Goto(c, l) /\ UNCHANGED <<answer, call>>
  BY <1>1, ShapeOfGoto DEF Moves, Durable
<1>2. CASE \E v \in {"none", "rejected", "incomplete"} : Raise(c, v)
  BY <1>2, ShapeOfRaise DEF Moves, Durable
<1>3. CASE \E v \in {"none", "rejected", "incomplete"} : ReleaseAndRaise(c, v)
  BY <1>3, ShapeOfRelease DEF Moves, Durable
<1> QED BY <1>1, <1>2, <1>3

LEMMA CommitTouches ==
    ASSUME StoreInv, NEW r \in Runs, NEW cmd, CommitScript(cmd, r)
    PROVE  \A q \in Runs : q # r => canon'[q] = canon[q]
  BY DEF CommitScript, StoreInv, TypeOK

LEMMA AdmitMoves ==
    ASSUME IInv, NEW c \in Callers, AdmitStep(c) \/ AdmitFault(c)
    PROVE  Moves(c)
<1> USE DEF IInv
<1>1. CASE CheckRate(c) \/ Read(c) \/ Inspect(c) \/ Resolve(c)
  <2>1. pc[c] \in Active /\ UNCHANGED <<canon, task, wire>>
    BY <1>1 DEF CheckRate, Read, Inspect, Resolve, Active, store
  <2>2. \/ \E l \in Active \ {"done"} : Goto(c, l) /\ UNCHANGED <<answer, call>>
        \/ \E v \in {"none", "rejected", "incomplete"} :
              Raise(c, v) \/ ReleaseAndRaise(c, v)
    BY <1>1 DEF CheckRate, Read, Inspect, Resolve, Active
  <2> QED BY <2>1, <2>2, PlainMoves
<1>2. CASE Reserve(c)
  <2>1. pc[c] \in Active /\ UNCHANGED <<canon, task, wire>>
    BY <1>2 DEF Reserve, ReserveScript, Active, store
  <2>2. CASE /\ call' = [call EXCEPT ![c].mine  = CanReserve(call[c].run),
                                     ![c].stamp = stamp'[call[c].run]]
             /\ Goto(c, "read") /\ UNCHANGED <<answer, calls>>
    <3>1. call[c] \in Calls(Runs) /\ call \in [Callers -> {NoCall} \cup Calls(Runs \cup {"none"})]
      BY <2>1, InCall DEF CallsTyped
    <3>2. call'[c].run = call[c].run /\ \A d \in Callers \ {c} : call'[d] = call[d]
      BY <2>2, <3>1 DEF Calls
    <3>3. "read" \in Active /\ "read" # "done"
      BY DEF Active
    <3> QED BY <2>1, <2>2, <3>2, <3>3, ShapeOfGoto DEF Moves, Durable
  <2>3. CASE Raise(c, "rejected")
    BY <2>1, <2>3, PlainMoves
  <2> QED BY <1>2, <2>2, <2>3 DEF Reserve
<1>3. CASE Commit(c)
  <2>1. /\ pc[c] \in Active /\ UNCHANGED <<task, wire>>
        /\ CommitScript(Command(c), call[c].run)
    BY <1>3 DEF Commit, Active
  <2>2. \A q \in Runs : q # call[c].run => canon'[q] = canon[q]
    BY <2>1, InCall, CommitTouches
  <2>3. CASE \/ Goto(c, "finalize") /\ UNCHANGED <<call, answer>>
             \/ Goto(c, "resolve") /\ UNCHANGED <<call, answer>>
    <3>1. "finalize" \in Active /\ "resolve" \in Active
      BY DEF Active
    <3> QED BY <2>1, <2>2, <2>3, <3>1, ShapeOfGoto DEF Moves, Durable
  <2>4. CASE ReleaseAndRaise(c, "rejected")
    BY <2>1, <2>2, <2>4, ShapeOfRelease DEF Moves, Durable
  <2> QED BY <1>3, <2>3, <2>4 DEF Commit
<1>4. CASE Finalize(c) \/ Project(c)
  <2>1. pc[c] \in Active /\ UNCHANGED <<canon, task, wire>>
    BY <1>4 DEF Finalize, FinalizeScript, Project, ProjectScript, Active
  <2>2. \/ \E l \in Active \ {"done"} : Goto(c, l) /\ UNCHANGED <<answer, call>>
        \/ Raise(c, "incomplete")
    BY <1>4 DEF Finalize, Project, Active
  <2> QED BY <2>1, <2>2, PlainMoves
<1>5. CASE Release(c)
  <2>1. pc[c] \in Active /\ UNCHANGED <<canon, task, wire>>
    BY <1>5 DEF Release, ReleaseScript, Active
  <2>2. call[c].verdict \in {"none", "rejected", "incomplete"}
    BY <2>1, InCall DEF Calls
  <2>3. \E v \in {"none", "rejected", "incomplete"} : Raise(c, v)
    BY <1>5, <2>2 DEF Release
  <2> QED BY <2>1, <2>3, PlainMoves
<1>6. CASE TaskAdmit(c)
  <2> DEFINE r == call[c].run
  <2>1. /\ pc[c] = "task" /\ pc[c] \in Active /\ r \in Runs
        /\ UNCHANGED <<canon, wire>>
    BY <1>6, InCall DEF TaskAdmit, Active
  <2>2. CASE /\ task' = [task EXCEPT ![r] = "live"] /\ Raise(c, "accepted")
    <3>1. task'[r] = "live" /\ \A q \in Runs : q # r => task'[q] = task[q]
      BY <2>1, <2>2 DEF StoreInv, TypeOK
    <3> QED BY <2>1, <2>2, <3>1, ShapeOfRaise DEF Moves, Durable
  <2>3. CASE Raise(c, "incomplete") /\ UNCHANGED task
    BY <2>1, <2>3, PlainMoves
  <2> QED BY <1>6, <2>2, <2>3 DEF TaskAdmit
<1>7. CASE NoReply(c)
  <2>1. pc[c] \in Active /\ UNCHANGED <<task, wire>>
    BY <1>7 DEF NoReply, Active, store, ReserveScript, ReleaseScript,
       FinalizeScript, ProjectScript
  <2>2. CASE pc[c] = "commit"
    <3>1. /\ Goto(c, "resolve") /\ UNCHANGED <<call, answer>>
          /\ CommitScript(Command(c), call[c].run) \/ UNCHANGED canon
      BY <1>7, <2>2 DEF NoReply
    <3>2. \A q \in Runs : q # call[c].run => canon'[q] = canon[q]
      BY <2>1, <3>1, InCall, CommitTouches
    <3>3. "resolve" \in Active
      BY DEF Active
    <3> QED BY <2>1, <3>1, <3>2, <3>3, ShapeOfGoto DEF Moves, Durable
  <2>3. CASE pc[c] # "commit"
    <3>1. UNCHANGED canon /\ (Raise(c, "rejected") \/ Raise(c, "incomplete"))
      BY <1>7, <2>3 DEF NoReply, store, ReserveScript, ReleaseScript,
         FinalizeScript, ProjectScript
    <3> QED BY <2>1, <3>1, PlainMoves
  <2> QED BY <2>2, <2>3
<1>8. CASE GiveUpCommit(c)
  <2>1. /\ pc[c] \in Active /\ UNCHANGED <<canon, task, call, answer>>
        /\ Goto(c, "resolve") /\ "resolve" \in Active
        /\ \A m \in wire' : m \in wire \/ m.run = call[c].run
    BY <1>8 DEF GiveUpCommit, Active
  <2> QED BY <2>1, ShapeOfGoto DEF Moves, Durable
<1>9. CASE Unavailable(c)
  <2>1. /\ pc[c] \in Active /\ UNCHANGED <<canon, task, wire>>
        /\ Raise(c, "rejected") \/ ReleaseAndRaise(c, "rejected")
    BY <1>9 DEF Unavailable, Active, store
  <2> QED BY <2>1, PlainMoves
<1>10. CASE Crash(c)
  BY <1>10 DEF Crash, Goto, Moves, Durable, store, CallsTyped
<1> QED
  BY <1>1, <1>2, <1>3, <1>4, <1>5, <1>6, <1>7, <1>8, <1>9, <1>10
  DEF AdmitStep, AdmitFault

(* What the keys see of the workers and of the environment.                *)
LEMMA OthersMove ==
    ASSUME IInv, Environment \/ \E w \in Workers : WorkerStep(w)
    PROVE  /\ UNCHANGED locals /\ wire' \subseteq wire
           /\ \A r \in Runs : Durable(r)' \/ task'[r] # "none" =>
                Durable(r) \/ task[r] # "none" \/ \E m \in wire : m.run = r
<1> USE DEF IInv, StoreInv
<1>1. ASSUME NEW w \in Workers, WorkerStep(w)
      PROVE  UNCHANGED <<locals, wire, task>> /\
             \A r \in Runs : Durable(r)' => Durable(r)
  <2>1. CASE Terminate(w)
    <3>1. trun[w] \in Runs
      BY <2>1, InService DEF Terminate
    <3>2. canon' # canon => canon[trun[w]].state = "pending"
      BY <2>1 DEF Terminate
    <3>3. \A q \in Runs : q # trun[w] => canon'[q] = canon[q]
      BY <2>1, <3>1 DEF Terminate, TypeOK
    <3> QED BY <2>1, <3>1, <3>2, <3>3 DEF Durable, Terminate
  <2>2. CASE ~Terminate(w)
    BY <1>1, <2>2 DEF WorkerStep, Deliver, Settle, SettleScript, ProjectEnd,
       EndScript, Ack, Durable, store
  <2> QED BY <2>1, <2>2
<1>2. ASSUME NEW r \in Runs, TaskEnds(r)
      PROVE  UNCHANGED <<locals, wire, canon>> /\
             \A q \in Runs : task'[q] # "none" => task[q] # "none"
  BY <1>2 DEF TaskEnds, TypeOK
<1>3. ASSUME NEW r \in Runs, Expire(r) PROVE UNCHANGED <<locals, wire, canon, task>>
  BY <1>3 DEF Expire
<1>4. ASSUME NEW m \in wire, Arrive(m)
      PROVE  UNCHANGED <<locals, task>> /\ wire' \subseteq wire /\
             \A q \in Runs : q # m.run => canon'[q] = canon[q]
  <2>1. m.run \in Runs
    OBVIOUS
  <2> QED BY <1>4, <2>1, CommitTouches DEF Arrive
<1>5. ASSUME NEW w \in Workers, WorkerCrash(w) PROVE UNCHANGED <<locals, wire, canon, task>>
  BY <1>5 DEF WorkerCrash, store
<1>6. CASE \E w \in Workers : WorkerStep(w)
  BY <1>1, <1>6
<1>7. CASE \E r \in Runs : TaskEnds(r)
  BY <1>2, <1>7 DEF Durable
<1>8. CASE \E m \in wire : Arrive(m)
  BY <1>4, <1>8 DEF Durable
<1>9. CASE (\E r \in Runs : Expire(r)) \/ \E w \in Workers : WorkerCrash(w)
  BY <1>3, <1>5, <1>9 DEF Durable
<1> QED BY <1>6, <1>7, <1>8, <1>9 DEF Environment

----------------------------------------------------------------------------
(* What the keys know is kept by every step.                               *)

LEMMA StillComplete ==
    ASSUME IInv, Forward, NEW r \in Runs, receipt[r] \in {"FINALIZED", "SETTLED"},
           admitted[r] = 1, task[r] # "none"
    PROVE  /\ receipt'[r] \in {"FINALIZED", "SETTLED"}
           /\ admitted'[r] = 1 /\ task'[r] # "none"
  BY DEF Forward, Fin

LEMMA AcceptedStays ==
    ASSUME IInv, KeyInv, Forward, UNCHANGED idem PROVE AcceptedIsComplete'
<1> SUFFICES ASSUME NEW k \in Keys, idem[k].state = "FINAL",
                    idem[k].result = "accepted"
             PROVE  LET r == idem[k].run IN
                    /\ receipt'[r] \in {"FINALIZED", "SETTLED"}
                    /\ admitted'[r] = 1 /\ task'[r] # "none"
  BY DEF AcceptedIsComplete
<1>1. idem[k].run \in Runs
  BY DEF KeyInv, KeysTyped, Records, NoRecord
<1> QED BY <1>1, StillComplete DEF KeyInv, AcceptedIsComplete

LEMMA KeysKeptByAdmit ==
    ASSUME IInv, KeyInv, IInv', Forward, NEW c \in Callers,
           AdmitStep(c) \/ AdmitFault(c), UNCHANGED gate
    PROVE  KeyInv'
<1>1. Moves(c) /\ UNCHANGED <<idem, keyOf, key, lapsed>>
  BY AdmitMoves DEF gate
<1> USE DEF KeyInv
<1>2. KeysTyped'
  <2>1. \A d \in Callers : /\ pc'[d] # "idle" => key[d] \in Keys
                           /\ pc'[d] = "gate" => call'[d] \in Calls({"none"})
    BY <1>1 DEF KeysTyped, Moves, Active
  <2> QED BY <1>1, <2>1 DEF KeysTyped
<1>3. pc[c] \in Active => call[c].run \in Runs /\ keyOf[call[c].run] \in Keys
  BY InCall DEF KeysTyped, Keyed, Active
<1>4. Keyed'
  <2>1. \A r \in Runs : Durable(r)' \/ task'[r] # "none" => keyOf[r] \in Keys
    BY <1>1, <1>3 DEF Moves, Keyed, Durable
  <2>2. \A m \in wire' : keyOf[m.run] \in Keys
    BY <1>1, <1>3 DEF Moves, Keyed
  <2>3. \A d \in Callers : pc'[d] \in Active => keyOf[call'[d].run] = key[d]
    BY <1>1 DEF Moves, Keyed, Active
  <2> QED BY <1>1, <2>1, <2>2, <2>3 DEF Keyed
<1>5. Recorded'
  BY <1>1 DEF Recorded
<1>6. AnswersComplete'
  <2> SUFFICES ASSUME NEW d \in Callers, pc'[d] = "done", answer'[d] = "accepted"
               PROVE  LET r == call'[d].run IN
                      /\ receipt'[r] \in {"FINALIZED", "SETTLED"}
                      /\ admitted'[r] = 1 /\ task'[r] # "none"
    BY DEF AnswersComplete
  <2>1. CASE d # c
    <3>1. pc[d] = "done" /\ answer[d] = "accepted" /\ call'[d] = call[d] /\ pc[d] \in Active
      BY <1>1, <2>1 DEF Moves, Active
    <3> QED BY <3>1, InCall, StillComplete DEF AnswersComplete
  <2>2. CASE d = c
    <3>1. /\ pc[c] = "task" /\ task'[call[c].run] # "none" /\ pc[c] \in Active
          /\ call'[c].run = call[c].run
      BY <1>1, <2>2 DEF Moves, Active
    <3>2. call[c].run \in Runs
      BY <3>1, InCall
    <3>3. receipt'[call[c].run] \in {"FINALIZED", "SETTLED"} /\ admitted'[call[c].run] = 1
      BY <3>1, <3>2 DEF IInv, Admitting, Forward, Fin
    <3> QED BY <2>2, <3>1, <3>3
  <2> QED BY <2>1, <2>2
<1> QED BY <1>1, <1>2, <1>4, <1>5, <1>6, AcceptedStays

LEMMA KeysKeptByOthers ==
    ASSUME IInv, KeyInv, IInv', Forward,
           Environment \/ \E w \in Workers : WorkerStep(w), UNCHANGED gate
    PROVE  KeyInv'
<1>1. UNCHANGED <<pc, call, answer, idem, keyOf, key, lapsed>> /\ wire' \subseteq wire
  BY OthersMove DEF gate, locals
<1> USE DEF KeyInv
<1>2. KeysTyped' /\ Recorded'
  BY <1>1 DEF KeysTyped, Recorded
<1>3. Keyed'
  BY <1>1, OthersMove DEF Keyed
<1>4. AnswersComplete'
  <2> SUFFICES ASSUME NEW d \in Callers, pc[d] = "done", answer[d] = "accepted"
               PROVE  LET r == call[d].run IN
                      /\ receipt'[r] \in {"FINALIZED", "SETTLED"}
                      /\ admitted'[r] = 1 /\ task'[r] # "none"
    BY <1>1 DEF AnswersComplete
  <2>1. call[d].run \in Runs
    BY InCall DEF Active
  <2> QED BY <2>1, StillComplete DEF AnswersComplete
<1> QED BY <1>1, <1>2, <1>3, <1>4, AcceptedStays

(* The steps on the records themselves leave the store alone.              *)
LEMMA SubmitKeeps ==
    ASSUME IInv, KeyInv, NEW c \in Callers, NEW k \in Keys, NEW p \in Payloads,
           Submit(c, k, p)
    PROVE  IInv' /\ KeyInv'
<1>1. NewCall("none", p) \in Calls({"none"}) /\ NewCall("none", p) \in Calls(Runs \cup {"none"})
  BY NewCallTyped
<1>2. Counted'
  BY MoreCalls DEF Submit, IInv
<1>3. IInv' /\ Forward
  BY <1>1, <1>2, TurnKeeps DEF Submit, Goto
<1>4. /\ \A d \in Callers \ {c} : pc'[d] = pc[d] /\ call'[d] = call[d] /\ key'[d] = key[d]
      /\ pc'[c] = "gate" /\ call'[c] = NewCall("none", p) /\ key'[c] = k
  BY DEF Submit, Goto, IInv, CallsTyped, KeyInv, KeysTyped
<1>5. UNCHANGED <<receipt, canon, admitted, task, wire, idem, keyOf, lapsed, answer>>
  BY DEF Submit, store
<1> USE DEF KeyInv
<1>6. KeysTyped'
  BY <1>1, <1>4, <1>5 DEF KeysTyped, Submit
<1>7. Keyed'
  BY <1>4, <1>5 DEF Keyed, Durable, Active
<1>8. Recorded' /\ AnswersComplete'
  BY <1>4, <1>5 DEF Recorded, AnswersComplete
<1> QED BY <1>3, <1>5, <1>6, <1>7, <1>8, AcceptedStays

(* A caller that answers leaves nothing behind but its record.             *)
LEMMA AnswerKeeps ==
    ASSUME IInv, KeyInv, NEW c \in Callers, Answer(c), Counted',
           UNCHANGED <<store, worker, lapsed>>
    PROVE  /\ IInv' /\ Forward
           /\ \A d \in Callers \ {c} : /\ pc'[d] = pc[d] /\ call'[d] = call[d]
                                       /\ key'[d] = key[d] /\ answer'[d] = answer[d]
           /\ pc'[c] = "idle"
           /\ AnswersComplete'
           /\ KeysTyped' <=> /\ idem' \in [Keys -> {NoRecord} \cup Records]
                             /\ keyOf' \in [Runs -> Keys \cup {"none"}]
           /\ UNCHANGED <<receipt, canon, admitted, task, wire, lapsed>>
<1>1. IInv' /\ Forward
  BY TurnKeeps DEF Answer, Goto
<1>2. /\ \A d \in Callers \ {c} : /\ pc'[d] = pc[d] /\ call'[d] = call[d]
                                  /\ key'[d] = key[d] /\ answer'[d] = answer[d]
      /\ pc'[c] = "idle"
  BY DEF Answer, Goto, IInv, CallsTyped, KeyInv, KeysTyped
<1>3. UNCHANGED <<receipt, canon, admitted, task, wire, lapsed>>
  BY DEF store
<1>4. AnswersComplete'
  BY <1>2, <1>3 DEF AnswersComplete, KeyInv
<1>5. key' \in [Callers -> Keys \cup {"none"}]
  BY DEF Answer, KeyInv, KeysTyped
<1>6. KeysTyped' <=> /\ idem' \in [Keys -> {NoRecord} \cup Records]
                     /\ keyOf' \in [Runs -> Keys \cup {"none"}]
  BY <1>2, <1>3, <1>5 DEF KeysTyped, KeyInv
<1> QED BY <1>1, <1>2, <1>3, <1>4, <1>6

(* A reserved key names a run nobody works on.                             *)
LEMMA KeyReserved ==
    ASSUME IInv, KeyInv, NEW k \in Keys, NEW r \in Runs, NEW p \in Payloads,
           ReserveKey(k, r, p), UNCHANGED lapsed
    PROVE  /\ idem' \in [Keys -> {NoRecord} \cup Records]
           /\ keyOf' \in [Runs -> Keys \cup {"none"}]
           /\ Recorded'
           /\ keyOf'[r] = k /\ ~Durable(r) /\ task[r] = "none"
           /\ \A q \in Runs : q # r => keyOf'[q] = keyOf[q]
           /\ \A j \in Keys : j # k => idem'[j] = idem[j]
           /\ idem'[k].state = "IN_PROGRESS"
           /\ \A d \in Callers : pc[d] \in Active => call[d].run # r
           /\ \A m \in wire : m.run # r
           /\ \A j \in Keys : idem[j] \in Records => idem[j].run # r
<1> DEFINE rec == [state |-> "IN_PROGRESS", payload |-> p, run |-> r, result |-> "none"]
<1>1. /\ rec \in Records /\ idem[k] = NoRecord /\ NoRecord \notin Records
      /\ idem' = [idem EXCEPT ![k] = rec] /\ keyOf[r] = "none"
      /\ keyOf' = [keyOf EXCEPT ![r] = k]
  BY DEF ReserveKey, Records, NoRecord
<1>2. rec.run = r /\ rec.state = "IN_PROGRESS"
  OBVIOUS
<1> HIDE DEF rec
<1> USE DEF KeyInv
<1>3. /\ idem' \in [Keys -> {NoRecord} \cup Records]
      /\ keyOf' \in [Runs -> Keys \cup {"none"}]
      /\ keyOf'[r] = k /\ \A q \in Runs : q # r => keyOf'[q] = keyOf[q]
      /\ idem'[k] = rec /\ \A j \in Keys : j # k => idem'[j] = idem[j]
  BY <1>1 DEF KeysTyped
<1>4. \A j \in Keys : idem[j] \in Records => idem[j].run \in Runs /\ idem[j].run # r
  BY <1>1, KeysAssumption DEF Recorded, Records
<1>5. Recorded'
  <2>1. ASSUME NEW q \in Runs, keyOf'[q] \in Keys \ lapsed
        PROVE  idem'[keyOf'[q]] \in Records /\ idem'[keyOf'[q]].run = q
    BY <1>1, <1>2, <1>3, <2>1 DEF Recorded
  <2>2. ASSUME NEW j \in Keys, idem'[j] \in Records
        PROVE  keyOf'[idem'[j].run] = j
    BY <1>1, <1>2, <1>3, <1>4, <2>2 DEF Recorded
  <2> QED BY <2>1, <2>2 DEF Recorded
<1>6. ~Durable(r) /\ task[r] = "none"
  BY <1>1, KeysAssumption DEF Keyed
<1>7. \A d \in Callers : pc[d] \in Active => call[d].run # r
  BY <1>1, KeysAssumption DEF Keyed, KeysTyped, Active
<1>8. \A m \in wire : m.run # r
  BY <1>1, KeysAssumption DEF Keyed
<1> QED BY <1>1, <1>2, <1>3, <1>4, <1>5, <1>6, <1>7, <1>8

(* A concluded record keeps its run and takes the caller's answer.         *)
LEMMA KeyFinalized ==
    ASSUME IInv, KeyInv, NEW c \in Callers, pc[c] = "done", FinalizeKey(c),
           UNCHANGED <<keyOf, lapsed, receipt, admitted, task>>
    PROVE  /\ idem' \in [Keys -> {NoRecord} \cup Records]
           /\ Recorded' /\ AcceptedIsComplete'
           /\ \A k \in Keys : \/ idem'[k] = idem[k]
                              \/ /\ idem[k] \in Records /\ idem'[k] \in Records
                                 /\ idem'[k].run = idem[k].run
                                 /\ idem[k].run = call[c].run
                                 /\ idem'[k].result = answer[c]
<1> DEFINE k == key[c]
<1> USE DEF KeyInv
<1>1. k \in Keys
  BY DEF KeysTyped
<1>2. CASE ~(idem[k].state = "IN_PROGRESS" /\ idem[k].run = call[c].run)
  <2>1. idem' = idem
    BY <1>2 DEF FinalizeKey
  <2> QED BY <2>1 DEF KeysTyped, Recorded, AcceptedIsComplete
<1>3. CASE idem[k].state = "IN_PROGRESS" /\ idem[k].run = call[c].run
  <2> DEFINE rec == [idem[k] EXCEPT !.state = "FINAL", !.result = answer[c]]
  <2>1. idem[k] \in Records
    BY <1>1, <1>3 DEF KeysTyped, NoRecord
  <2>2. answer[c] \in {"none", "rejected", "incomplete", "accepted"}
    BY DEF IInv, CallsTyped
  <2>3. rec \in Records /\ rec.run = idem[k].run /\ rec.result = answer[c]
    BY <2>1, <2>2 DEF Records
  <2>4. idem' = [idem EXCEPT ![k] = rec]
    BY <1>3 DEF FinalizeKey, KeysTyped
  <2> HIDE DEF rec
  <2>5. idem'[k] = rec /\ \A j \in Keys : j # k => idem'[j] = idem[j]
    BY <1>1, <2>4 DEF KeysTyped
  <2>6. idem' \in [Keys -> {NoRecord} \cup Records]
    BY <2>3, <2>4 DEF KeysTyped
  <2>7. Recorded'
    BY <1>1, <2>1, <2>3, <2>5 DEF Recorded, KeysTyped
  <2>8. AcceptedIsComplete'
    <3>1. answer[c] = "accepted" =>
            /\ receipt[rec.run] \in {"FINALIZED", "SETTLED"}
            /\ admitted[rec.run] = 1 /\ task[rec.run] # "none"
      BY <1>3, <2>3 DEF AnswersComplete
    <3> QED BY <2>3, <2>5, <3>1 DEF AcceptedIsComplete
  <2> QED BY <1>1, <1>3, <2>1, <2>3, <2>5, <2>6, <2>7, <2>8
<1> QED BY <1>2, <1>3

LEMMA GateKeeps ==
    ASSUME IInv, KeyInv, NEW c \in Callers, Gate(c) PROVE IInv' /\ KeyInv'
<1> DEFINE k == key[c]
<1>1. /\ pc[c] = "gate" /\ k \in Keys /\ call[c] \in Calls({"none"})
      /\ UNCHANGED <<store, worker, faults, lapsed>>
  BY DEF Gate, KeyInv, KeysTyped
<1>2. ASSUME NEW r \in Runs, ReserveKey(k, r, call[c].payload),
             call' = [call EXCEPT ![c].run = r], Goto(c, "rate"),
             UNCHANGED <<answer, calls, key>>
      PROVE  IInv' /\ KeyInv'
  <2> DEFINE kk == [call[c] EXCEPT !.run = r]
  <2>1. kk \in Calls(Runs) /\ kk \in Calls(Runs \cup {"none"}) /\ kk.run = r
    BY <1>1 DEF Calls
  <2>2. call' = [call EXCEPT ![c] = kk] /\ Counted'
    BY <1>1, <1>2, StillCounted DEF IInv, CallsTyped
  <2> HIDE DEF kk
  <2>3. IInv' /\ Forward
    BY <1>1, <1>2, <2>1, <2>2, TurnKeeps DEF Goto
  <2>4. call[c].payload \in Payloads
    BY <1>1 DEF Calls
  <2>5. /\ \A d \in Callers \ {c} : pc'[d] = pc[d] /\ call'[d] = call[d]
        /\ pc'[c] = "rate" /\ call'[c].run = r
    BY <1>2, <2>1, <2>2 DEF Goto, IInv, CallsTyped
  <2>6. UNCHANGED <<receipt, canon, admitted, task, wire, lapsed, key, answer>>
    BY <1>1, <1>2 DEF store
  <2>7. /\ idem' \in [Keys -> {NoRecord} \cup Records]
        /\ keyOf' \in [Runs -> Keys \cup {"none"}]
        /\ Recorded' /\ keyOf'[r] = k
        /\ \A q \in Runs : q # r => keyOf'[q] = keyOf[q]
        /\ \A j \in Keys : j # k => idem'[j] = idem[j]
        /\ idem'[k].state = "IN_PROGRESS"
        /\ \A d \in Callers : pc[d] \in Active => call[d].run # r
        /\ \A m \in wire : m.run # r
    BY <1>1, <1>2, <2>4, KeyReserved
  <2> USE DEF KeyInv
  <2>8. KeysTyped'
    BY <1>1, <2>5, <2>6, <2>7 DEF KeysTyped
  <2>9. Keyed'
    <3>1. \A q \in Runs : Durable(q)' \/ task'[q] # "none" => keyOf'[q] \in Keys
      BY <1>1, <2>6, <2>7 DEF Keyed, Durable
    <3>2. \A m \in wire' : keyOf'[m.run] \in Keys
      BY <2>6, <2>7 DEF Keyed, IInv, StoreInv
    <3>3. \A d \in Callers : pc'[d] \in Active => keyOf'[call'[d].run] = key'[d]
      BY <2>5, <2>6, <2>7, InCall DEF Keyed
    <3> QED BY <3>1, <3>2, <3>3 DEF Keyed
  <2>10. AnswersComplete'
    BY <2>5, <2>6 DEF AnswersComplete
  <2>11. AcceptedIsComplete'
    BY <2>6, <2>7 DEF AcceptedIsComplete
  <2> QED BY <2>3, <2>7, <2>8, <2>9, <2>10, <2>11
<1>3. CASE Answer(c) /\ UNCHANGED <<idem, keyOf>>
  <2>1. Counted'
    BY <1>1, <1>3, StillCounted DEF IInv, Answer
  <2>2. /\ IInv' /\ Forward /\ AnswersComplete' /\ KeysTyped'
        /\ UNCHANGED <<receipt, canon, admitted, task, wire, lapsed>>
        /\ \A d \in Callers \ {c} : pc'[d] = pc[d] /\ call'[d] = call[d] /\ key'[d] = key[d]
        /\ pc'[c] = "idle"
    BY <1>1, <1>3, <2>1, AnswerKeeps DEF KeyInv, KeysTyped
  <2>3. Keyed' /\ Recorded'
    BY <1>3, <2>2 DEF KeyInv, Keyed, Recorded, Durable, Active
  <2> QED BY <1>3, <2>2, <2>3, AcceptedStays DEF KeyInv
<1> QED BY <1>2, <1>3 DEF Gate

LEMMA ConcludeKeeps ==
    ASSUME IInv, KeyInv, NEW c \in Callers, pc[c] = "done", Answer(c), Counted',
           FinalizeKey(c) \/ UNCHANGED idem,
           UNCHANGED <<store, worker, keyOf, lapsed>>
    PROVE  IInv' /\ KeyInv'
<1>1. /\ IInv' /\ Forward /\ AnswersComplete'
      /\ UNCHANGED <<receipt, canon, admitted, task, wire>>
      /\ \A d \in Callers \ {c} : pc'[d] = pc[d] /\ call'[d] = call[d] /\ key'[d] = key[d]
      /\ pc'[c] = "idle"
      /\ idem' \in [Keys -> {NoRecord} \cup Records] => KeysTyped'
  BY AnswerKeeps DEF KeyInv, KeysTyped
<1>2. Keyed'
  BY <1>1 DEF KeyInv, Keyed, Durable, Active
<1>3. idem' \in [Keys -> {NoRecord} \cup Records] /\ Recorded' /\ AcceptedIsComplete'
  <2>1. CASE FinalizeKey(c)
    BY <1>1, <2>1, KeyFinalized
  <2>2. CASE UNCHANGED idem
    BY <1>1, <2>2, AcceptedStays DEF KeyInv, KeysTyped, Recorded
  <2> QED BY <2>1, <2>2
<1> QED BY <1>1, <1>2, <1>3 DEF KeyInv

(* A reply of the record script is lost: the key may name a run that no    *)
(* caller will admit.                                                      *)
LEMMA KeyFaultKeeps ==
    ASSUME IInv, KeyInv, NEW c \in Callers, KeyFault(c) PROVE IInv' /\ KeyInv'
<1>1. Answer(c) /\ Counted' /\ UNCHANGED <<store, worker, lapsed>>
  BY FailsCounted DEF KeyFault, Answer, IInv
<1>2. CASE pc[c] = "gate"
  <2>1. PICK r \in Runs : ReserveKey(key[c], r, call[c].payload)
    BY <1>2 DEF KeyFault
  <2>2. key[c] \in Keys /\ call[c].payload \in Payloads
    BY <1>2 DEF KeyInv, KeysTyped, Calls
  <2>3. /\ idem' \in [Keys -> {NoRecord} \cup Records]
        /\ keyOf' \in [Runs -> Keys \cup {"none"}]
        /\ Recorded' /\ keyOf'[r] = key[c]
        /\ \A q \in Runs : q # r => keyOf'[q] = keyOf[q]
        /\ \A j \in Keys : j # key[c] => idem'[j] = idem[j]
        /\ idem'[key[c]].state = "IN_PROGRESS"
        /\ \A d \in Callers : pc[d] \in Active => call[d].run # r
        /\ \A m \in wire : m.run # r
    BY <1>1, <2>1, <2>2, KeyReserved
  <2>4. /\ IInv' /\ Forward /\ AnswersComplete' /\ KeysTyped'
        /\ UNCHANGED <<receipt, canon, admitted, task, wire, lapsed>>
        /\ \A d \in Callers \ {c} : pc'[d] = pc[d] /\ call'[d] = call[d] /\ key'[d] = key[d]
        /\ pc'[c] = "idle"
    BY <1>1, <2>3, AnswerKeeps
  <2> USE DEF KeyInv
  <2>5. Keyed'
    <3>1. \A q \in Runs : Durable(q)' \/ task'[q] # "none" => keyOf'[q] \in Keys
      BY <2>2, <2>3, <2>4 DEF Keyed, Durable
    <3>2. \A m \in wire' : keyOf'[m.run] \in Keys
      BY <2>3, <2>4 DEF Keyed, IInv, StoreInv
    <3>3. \A d \in Callers : pc'[d] \in Active => keyOf'[call'[d].run] = key'[d]
      <4>1. "idle" \notin Active
        BY DEF Active
      <4> QED BY <2>3, <2>4, <4>1, InCall DEF Keyed
    <3> QED BY <3>1, <3>2, <3>3 DEF Keyed
  <2>6. AcceptedIsComplete'
    BY <2>3, <2>4 DEF AcceptedIsComplete
  <2> QED BY <2>3, <2>4, <2>5, <2>6
<1>3. CASE pc[c] = "done"
  BY <1>1, <1>3, ConcludeKeeps DEF KeyFault
<1> QED BY <1>2, <1>3 DEF KeyFault

LEMMA ExpireKeyKeeps ==
    ASSUME IInv, KeyInv, NEW k \in Keys, ExpireKey(k) PROVE IInv' /\ KeyInv'
<1>1. /\ UNCHANGED <<store, locals, worker, keyOf, key, calls>>
      /\ Fails("key_expiry")
      /\ idem' = [idem EXCEPT ![k] = NoRecord] /\ lapsed' = lapsed \cup {k}
  BY DEF ExpireKey, locals
<1>2. StoreInv' /\ Forward
  BY <1>1, SameStore, FailsCounted DEF IInv
<1>3. IInv'
  BY <1>1, <1>2, NobodyMoves
<1>4. UNCHANGED <<receipt, canon, admitted, task, wire, pc, call, answer>>
  BY <1>1 DEF store, locals
<1> USE DEF KeyInv
<1>5. NoRecord \notin Records /\ NoRecord.state # "FINAL"
  BY DEF NoRecord, Records
<1>6. KeysTyped'
  BY <1>1, <1>4 DEF KeysTyped
<1>7. Keyed' /\ AnswersComplete'
  BY <1>1, <1>4 DEF Keyed, AnswersComplete, Durable
<1>8. Recorded'
  BY <1>1, <1>5 DEF Recorded, KeysTyped
<1>9. AcceptedIsComplete'
  BY <1>1, <1>4, <1>5 DEF AcceptedIsComplete, KeysTyped
<1> QED BY <1>3, <1>6, <1>7, <1>8, <1>9

----------------------------------------------------------------------------
(* The theorems about submission.                                          *)

LEMMA SubmissionInitHolds == SubmissionInit => IInv /\ KeyInv
<1> SUFFICES ASSUME SubmissionInit PROVE IInv /\ KeyInv
  OBVIOUS
<1>1. IInv
  BY InitHolds DEF SubmissionInit
<1>2. KeysTyped /\ Keyed /\ Recorded /\ AnswersComplete /\ AcceptedIsComplete
  BY KeysAssumption DEF SubmissionInit, Init, KeysTyped, Keyed, Recorded, AnswersComplete,
     AcceptedIsComplete, NoRecord, Records, Durable, Absent, Active
<1> QED BY <1>1, <1>2 DEF KeyInv

LEMMA SubmissionNextKeeps ==
    IInv /\ KeyInv /\ [SubmissionNext]_svars => IInv' /\ KeyInv'
<1> SUFFICES ASSUME IInv, KeyInv, [SubmissionNext]_svars PROVE IInv' /\ KeyInv'
  OBVIOUS
<1>1. ASSUME NEW c \in Callers, NEW k \in Keys, NEW p \in Payloads, Submit(c, k, p)
      PROVE  IInv' /\ KeyInv'
  BY <1>1, SubmitKeeps
<1>2. ASSUME NEW c \in Callers, Gate(c) PROVE IInv' /\ KeyInv'
  BY <1>2, GateKeeps
<1>3. ASSUME NEW c \in Callers, Conclude(c) PROVE IInv' /\ KeyInv'
  <2>1. Counted'
    BY <1>3, StillCounted DEF Conclude, Answer, IInv
  <2> QED BY <1>3, <2>1, ConcludeKeeps DEF Conclude
<1>4. ASSUME NEW c \in Callers, KeyFault(c) PROVE IInv' /\ KeyInv'
  BY <1>4, KeyFaultKeeps
<1>5. ASSUME NEW c \in Callers, AdmitStep(c) \/ AdmitFault(c), UNCHANGED gate
      PROVE  IInv' /\ KeyInv'
  BY <1>5, AdmitKeeps, KeysKeptByAdmit
<1>6. ASSUME NEW w \in Workers, WorkerStep(w), UNCHANGED gate
      PROVE  IInv' /\ KeyInv'
  BY <1>6, WorkerKeeps, KeysKeptByOthers
<1>7. ASSUME Environment, UNCHANGED gate PROVE IInv' /\ KeyInv'
  BY <1>7, EnvironmentKeeps, KeysKeptByOthers
<1>8. ASSUME NEW k \in Keys, ExpireKey(k) PROVE IInv' /\ KeyInv'
  BY <1>8, ExpireKeyKeeps
<1>9. CASE UNCHANGED svars
  <2>1. UNCHANGED <<vars, idem, keyOf, key, lapsed>>
    BY <1>9 DEF svars
  <2>2. IInv'
    BY <2>1, StutterKeeps
  <2>3. UNCHANGED <<receipt, canon, admitted, task, wire, pc, call, answer>>
    BY <2>1 DEF vars, store, locals
  <2> QED BY <2>1, <2>2, <2>3 DEF KeyInv, KeysTyped, Keyed, Recorded, AnswersComplete,
             AcceptedIsComplete, Durable
<1> QED BY <1>1, <1>2, <1>3, <1>4, <1>5, <1>6, <1>7, <1>8, <1>9 DEF SubmissionNext

LEMMA KeyInvGives == KeyInv => OneRunPerKey /\ AcceptedIsComplete
  BY DEF KeyInv, OneRunPerKey, Keyed, Recorded

(* Every key's live record names the one run made for it, and no run is    *)
(* worked on, on the wire or stored without a key: what the coordinator    *)
(* relies on when it answers a retry from the record alone.                *)
THEOREM SubmissionInductive == SubmissionSpec => [](IInv /\ KeyInv)
  BY SubmissionInitHolds, SubmissionNextKeeps, PTL DEF SubmissionSpec

(* RunSubmissionCoordinator.submit makes one durable run of a key for as   *)
(* long as its record lives, whatever fails.                               *)
THEOREM KeyMakesOneRun == SubmissionSpec => []OneRunPerKey
  BY SubmissionInductive, KeyInvGives, PTL

(* A result "accepted" is stored only for a run that is admitted, has its  *)
(* reservation finalized or settled and its root task seeded.              *)
THEOREM AcceptedRunsComplete == SubmissionSpec => []AcceptedIsComplete
  BY SubmissionInductive, KeyInvGives, PTL

----------------------------------------------------------------------------
(* The stored result.  A run has one caller, who knows that the run has    *)
(* not started, or that it is durable, whatever its calls came to.         *)
Unstarted(r) == ~Fin(r) /\ admitted[r] = 0 /\ task[r] = "none"

OneCaller ==
    /\ \A r \in Runs : keyOf[r] = "none" => Unstarted(r)
    /\ \A c, d \in Callers :
         pc[c] \in Active /\ pc[d] \in Active /\ call[c].run = call[d].run => c = d
    /\ \A c \in Callers, k \in Keys :
         pc[c] \in Active /\ idem[k].state = "FINAL" => call[c].run # idem[k].run

Knows(c) ==
    LET r == call[c].run IN
    /\ pc[c] \in {"rate", "reserve", "read", "inspect", "commit", "resolve",
                  "finalize", "release"} => Unstarted(r)
    /\ pc[c] \in {"finalize", "project", "task"} => Durable(r)
    /\ pc[c] = "release" => call[c].verdict = "rejected" \/ Durable(r)
    /\ pc[c] = "done" => IF answer[c] = "rejected" THEN Unstarted(r) ELSE Durable(r)

ResultInv ==
    /\ OneCaller /\ StoredResultStands
    /\ \A c \in Callers : pc[c] \in Active => Knows(c)

(* What a step leaves as it was: runs that have not started, unless they   *)
(* are the caller's own, and durable runs.                                 *)
Spares(r) == (Unstarted(r) => Unstarted(r)') /\ (Durable(r) => Durable(r)')

LEMMA SparesSame ==
    ASSUME NEW r, UNCHANGED <<receipt, admitted, task, canon>>
    PROVE  Spares(r)
  BY DEF Spares, Unstarted, Fin, Durable

LEMMA CommitSpares ==
    ASSUME IInv, NEW c \in Callers, pc[c] \in Active,
           CommitScript(Command(c), call[c].run)
    PROVE  /\ \A r \in Runs : Durable(r) => Durable(r)'
           /\ canon'[call[c].run].state # "none"
<1>1. call[c].run \in Runs /\ Command(c) \in Commands
  BY InCall
<1>2. Command(c).state = "pending"
  BY <1>1 DEF Commands
<1> QED BY <1>1, <1>2 DEF CommitScript, Durable, IInv, StoreInv, TypeOK

LEMMA AdmitSpares ==
    ASSUME IInv, NEW c \in Callers, AdmitStep(c) \/ AdmitFault(c)
    PROVE  /\ \A r \in Runs : Durable(r) => Durable(r)'
           /\ \A r \in Runs : Spares(r) \/ (pc[c] \in Active /\ r = call[c].run)
<1> USE DEF IInv, StoreInv
<1>1. CASE \/ CheckRate(c) \/ Read(c) \/ Inspect(c) \/ Resolve(c)
           \/ GiveUpCommit(c) \/ Unavailable(c) \/ Crash(c)
  <2>1. UNCHANGED <<receipt, admitted, task, canon>>
    BY <1>1 DEF CheckRate, Read, Inspect, Resolve, GiveUpCommit, Unavailable,
       Crash, store
  <2> QED BY <2>1, SparesSame DEF Spares
<1>2. CASE Commit(c) \/ (NoReply(c) /\ pc[c] = "commit")
  <2>1. /\ pc[c] \in Active /\ UNCHANGED <<receipt, admitted, task>>
        /\ CommitScript(Command(c), call[c].run) \/ UNCHANGED canon
    BY <1>2 DEF Commit, NoReply, Active
  <2>2. \A r \in Runs : Durable(r) => Durable(r)'
    BY <2>1, CommitSpares DEF Durable
  <2> QED BY <2>1, <2>2 DEF Spares, Unstarted, Fin
<1>3. CASE \/ Reserve(c) \/ Finalize(c) \/ Project(c) \/ Release(c) \/ TaskAdmit(c)
           \/ (NoReply(c) /\ pc[c] # "commit")
  <2>1. /\ pc[c] \in Active /\ canon' = canon
        /\ \/ UNCHANGED <<receipt, admitted, task>>
           \/ ReserveScript(call[c].run) \/ ReleaseScript(call[c].run)
           \/ FinalizeScript(call[c].run, Command(c))
           \/ ProjectScript(call[c].run, Command(c))
           \/ /\ task' = [task EXCEPT ![call[c].run] = "live"]
              /\ UNCHANGED <<receipt, admitted>>
    BY <1>3 DEF Reserve, Finalize, Project, Release, TaskAdmit, NoReply, Active,
       store, ReserveScript, ReleaseScript, FinalizeScript, ProjectScript
  <2>2. \A r \in Runs : r = call[c].run \/ (receipt'[r] = receipt[r] /\
             admitted'[r] = admitted[r] /\ task'[r] = task[r])
    BY <2>1 DEF ReserveScript, ReleaseScript, FinalizeScript, ProjectScript, TypeOK
  <2> QED BY <2>1, <2>2 DEF Spares, Unstarted, Fin, Durable
<1> QED BY <1>1, <1>2, <1>3 DEF AdmitStep, AdmitFault

LEMMA KnowsOnGoto ==
    ASSUME IInv, NEW c \in Callers, pc[c] \in Active, NEW l, Goto(c, l),
           UNCHANGED <<call, answer>>
    PROVE  pc'[c] = l /\ call'[c] = call[c] /\ answer'[c] = answer[c]
  BY DEF IInv, CallsTyped, Goto

LEMMA KnowsOnRejected ==
    ASSUME IInv, NEW c \in Callers, pc[c] \in Active, NEW r, call[c].run = r,
           Unstarted(r)', NEW v \in {"rejected", "incomplete"},
           v = "incomplete" => Durable(r)',
           Raise(c, v) \/ ReleaseAndRaise(c, v)
    PROVE  Knows(c)'
<1>1. CASE Raise(c, v)
  <2>1. pc'[c] = "done" /\ call' = call /\ answer'[c] = v
    BY <1>1, ShapeOfRaise DEF Raise
  <2> QED BY <2>1 DEF Knows, Durable, Unstarted, Fin
<1>2. CASE ReleaseAndRaise(c, v) /\ call[c].mine
  <2>1. /\ Goto(c, "release") /\ UNCHANGED answer
        /\ call' = [call EXCEPT ![c].verdict = v]
    BY <1>2 DEF ReleaseAndRaise
  <2>2. call[c] \in Calls(Runs) /\ call \in [Callers -> {NoCall} \cup Calls(Runs \cup {"none"})]
    BY InCall DEF IInv, CallsTyped
  <2>3. call'[c].run = call[c].run /\ call'[c].verdict = v
    BY <2>1, <2>2 DEF Calls
  <2>4. pc'[c] = "release"
    BY <2>1 DEF Goto, IInv, CallsTyped
  <2> QED BY <2>3, <2>4 DEF Knows, Durable, Unstarted, Fin
<1> QED BY <1>1, <1>2 DEF ReleaseAndRaise

LEMMA KnowsOnDurable ==
    ASSUME IInv, NEW c \in Callers, pc[c] \in Active, NEW r, call[c].run = r,
           Durable(r)', NEW v, v # "rejected", Raise(c, v)
    PROVE  Knows(c)'
<1>1. pc'[c] = "done" /\ call' = call /\ answer'[c] = v
  BY ShapeOfRaise DEF Raise
<1> QED BY <1>1 DEF Knows, Durable

(* A caller that knew before a step of admit knows after it.               *)
LEMMA AdmitKnows ==
    ASSUME IInv, NEW c \in Callers, pc[c] \in Active => Knows(c),
           AdmitStep(c) \/ AdmitFault(c), pc'[c] \in Active
    PROVE  Knows(c)'
<1>1. pc[c] \in Active
  BY AdmitMoves DEF Moves, Active
<1> PICK r \in Runs : call[c].run = r
  BY <1>1, InCall
<1>2. /\ Knows(c) /\ call[c].verdict \in {"none", "rejected", "incomplete"}
      /\ Command(c).state = "pending"
  BY <1>1, InCall DEF Calls, Commands
<1>3. Durable(r) => Durable(r)'
  BY <1>2, AdmitSpares
<1>4. ASSUME Unstarted(r)', NEW l \in {"reserve", "read", "inspect", "commit",
                                       "resolve", "finalize"},
             Goto(c, l), UNCHANGED <<call, answer>>, l = "finalize" => Durable(r)'
      PROVE  Knows(c)'
  BY <1>1, <1>4, KnowsOnGoto DEF Knows, Durable, Unstarted, Fin
<1>5. ASSUME Unstarted(r)', NEW v \in {"rejected", "incomplete"},
             Raise(c, v) \/ ReleaseAndRaise(c, v), v = "incomplete" => Durable(r)'
      PROVE  Knows(c)'
  BY <1>1, <1>5, KnowsOnRejected
<1>6. CASE CheckRate(c) \/ Inspect(c) \/ Unavailable(c) \/ GiveUpCommit(c)
  <2>1. Unstarted(r)'
    BY <1>2, <1>6 DEF CheckRate, Inspect, Unavailable, GiveUpCommit, Knows,
       Unstarted, Fin, store
  <2> QED BY <1>4, <1>5, <1>6, <2>1 DEF CheckRate, Inspect, Unavailable, GiveUpCommit
<1>7. CASE Reserve(c)
  <2>1. Unstarted(r)'
    BY <1>2, <1>7 DEF Reserve, ReserveScript, Knows, Unstarted, Fin, store, IInv,
       StoreInv, TypeOK
  <2>2. CASE Goto(c, "read")
    <3>1. pc'[c] = "read"
      BY <2>2 DEF Goto, IInv, CallsTyped
    <3>2. call'[c].run = r
      BY <1>7, AdmitMoves, <3>1 DEF Moves, AdmitStep
    <3> QED BY <2>1, <3>1, <3>2 DEF Knows, Unstarted, Fin
  <2> QED BY <1>5, <1>7, <2>1, <2>2 DEF Reserve
<1>8. CASE Read(c) \/ Resolve(c)
  <2>1. Unstarted(r)' /\ canon' = canon
    BY <1>2, <1>8 DEF Read, Resolve, Knows, Unstarted, Fin, store
  <2>2. /\ canon[r] = Command(c) => Durable(r)'
        /\ canon[r].state \in {"pending"} \cup Terminal => Durable(r)'
    BY <1>2, <2>1 DEF Durable, Terminal
  <2>3. CASE Read(c)
    BY <1>4, <1>5, <2>1, <2>2, <2>3 DEF Read
  <2>4. CASE Resolve(c)
    BY <1>3, <1>4, <1>5, <2>1, <2>2, <2>4 DEF Resolve
  <2> QED BY <1>8, <2>3, <2>4
<1>9. CASE Commit(c)
  <2>1. Unstarted(r)'
    BY <1>2, <1>9 DEF Commit, Knows, Unstarted, Fin
  <2>2. Durable(r)'
    BY <1>1, <1>9, CommitSpares DEF Commit, Durable
  <2> QED BY <1>4, <1>5, <1>9, <2>1, <2>2 DEF Commit
<1>10. CASE Finalize(c) \/ Project(c) \/ TaskAdmit(c)
  <2>1. Durable(r)'
    BY <1>2, <1>3, <1>10 DEF Finalize, Project, TaskAdmit, Knows
  <2>2. CASE Raise(c, "incomplete") \/ Raise(c, "accepted")
    BY <1>1, <2>1, <2>2, KnowsOnDurable
  <2>3. CASE (Goto(c, "project") \/ Goto(c, "task")) /\ UNCHANGED <<call, answer>>
    BY <1>1, <2>1, <2>3, KnowsOnGoto DEF Knows, Durable
  <2> QED BY <1>10, <2>2, <2>3 DEF Finalize, Project, TaskAdmit
<1>11. CASE Release(c)
  <2>1. Unstarted(r)'
    BY <1>2, <1>11 DEF Release, ReleaseScript, Knows, Unstarted, Fin, IInv,
       StoreInv, TypeOK
  <2>2. CASE Raise(c, "rejected")
    BY <1>5, <2>1, <2>2
  <2>3. CASE Raise(c, call[c].verdict) /\ call[c].verdict # "rejected"
    <3>1. Durable(r)'
      BY <1>2, <1>3, <1>11, <2>3 DEF Release, Knows
    <3> QED BY <1>1, <2>3, <3>1, KnowsOnDurable
  <2> QED BY <1>11, <2>2, <2>3 DEF Release
<1>12. CASE NoReply(c)
  <2>1. CASE pc[c] \in {"reserve", "release", "read", "commit"}
    <3>1. Unstarted(r)'
      BY <1>2, <1>12, <2>1 DEF NoReply, ReserveScript, ReleaseScript, Knows,
         Unstarted, Fin, store, IInv, StoreInv, TypeOK
    <3> QED BY <1>4, <1>5, <1>12, <2>1, <3>1 DEF NoReply
  <2>2. CASE pc[c] \in {"finalize", "project"}
    <3>1. Durable(r)' /\ Raise(c, "incomplete")
      BY <1>2, <1>3, <1>12, <2>2 DEF NoReply, Knows
    <3> QED BY <1>1, <3>1, KnowsOnDurable
  <2> QED BY <1>12, <2>1, <2>2 DEF NoReply
<1>13. CASE Crash(c)
  BY <1>13 DEF Crash, Goto, IInv, CallsTyped, Active
<1> QED
  BY <1>6, <1>7, <1>8, <1>9, <1>10, <1>11, <1>12, <1>13 DEF AdmitStep, AdmitFault

(* What a caller knows outlasts the steps that spare its run.              *)
LEMMA StillKnows ==
    ASSUME NEW c \in Callers, Knows(c), pc'[c] = pc[c], call'[c] = call[c],
           answer'[c] = answer[c], Spares(call[c].run)
    PROVE  Knows(c)'
  BY DEF Knows, Spares, Unstarted, Fin, Durable

LEMMA FinalRun ==
    ASSUME KeyInv, NEW k \in Keys, idem[k].state = "FINAL"
    PROVE  idem[k] \in Records /\ idem[k].run \in Runs
  BY DEF KeyInv, KeysTyped, Records, NoRecord

(* So does what is stored of the run of a record.                          *)
LEMMA StillStands ==
    ASSUME KeyInv, StoredResultStands, \A k \in Keys : idem'[k].state = "FINAL" =>
             idem'[k] = idem[k] /\ Spares(idem[k].run)
    PROVE  StoredResultStands'
<1> SUFFICES ASSUME NEW k \in Keys, idem'[k].state = "FINAL"
             PROVE  IF idem[k].result = "rejected"
                      THEN Unstarted(idem[k].run)' ELSE Durable(idem[k].run)'
  BY DEF StoredResultStands, Unstarted, Fin, Durable
<1> QED BY DEF StoredResultStands, Spares, Unstarted, Fin

LEMMA ResultKeptByAdmit ==
    ASSUME IInv, KeyInv, ResultInv, NEW c \in Callers,
           AdmitStep(c) \/ AdmitFault(c), UNCHANGED gate
    PROVE  ResultInv'
<1>1. Moves(c) /\ UNCHANGED <<idem, keyOf>>
  BY AdmitMoves DEF gate
<1>2. \A r \in Runs : Spares(r) \/ (pc[c] \in Active /\ r = call[c].run)
  BY AdmitSpares
<1>3. \A d \in Callers : pc'[d] \in Active => pc[d] \in Active /\ call'[d].run = call[d].run
  BY <1>1 DEF Moves, Active
<1>4. pc[c] \in Active => keyOf[call[c].run] # "none"
  BY KeysAssumption DEF KeyInv, Keyed, KeysTyped, Active
<1>5. OneCaller'
  <2>1. ASSUME NEW r \in Runs, keyOf[r] = "none" PROVE Unstarted(r)'
    BY <1>2, <1>4, <2>1 DEF ResultInv, OneCaller, Spares
  <2> QED BY <1>1, <1>3, <2>1 DEF ResultInv, OneCaller
<1>6. StoredResultStands'
  <2>1. ASSUME NEW k \in Keys, idem[k].state = "FINAL" PROVE Spares(idem[k].run)
    BY <1>2, <2>1, FinalRun DEF ResultInv, OneCaller
  <2> QED BY <1>1, <2>1, StillStands DEF ResultInv
<1>7. ASSUME NEW d \in Callers, pc'[d] \in Active PROVE Knows(d)'
  <2>1. CASE d = c
    BY <1>7, <2>1, AdmitKnows DEF ResultInv
  <2>2. CASE d # c
    <3>1. pc[d] \in Active /\ pc'[d] = pc[d] /\ call'[d] = call[d] /\ answer'[d] = answer[d]
      BY <1>1, <1>7, <2>2 DEF Moves
    <3>2. Spares(call[d].run)
      BY <1>2, <2>2, <3>1, InCall DEF ResultInv, OneCaller
    <3> QED BY <3>1, <3>2, StillKnows DEF ResultInv
  <2> QED BY <2>1, <2>2
<1> QED BY <1>5, <1>6, <1>7 DEF ResultInv

(* Workers serve runs that have started, and a commit that arrives late    *)
(* only makes its run durable.                                             *)
LEMMA OthersSpare ==
    ASSUME IInv, Environment \/ \E w \in Workers : WorkerStep(w)
    PROVE  \A r \in Runs : Spares(r)
<1> USE DEF IInv, StoreInv
<1>1. ASSUME NEW w \in Workers, WorkerStep(w) PROVE \A r \in Runs : Spares(r)
  <2>1. CASE Terminate(w)
    <3>1. trun[w] \in Runs /\ task[trun[w]] \in Terminal
      BY <2>1, InService DEF Terminate
    <3>2. UNCHANGED <<receipt, admitted, task>>
      BY <2>1 DEF Terminate
    <3>3. CASE canon[trun[w]].state = "pending"
      <4>1. canon' = [canon EXCEPT ![trun[w]].state = task[trun[w]]]
        BY <2>1, <3>3 DEF Terminate
      <4>2. canon[trun[w]] \in [state : {"pending", "done", "failed"},
                               payload : Payloads, stamp : Nat]
        BY <3>1, <3>3 DEF TypeOK, Absent, Terminal
      <4>3. canon'[trun[w]].state = task[trun[w]] /\ \A q \in Runs : q # trun[w] => canon'[q] = canon[q]
        BY <3>1, <4>1, <4>2 DEF TypeOK
      <4> QED BY <3>1, <3>2, <4>3 DEF Spares, Unstarted, Fin, Durable, Terminal
    <3>4. CASE canon[trun[w]].state # "pending"
      BY <2>1, <3>4, SparesSame DEF Terminate
    <3> QED BY <3>3, <3>4
  <2>2. CASE Settle(w)
    <3>1. trun[w] \in Runs /\ UNCHANGED <<admitted, task, canon>>
      BY <2>2, InService DEF Settle, SettleScript
    <3>2. \A r \in Runs : ~Fin(r) => receipt'[r] = receipt[r]
      BY <2>2, <3>1 DEF Settle, SettleScript, Fin, TypeOK
    <3> QED BY <3>1, <3>2 DEF Spares, Unstarted, Fin, Durable
  <2>3. CASE ~Terminate(w) /\ ~Settle(w)
    <3>1. UNCHANGED <<receipt, admitted, task, canon>>
      BY <1>1, <2>3 DEF WorkerStep, Deliver, ProjectEnd, EndScript, Ack, store
    <3> QED BY <3>1, SparesSame
  <2> QED BY <2>1, <2>2, <2>3
<1>2. ASSUME NEW q \in Runs, TaskEnds(q) PROVE \A r \in Runs : Spares(r)
  BY <1>2 DEF TaskEnds, TypeOK, Spares, Unstarted, Fin, Durable
<1>3. ASSUME NEW q \in Runs, Expire(q) PROVE \A r \in Runs : Spares(r)
  BY <1>3 DEF Expire, TypeOK, Spares, Unstarted, Fin, Durable
<1>4. ASSUME NEW m \in wire, Arrive(m) PROVE \A r \in Runs : Spares(r)
  <2>1. m.run \in Runs /\ m.cmd.state = "pending"
    BY DEF Commands
  <2> QED BY <1>4, <2>1 DEF Arrive, CommitScript, TypeOK, Spares, Unstarted, Fin, Durable
<1>5. ASSUME NEW w \in Workers, WorkerCrash(w) PROVE \A r \in Runs : Spares(r)
  <2>1. UNCHANGED <<receipt, admitted, task, canon>>
    BY <1>5 DEF WorkerCrash, store
  <2> QED BY <2>1, SparesSame
<1> QED BY <1>1, <1>2, <1>3, <1>4, <1>5 DEF Environment

LEMMA ResultKeptByOthers ==
    ASSUME IInv, KeyInv, ResultInv,
           Environment \/ \E w \in Workers : WorkerStep(w), UNCHANGED gate
    PROVE  ResultInv'
<1>1. UNCHANGED <<pc, call, answer, idem, keyOf>>
  BY OthersMove DEF gate, locals
<1>2. OneCaller'
  <2>1. \A r \in Runs : keyOf[r] = "none" => Unstarted(r)'
    BY OthersSpare DEF ResultInv, OneCaller, Spares
  <2> QED BY <1>1, <2>1 DEF ResultInv, OneCaller
<1>3. StoredResultStands'
  BY <1>1, FinalRun, OthersSpare, StillStands DEF ResultInv
<1>4. ASSUME NEW d \in Callers, pc[d] \in Active PROVE Knows(d)'
  BY <1>1, <1>4, InCall, OthersSpare, StillKnows DEF ResultInv
<1> QED BY <1>1, <1>2, <1>3, <1>4 DEF ResultInv

(* The steps of a caller around admit: others know what they knew.         *)
LEMMA ResultAround ==
    ASSUME IInv, KeyInv, ResultInv, NEW c \in Callers, UNCHANGED store,
           \A d \in Callers \ {c} :
             pc'[d] = pc[d] /\ call'[d] = call[d] /\ answer'[d] = answer[d]
    PROVE  /\ \A d \in Callers \ {c} : pc'[d] \in Active => Knows(d)'
           /\ \A r : Spares(r) /\ (Unstarted(r) <=> Unstarted(r)')
<1>1. UNCHANGED <<receipt, admitted, canon, task>>
  BY DEF store
<1>2. \A r : Spares(r) /\ (Unstarted(r) <=> Unstarted(r)')
  BY <1>1, SparesSame DEF Unstarted, Fin
<1>3. ASSUME NEW d \in Callers \ {c}, pc'[d] \in Active PROVE Knows(d)'
  BY <1>2, <1>3, StillKnows DEF ResultInv
<1> QED BY <1>2, <1>3

LEMMA ResultKeptBySubmit ==
    ASSUME IInv, KeyInv, ResultInv, NEW c \in Callers, NEW k \in Keys,
           NEW p \in Payloads, Submit(c, k, p)
    PROVE  ResultInv'
<1>1. /\ \A d \in Callers \ {c} :
           pc'[d] = pc[d] /\ call'[d] = call[d] /\ answer'[d] = answer[d]
      /\ pc'[c] = "gate" /\ "gate" \notin Active
      /\ UNCHANGED <<store, idem, keyOf>>
  BY DEF Submit, Goto, IInv, CallsTyped, Active
<1>2. /\ \A d \in Callers \ {c} : pc'[d] \in Active => Knows(d)'
      /\ \A r : Spares(r) /\ (Unstarted(r) <=> Unstarted(r)')
  BY <1>1, ResultAround
<1>3. OneCaller'
  BY <1>1, <1>2 DEF ResultInv, OneCaller
<1>4. StoredResultStands'
  BY <1>1, <1>2, StillStands DEF ResultInv
<1> QED BY <1>1, <1>2, <1>3, <1>4 DEF ResultInv

(* Whoever answers without a record of its own, or leaves one in progress. *)
LEMMA ResultKeptByAnswer ==
    ASSUME IInv, KeyInv, ResultInv, NEW c \in Callers, Answer(c), UNCHANGED store,
           \A k \in Keys : idem'[k] = idem[k] \/ idem'[k].state # "FINAL",
           \A r \in Runs : keyOf'[r] = "none" => keyOf[r] = "none"
    PROVE  ResultInv'
<1>1. /\ \A d \in Callers \ {c} :
           pc'[d] = pc[d] /\ call'[d] = call[d] /\ answer'[d] = answer[d]
      /\ pc'[c] = "idle" /\ "idle" \notin Active
  BY DEF Answer, Goto, IInv, CallsTyped, Active
<1>2. /\ \A d \in Callers \ {c} : pc'[d] \in Active => Knows(d)'
      /\ \A r : Spares(r) /\ (Unstarted(r) <=> Unstarted(r)')
  BY <1>1, ResultAround
<1>3. OneCaller'
  BY <1>1, <1>2 DEF ResultInv, OneCaller
<1>4. StoredResultStands'
  BY <1>1, <1>2, StillStands DEF ResultInv
<1> QED BY <1>1, <1>2, <1>3, <1>4 DEF ResultInv

LEMMA ResultKeptByGate ==
    ASSUME IInv, KeyInv, ResultInv, NEW c \in Callers, Gate(c)
    PROVE  ResultInv'
<1> DEFINE k == key[c]
<1>1. /\ pc[c] = "gate" /\ k \in Keys /\ call[c] \in Calls({"none"})
      /\ UNCHANGED <<store, lapsed>>
  BY DEF Gate, KeyInv, KeysTyped
<1>2. ASSUME NEW r \in Runs, ReserveKey(k, r, call[c].payload),
             call' = [call EXCEPT ![c].run = r], Goto(c, "rate"),
             UNCHANGED <<answer, calls, key>>
      PROVE  ResultInv'
  <2>1. /\ \A d \in Callers \ {c} :
             pc'[d] = pc[d] /\ call'[d] = call[d] /\ answer'[d] = answer[d]
        /\ pc'[c] = "rate" /\ call'[c].run = r /\ call[c].payload \in Payloads
    BY <1>1, <1>2 DEF Goto, IInv, CallsTyped, Calls
  <2>2. /\ \A j \in Keys : j # k => idem'[j] = idem[j]
        /\ idem'[k].state = "IN_PROGRESS"
        /\ \A d \in Callers : pc[d] \in Active => call[d].run # r
        /\ \A j \in Keys : idem[j] \in Records => idem[j].run # r
        /\ keyOf'[r] = k /\ \A q \in Runs : q # r => keyOf'[q] = keyOf[q]
    BY <1>1, <1>2, <2>1, KeyReserved
  <2>3. /\ \A d \in Callers \ {c} : pc'[d] \in Active => Knows(d)'
        /\ \A q : Spares(q) /\ (Unstarted(q) <=> Unstarted(q)')
    BY <1>1, <2>1, ResultAround
  <2>4. \A j \in Keys : idem'[j].state = "FINAL" =>
          idem'[j] = idem[j] /\ idem[j].run \in Runs /\ idem[j].run # r
    BY <2>2, FinalRun
  <2>5. OneCaller'
    <3>1. ASSUME NEW d \in Callers, NEW e \in Callers, pc'[d] \in Active,
                 pc'[e] \in Active, call'[d].run = call'[e].run
          PROVE  d = e
      BY <2>1, <2>2, <3>1 DEF ResultInv, OneCaller
    <3>2. ASSUME NEW d \in Callers, NEW j \in Keys, pc'[d] \in Active,
                 idem'[j].state = "FINAL"
          PROVE  call'[d].run # idem'[j].run
      BY <2>1, <2>4, <3>2 DEF ResultInv, OneCaller
    <3>3. \A q \in Runs : keyOf'[q] = "none" => Unstarted(q)'
      BY <1>1, <2>2, <2>3, KeysAssumption DEF ResultInv, OneCaller
    <3> QED BY <3>1, <3>2, <3>3 DEF OneCaller
  <2>6. StoredResultStands'
    BY <2>3, <2>4, StillStands DEF ResultInv
  <2>7. Knows(c)'
    <3>1. Unstarted(r)'
      BY <1>2, <2>3 DEF ResultInv, OneCaller, ReserveKey
    <3> QED BY <2>1, <3>1 DEF Knows, Unstarted, Fin
  <2> QED BY <2>3, <2>5, <2>6, <2>7 DEF ResultInv
<1>3. CASE Answer(c) /\ UNCHANGED <<idem, keyOf>>
  BY <1>1, <1>3, ResultKeptByAnswer
<1> QED BY <1>2, <1>3 DEF Gate

LEMMA ResultKeptByConclude ==
    ASSUME IInv, KeyInv, ResultInv, NEW c \in Callers, pc[c] = "done", Answer(c),
           FinalizeKey(c), UNCHANGED <<store, keyOf, lapsed>>
    PROVE  ResultInv'
<1>1. /\ \A d \in Callers \ {c} :
           pc'[d] = pc[d] /\ call'[d] = call[d] /\ answer'[d] = answer[d]
      /\ pc'[c] = "idle" /\ "idle" \notin Active /\ pc[c] \in Active
  BY DEF Answer, Goto, IInv, CallsTyped, Active
<1>2. /\ \A d \in Callers \ {c} : pc'[d] \in Active => Knows(d)'
      /\ \A r : Spares(r) /\ (Unstarted(r) <=> Unstarted(r)')
  BY <1>1, ResultAround
<1>3. \A k \in Keys : \/ idem'[k] = idem[k]
                      \/ /\ idem'[k].run = call[c].run
                         /\ idem'[k].result = answer[c]
  <2>1. UNCHANGED <<receipt, admitted, task>>
    BY DEF store
  <2> QED BY <2>1, KeyFinalized
<1>4. IF answer[c] = "rejected" THEN Unstarted(call[c].run) ELSE Durable(call[c].run)
  BY <1>1 DEF ResultInv, Knows
<1>5. OneCaller'
  <2>1. ASSUME NEW d \in Callers, NEW j \in Keys, pc'[d] \in Active,
               idem'[j].state = "FINAL"
        PROVE  call'[d].run # idem'[j].run
    BY <1>1, <1>3, <2>1 DEF ResultInv, OneCaller
  <2> QED BY <1>1, <1>2, <2>1 DEF ResultInv, OneCaller
<1>6. StoredResultStands'
  <2> SUFFICES ASSUME NEW j \in Keys, idem'[j].state = "FINAL"
               PROVE  IF idem'[j].result = "rejected"
                        THEN Unstarted(idem'[j].run) ELSE Durable(idem'[j].run)
    <3>1. UNCHANGED <<receipt, admitted, canon, task>>
      BY DEF store
    <3> QED BY <3>1 DEF StoredResultStands, Unstarted, Fin, Durable
  <2>1. CASE idem'[j] = idem[j]
    BY <2>1 DEF ResultInv, StoredResultStands, Unstarted, Fin
  <2>2. CASE idem'[j].run = call[c].run /\ idem'[j].result = answer[c]
    BY <1>4, <2>2
  <2> QED BY <1>3, <2>1, <2>2
<1> QED BY <1>1, <1>2, <1>5, <1>6 DEF ResultInv

LEMMA ResultInitHolds == SubmissionInit => ResultInv
<1> SUFFICES ASSUME SubmissionInit PROVE ResultInv
  OBVIOUS
<1>1. \A c \in Callers : pc[c] \notin Active
  BY DEF SubmissionInit, Init, Active
<1>2. \A k \in Keys : idem[k].state # "FINAL"
  BY DEF SubmissionInit, NoRecord
<1>3. \A r \in Runs : Unstarted(r)
  BY DEF SubmissionInit, Init, Unstarted, Fin
<1> QED BY <1>1, <1>2, <1>3 DEF ResultInv, OneCaller, StoredResultStands

LEMMA ResultNextKeeps ==
    ASSUME IInv, KeyInv, ResultInv, [SubmissionNext]_svars
    PROVE  ResultInv'
<1>1. ASSUME NEW c \in Callers, NEW k \in Keys, NEW p \in Payloads, Submit(c, k, p)
      PROVE  ResultInv'
  BY <1>1, ResultKeptBySubmit
<1>2. ASSUME NEW c \in Callers, Gate(c) PROVE ResultInv'
  BY <1>2, ResultKeptByGate
<1>3. ASSUME NEW c \in Callers, Conclude(c) PROVE ResultInv'
  BY <1>3, ResultKeptByConclude DEF Conclude
<1>4. ASSUME NEW c \in Callers, KeyFault(c) PROVE ResultInv'
  <2>1. Answer(c) /\ UNCHANGED <<store, lapsed>>
    BY <1>4 DEF KeyFault
  <2>2. CASE pc[c] = "gate"
    <3>1. PICK r \in Runs : ReserveKey(key[c], r, call[c].payload)
      BY <1>4, <2>2 DEF KeyFault
    <3>2. key[c] \in Keys /\ call[c].payload \in Payloads
      BY <2>2 DEF KeyInv, KeysTyped, Calls
    <3>3. /\ \A k \in Keys : idem'[k] = idem[k] \/ idem'[k].state # "FINAL"
          /\ keyOf'[r] = key[c] /\ \A q \in Runs : q # r => keyOf'[q] = keyOf[q]
      BY <2>1, <3>1, <3>2, KeyReserved
    <3> QED BY <2>1, <3>2, <3>3, KeysAssumption, ResultKeptByAnswer
  <2>3. CASE pc[c] = "done"
    BY <1>4, <2>1, <2>3, ResultKeptByConclude, ResultKeptByAnswer DEF KeyFault
  <2> QED BY <1>4, <2>2, <2>3 DEF KeyFault
<1>5. ASSUME NEW c \in Callers, AdmitStep(c) \/ AdmitFault(c), UNCHANGED gate
      PROVE  ResultInv'
  BY <1>5, ResultKeptByAdmit
<1>6. ASSUME NEW w \in Workers, WorkerStep(w), UNCHANGED gate PROVE ResultInv'
  BY <1>6, ResultKeptByOthers
<1>7. ASSUME Environment, UNCHANGED gate PROVE ResultInv'
  BY <1>7, ResultKeptByOthers
<1>8. ASSUME UNCHANGED <<store, pc, call, answer, keyOf>>,
             \A k \in Keys : idem'[k] = idem[k] \/ idem'[k].state # "FINAL"
      PROVE  ResultInv'
  <2>1. UNCHANGED <<receipt, admitted, canon, task>>
    BY <1>8 DEF store
  <2>2. \A r : Spares(r) /\ (Unstarted(r) <=> Unstarted(r)')
    BY <2>1, SparesSame DEF Unstarted, Fin
  <2>3. OneCaller'
    BY <1>8, <2>2 DEF ResultInv, OneCaller
  <2>4. StoredResultStands'
    BY <1>8, <2>2, StillStands DEF ResultInv
  <2>5. \A c \in Callers : pc[c] \in Active => Knows(c)'
    BY <1>8, <2>2, StillKnows DEF ResultInv
  <2> QED BY <1>8, <2>3, <2>4, <2>5 DEF ResultInv
<1>9. ASSUME NEW k \in Keys, ExpireKey(k) PROVE ResultInv'
  <2>1. NoRecord.state # "FINAL"
    BY DEF NoRecord
  <2> QED BY <1>8, <1>9, <2>1 DEF ExpireKey, locals, KeyInv, KeysTyped
<1>10. CASE UNCHANGED svars
  BY <1>8, <1>10 DEF svars, vars, locals
<1> QED
  BY <1>1, <1>2, <1>3, <1>4, <1>5, <1>6, <1>7, <1>9, <1>10 DEF SubmissionNext

(* Whatever crashes, expires, arrives late, goes unanswered or loses a     *)
(* reply: a run that the result stored under a key denies never starts,    *)
(* and every other stored result stands for a durable run.                 *)
THEOREM ResultsStand == SubmissionSpec => []StoredResultStands
<1>1. IInv /\ KeyInv /\ ResultInv /\ [SubmissionNext]_svars => ResultInv'
  BY ResultNextKeeps
<1>2. ResultInv => StoredResultStands
  BY DEF ResultInv
<1> QED BY <1>1, <1>2, ResultInitHolds, SubmissionInductive, PTL DEF SubmissionSpec

=============================================================================
