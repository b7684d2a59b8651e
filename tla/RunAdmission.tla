--------------------------- MODULE RunAdmission ---------------------------
(***************************************************************************)
(* A RUN from admission to settlement, in the canonical configuration:     *)
(* AdmissionController.admit, RunCreateAuthorityBinding.admit and          *)
(* RunTerminateAuthorityBinding.terminate over the resource script         *)
(* (lua/admission_resource_reservation.lua) and the two RUN projections.   *)
(*                                                                         *)
(* Admission reserves, commits RUN_CREATE, finalizes the reservation and   *)
(* projects, each a Redis call of its own; termination commits             *)
(* RUN_TERMINATE, settles the reservation, projects and acknowledges.      *)
(* The canonical store is CanonicalAuthority's: here a RUN is the record   *)
(* at its head, and what identifies a RUN_CREATE command is its payload    *)
(* and the created_at_ms of its reservation.  The three counters of the    *)
(* resource script move together and are one, inflight, the only one with  *)
(* a limit in this configuration.                                          *)
(***************************************************************************)
EXTENDS Naturals, FiniteSets, TLC

CONSTANTS
    Runs,           \* run ids of one tenant
    Callers,        \* callers of admit
    Workers,        \* consumers that terminate runs
    Payloads,       \* what tells two requests for a run apart
    Limit,          \* max_inflight_runs
    Faults,         \* the kinds of failure considered
    MaxFaults,      \* bound: failures of a behaviour
    MaxCalls        \* bound: calls of admit

FaultKinds == {"crash", "no_reply", "late", "unavailable", "expiry", "key_expiry"}

ASSUME AdmissionAssumption ==
    /\ Faults \subseteq FaultKinds
    /\ Limit \in Nat /\ MaxFaults \in Nat /\ MaxCalls \in Nat
    /\ IsFiniteSet(Runs)

VARIABLES
    receipt,        \* state of the reservation receipt of each run
    stamp,          \* its created_at_ms: one per reservation made
    inflight,       \* the tenant's counters
    canon,          \* the canonical head of each run
    wire,           \* commits sent by callers that no longer wait for them
    runState,       \* the legacy run state key
    admitted,       \* RunAdmitted events of each run on the control stream
    ended,          \* RunCompleted and RunFailed events on the results stream
    task,           \* the root task of each run
    acked,          \* runs whose last delivery is acknowledged
    pc, call,       \* each caller's next Redis call, and its locals
    answer,         \* what its last call of admit and task_admit came to
    tpc, trun,      \* each worker's next Redis call, and its run
    faults, calls   \* failures and calls so far

store  == <<receipt, stamp, inflight, canon, wire, runState, admitted, ended,
            task, acked>>
locals == <<pc, call, answer, calls>>
worker == <<tpc, trun>>
vars   == <<store, locals, worker, faults>>

ReceiptStates == {"absent", "RESERVED", "FINALIZED", "RELEASED", "SETTLED"}
Absent   == [state |-> "none"]
Terminal == {"done", "failed"}
Command(c) == [state |-> "pending", payload |-> call[c].payload,
               stamp |-> call[c].stamp]
\* The stored RUN_CREATE command of the caller's run, under whatever head.
SameCommand(c) == [canon[call[c].run] EXCEPT !.state = "pending"] = Command(c)
Holds(r)    == receipt[r] \in {"RESERVED", "FINALIZED"}
Durable(r)  == canon[r].state # "none"
NoCall      == [run |-> "none"]
NewCall(r, p) == [run |-> r, payload |-> p, mine |-> FALSE, stamp |-> 0,
                  verdict |-> "none"]

Init ==
    /\ receipt = [r \in Runs |-> "absent"] /\ stamp = [r \in Runs |-> 0]
    /\ inflight = 0
    /\ canon = [r \in Runs |-> Absent] /\ wire = {}
    /\ runState = [r \in Runs |-> "none"]
    /\ admitted = [r \in Runs |-> 0] /\ ended = [r \in Runs |-> 0]
    /\ task = [r \in Runs |-> "none"] /\ acked = {}
    /\ pc = [c \in Callers |-> "idle"] /\ call = [c \in Callers |-> NoCall]
    /\ answer = [c \in Callers |-> "none"]
    /\ tpc = [w \in Workers |-> "idle"] /\ trun = [w \in Workers |-> "none"]
    /\ faults = 0 /\ calls = 0

Fails(f) == f \in Faults /\ faults < MaxFaults /\ faults' = faults + 1

---------------------------------------------------------------------------
(* The effects of the scripts on the store; a caller that gets no reply    *)
(* does not know which of them happened.                                   *)

CanReserve(r) == receipt[r] = "absent" /\ inflight < Limit
\* Mutant: a retry of a held reservation is counted again.
ReserveScriptRecounts(r) ==
    /\ IF CanReserve(r) \/ Holds(r)
         THEN /\ receipt' = [receipt EXCEPT ![r] = "RESERVED"]
              /\ stamp' = [stamp EXCEPT ![r] = @ + 1]
              /\ inflight' = inflight + 1
         ELSE UNCHANGED <<receipt, stamp, inflight>>
    /\ UNCHANGED <<canon, wire, runState, admitted, ended, task, acked>>

ReserveScript(r) ==
    /\ IF CanReserve(r)
         THEN /\ receipt' = [receipt EXCEPT ![r] = "RESERVED"]
              /\ stamp' = [stamp EXCEPT ![r] = @ + 1]
              /\ inflight' = inflight + 1
         ELSE UNCHANGED <<receipt, stamp, inflight>>
    /\ UNCHANGED <<canon, wire, runState, admitted, ended, task, acked>>

\* Mutant: a finalized reservation can be released.
ReleaseScriptAny(r) ==
    /\ IF Holds(r)
         THEN /\ receipt' = [receipt EXCEPT ![r] = "RELEASED"]
              /\ inflight' = inflight - 1
         ELSE UNCHANGED <<receipt, inflight>>
    /\ UNCHANGED <<stamp, canon, wire, runState, admitted, ended, task, acked>>

ReleaseScript(r) ==
    /\ IF receipt[r] = "RESERVED"
         THEN /\ receipt' = [receipt EXCEPT ![r] = "RELEASED"]
              /\ inflight' = inflight - 1
         ELSE UNCHANGED <<receipt, inflight>>
    /\ UNCHANGED <<stamp, canon, wire, runState, admitted, ended, task, acked>>

\* canonical_authority_commit.lua on a RUN_CREATE plan at revision 0.
CommitScript(cmd, r) ==
    canon' = IF Durable(r) THEN canon ELSE [canon EXCEPT ![r] = cmd]

\* The witness of the caller must still be the head.
CanFinalize(r, cmd) == canon[r] = cmd /\ Holds(r)
FinalizeScript(r, cmd) ==
    /\ receipt' = IF CanFinalize(r, cmd)
                    THEN [receipt EXCEPT ![r] = "FINALIZED"] ELSE receipt
    /\ UNCHANGED <<stamp, inflight, canon, wire, runState, admitted, ended,
                   task, acked>>

\* Mutant: only the state key tells whether the RUN was projected.
CanProjectByState(r, cmd) == canon[r] = cmd /\ runState[r] = "none"

\* admitted[r] also stands for the projection receipt, written with the event.
CanProject(r, cmd) ==
    canon[r] = cmd /\ admitted[r] = 0 /\ runState[r] = "none"
ProjectScript(r, cmd) ==
    /\ IF CanProject(r, cmd)
         THEN /\ runState' = [runState EXCEPT ![r] = "admitted"]
              /\ admitted' = [admitted EXCEPT ![r] = @ + 1]
         ELSE UNCHANGED <<runState, admitted>>
    /\ UNCHANGED <<receipt, stamp, inflight, canon, wire, ended, task, acked>>

---------------------------------------------------------------------------
(* Admission.  "rejected": admit raised and denies a durable commit;       *)
(* "incomplete": it raised and knows of one.                               *)

Goto(c, l) == pc' = [pc EXCEPT ![c] = l]
Raise(c, v) ==
    /\ Goto(c, "done") /\ answer' = [answer EXCEPT ![c] = v]
    /\ UNCHANGED <<call, calls>>
\* _release_if_owned, then raise.
ReleaseAndRaise(c, v) ==
    IF call[c].mine
      THEN /\ Goto(c, "release")
           /\ call' = [call EXCEPT ![c].verdict = v]
           /\ UNCHANGED <<answer, calls>>
      ELSE Raise(c, v)

StartAdmit(c, r, p) ==
    /\ pc[c] = "idle" /\ calls < MaxCalls
    /\ calls' = calls + 1
    /\ call' = [call EXCEPT ![c] = NewCall(r, p)]
    /\ answer' = [answer EXCEPT ![c] = "none"]
    /\ Goto(c, "rate")

\* _reject_run: an initial write of the state, blocked by any state.
RejectRun(r) ==
    runState' = [runState EXCEPT ![r] = IF @ = "none" THEN "rejected" ELSE @]

CheckRate(c) ==
    LET r == call[c].run IN
    /\ pc[c] = "rate"
    /\ \/ /\ Goto(c, "reserve")
          /\ UNCHANGED <<store, call, answer, calls>>
       \/ /\ RejectRun(r) /\ Raise(c, "rejected")
          /\ UNCHANGED <<receipt, stamp, inflight, canon, wire, admitted,
                         ended, task, acked>>
    /\ UNCHANGED <<worker, faults>>

Reserve(c) ==
    LET r == call[c].run IN
    /\ pc[c] = "reserve"
    /\ \/ /\ CanReserve(r) \/ Holds(r)
          /\ ReserveScript(r)
          /\ call' = [call EXCEPT ![c].mine  = CanReserve(r),
                                  ![c].stamp = stamp'[r]]
          /\ Goto(c, "read") /\ UNCHANGED <<answer, calls>>
       \/ /\ receipt[r] = "absent" /\ ~CanReserve(r)
          /\ RejectRun(r) /\ Raise(c, "rejected")
          /\ UNCHANGED <<receipt, stamp, inflight, canon, wire, admitted,
                         ended, task, acked>>
       \/ /\ receipt[r] \in {"RELEASED", "SETTLED"}
          /\ Raise(c, "rejected") /\ UNCHANGED store
    /\ UNCHANGED <<worker, faults>>

\* The snapshot and the receipt probe, and evaluate_authority_commit on them.
Read(c) ==
    LET r == call[c].run IN
    /\ pc[c] = "read"
    /\ \/ /\ ~Durable(r) /\ Goto(c, "inspect")
          /\ UNCHANGED <<call, answer, calls>>
       \/ /\ canon[r] = Command(c) /\ Goto(c, "finalize")
          /\ UNCHANGED <<call, answer, calls>>
       \/ /\ canon[r].state = "pending" /\ canon[r] # Command(c)
          /\ ReleaseAndRaise(c, "incomplete")
       \/ /\ canon[r].state \in Terminal /\ Raise(c, "incomplete")
    /\ UNCHANGED <<store, worker, faults>>

\* _legacy_footprint_exists
Footprint(r) == runState[r] # "none" \/ admitted[r] > 0
Inspect(c) ==
    /\ pc[c] = "inspect"
    /\ IF Footprint(call[c].run)
         THEN ReleaseAndRaise(c, "rejected")
         ELSE Goto(c, "commit") /\ UNCHANGED <<call, answer, calls>>
    /\ UNCHANGED <<store, worker, faults>>

\* Mutant: a commit goes on to the projection.
CommitSkipsFinalize(c) ==
    LET r == call[c].run IN
    /\ pc[c] = "commit"
    /\ CommitScript(Command(c), r)
    /\ \/ /\ ~Durable(r) /\ Goto(c, "project")
          /\ UNCHANGED <<call, answer, calls>>
       \/ /\ Durable(r) /\ ReleaseAndRaise(c, "rejected")
    /\ UNCHANGED <<receipt, stamp, inflight, wire, runState, admitted, ended,
                   task, acked, worker, faults>>

\* The reply of the commit: committed here, already applied (resolved by a
\* read), or a status that counts as definitively not durable.
Commit(c) ==
    LET r == call[c].run IN
    /\ pc[c] = "commit"
    /\ CommitScript(Command(c), r)
    /\ \/ /\ ~Durable(r) /\ Goto(c, "finalize")
          /\ UNCHANGED <<call, answer, calls>>
       \/ /\ Durable(r) /\ SameCommand(c) /\ Goto(c, "resolve")
          /\ UNCHANGED <<call, answer, calls>>
       \/ /\ Durable(r) /\ ~SameCommand(c)
          /\ ReleaseAndRaise(c, "rejected")
    /\ UNCHANGED <<receipt, stamp, inflight, wire, runState, admitted, ended,
                   task, acked, worker, faults>>

\* _resolve_ambiguous_commit
Resolve(c) ==
    LET r == call[c].run IN
    /\ pc[c] = "resolve"
    /\ \/ ~Durable(r) /\ ReleaseAndRaise(c, "rejected")
       \/ /\ canon[r] = Command(c) /\ Goto(c, "finalize")
          /\ UNCHANGED <<call, answer, calls>>
       \/ Durable(r) /\ canon[r] # Command(c) /\ Raise(c, "incomplete")
    /\ UNCHANGED <<store, worker, faults>>

Finalize(c) ==
    LET r == call[c].run IN
    /\ pc[c] = "finalize"
    /\ FinalizeScript(r, Command(c))
    /\ IF CanFinalize(r, Command(c))
         THEN Goto(c, "project") /\ UNCHANGED <<call, answer, calls>>
         ELSE Raise(c, "incomplete")
    /\ UNCHANGED <<worker, faults>>

\* A projection receipt answers before the head is looked at.
Project(c) ==
    LET r == call[c].run IN
    /\ pc[c] = "project"
    /\ ProjectScript(r, Command(c))
    /\ IF CanProject(r, Command(c)) \/ admitted[r] > 0
         THEN Goto(c, "task") /\ UNCHANGED <<call, answer, calls>>
         ELSE Raise(c, "incomplete")
    /\ UNCHANGED <<worker, faults>>

Release(c) ==
    LET r == call[c].run IN
    /\ pc[c] = "release"
    /\ ReleaseScript(r)
    /\ Raise(c, IF receipt[r] \in {"RESERVED", "RELEASED"}
                  THEN call[c].verdict ELSE "rejected")
    /\ UNCHANGED <<worker, faults>>

\* dag_lua.task_admit of the root task: seeded, or there already.
TaskAdmit(c) ==
    LET r == call[c].run IN
    /\ pc[c] = "task"
    /\ \/ /\ task[r] = "none"
          /\ task' = [task EXCEPT ![r] = "live"] /\ Raise(c, "accepted")
       \/ Raise(c, "incomplete") /\ UNCHANGED task
    /\ UNCHANGED <<receipt, stamp, inflight, canon, wire, runState, admitted,
                   ended, acked, worker, faults>>

---------------------------------------------------------------------------
(* Failures of a caller of admit.                                          *)

\* A call raises: the script ran or did not, the reply is lost either way.
NoReply(c) ==
    LET r == call[c].run IN
    /\ Fails("no_reply")
    /\ \/ /\ pc[c] = "reserve" /\ Raise(c, "rejected")
          /\ ReserveScript(r) \/ UNCHANGED store
       \/ /\ pc[c] = "release" /\ Raise(c, "rejected")
          /\ ReleaseScript(r) \/ UNCHANGED store
       \/ /\ pc[c] = "read" /\ Raise(c, "rejected") /\ UNCHANGED store
       \/ /\ pc[c] = "commit" /\ Goto(c, "resolve")
          /\ CommitScript(Command(c), r) \/ UNCHANGED canon
          /\ UNCHANGED <<receipt, stamp, inflight, wire, runState, admitted,
                         ended, task, acked, call, answer, calls>>
       \/ /\ pc[c] = "finalize" /\ Raise(c, "incomplete")
          /\ FinalizeScript(r, Command(c)) \/ UNCHANGED store
       \/ /\ pc[c] = "project" /\ Raise(c, "incomplete")
          /\ ProjectScript(r, Command(c)) \/ UNCHANGED store
    /\ UNCHANGED worker

\* The caller gives up on a commit that is still on its way.
GiveUpCommit(c) ==
    /\ pc[c] = "commit" /\ Fails("late")
    /\ wire' = wire \cup {[run |-> call[c].run, cmd |-> Command(c)]}
    /\ Goto(c, "resolve")
    /\ UNCHANGED <<receipt, stamp, inflight, canon, runState, admitted, ended,
                   task, acked, call, answer, calls, worker>>

Arrive(m) ==
    /\ CommitScript(m.cmd, m.run) /\ wire' = wire \ {m}
    /\ UNCHANGED <<receipt, stamp, inflight, runState, admitted, ended, task,
                   acked, locals, worker, faults>>

\* The reads of _resolve_ambiguous_commit or of _legacy_footprint_exists fail.
Unavailable(c) ==
    /\ Fails("unavailable")
    /\ \/ pc[c] = "resolve" /\ Raise(c, "rejected")
       \/ pc[c] = "inspect" /\ ReleaseAndRaise(c, "rejected")
    /\ UNCHANGED <<store, worker>>

Crash(c) ==
    /\ pc[c] \notin {"idle", "done"} /\ Fails("crash")
    /\ Goto(c, "idle") /\ call' = [call EXCEPT ![c] = NoCall]
    /\ answer' = [answer EXCEPT ![c] = "none"]
    /\ UNCHANGED <<store, calls, worker>>

\* Released receipts and run states have a time to live.
Expire(r) ==
    /\ Fails("expiry")
    /\ \/ /\ receipt[r] = "RELEASED"
          /\ receipt' = [receipt EXCEPT ![r] = "absent"]
          /\ UNCHANGED runState
       \/ /\ runState[r] # "none"
          /\ runState' = [runState EXCEPT ![r] = "none"]
          /\ UNCHANGED receipt
    /\ UNCHANGED <<stamp, inflight, canon, wire, admitted, ended, task, acked,
                   locals, worker>>

Return(c) ==
    /\ pc[c] = "done" /\ Goto(c, "idle")
    /\ call' = [call EXCEPT ![c] = NoCall]
    /\ answer' = [answer EXCEPT ![c] = "none"]
    /\ UNCHANGED <<store, calls, worker, faults>>

AdmitStep(c) ==
    \/ CheckRate(c) \/ Reserve(c) \/ Read(c) \/ Inspect(c) \/ Commit(c)
    \/ Resolve(c) \/ Finalize(c) \/ Project(c) \/ Release(c) \/ TaskAdmit(c)
AdmitFault(c) == NoReply(c) \/ GiveUpCommit(c) \/ Unavailable(c) \/ Crash(c)

---------------------------------------------------------------------------
(* Termination, on the delivery that ended the task and its redeliveries.  *)

TaskEnds(r) ==
    /\ task[r] = "live"
    /\ \E s \in Terminal : task' = [task EXCEPT ![r] = s]
    /\ UNCHANGED <<receipt, stamp, inflight, canon, wire, runState, admitted,
                   ended, acked, locals, worker, faults>>

TGoto(w, l, r) == tpc' = [tpc EXCEPT ![w] = l] /\ trun' = [trun EXCEPT ![w] = r]
Drop(w) == TGoto(w, "idle", "none")

\* Mutant: a RUN_TERMINATE at the head is resumed at its projection.
DeliverToProject(w, r) ==
    /\ tpc[w] = "idle" /\ r \notin acked /\ task[r] \in Terminal
    /\ \/ canon[r].state = "pending" /\ TGoto(w, "commit", r)
       \/ canon[r].state \in Terminal /\ TGoto(w, "project", r)
    /\ UNCHANGED <<store, locals, faults>>

\* Receipt first: a RUN_TERMINATE at the head is resumed, not captured again.
Deliver(w, r) ==
    /\ tpc[w] = "idle" /\ r \notin acked /\ task[r] \in Terminal
    /\ \/ canon[r].state = "pending" /\ TGoto(w, "commit", r)
       \/ canon[r].state \in Terminal /\ TGoto(w, "settle", r)
    /\ UNCHANGED <<store, locals, faults>>

\* Two captures differ in finalized_at_ms: the loser is refused.
Terminate(w) ==
    LET r == trun[w] IN
    /\ tpc[w] = "commit"
    /\ IF canon[r].state = "pending"
         THEN /\ canon' = [canon EXCEPT ![r].state = task[r]]
              /\ TGoto(w, "settle", r)
         ELSE Drop(w) /\ UNCHANGED canon
    /\ UNCHANGED <<receipt, stamp, inflight, wire, runState, admitted, ended,
                   task, acked, locals, faults>>

\* Mutant: every delivery settles again.
SettleScriptAgain(r) ==
    /\ receipt' = [receipt EXCEPT ![r] = "SETTLED"] /\ inflight' = inflight - 1
    /\ UNCHANGED <<stamp, canon, wire, runState, admitted, ended, task, acked>>

SettleScript(r) ==
    /\ IF receipt[r] = "FINALIZED"
         THEN /\ receipt' = [receipt EXCEPT ![r] = "SETTLED"]
              /\ inflight' = inflight - 1
         ELSE UNCHANGED <<receipt, inflight>>
    /\ UNCHANGED <<stamp, canon, wire, runState, admitted, ended, task, acked>>

\* Mutant: already settled is a conflict.
SettleOnce(w) ==
    LET r == trun[w] IN
    /\ tpc[w] = "settle"
    /\ SettleScript(r)
    /\ IF receipt[r] = "FINALIZED" THEN TGoto(w, "project", r) ELSE Drop(w)
    /\ UNCHANGED <<locals, faults>>

\* _settle_resources: settled now or before, or pending for ever.
Settle(w) ==
    LET r == trun[w] IN
    /\ tpc[w] = "settle"
    /\ SettleScript(r)
    /\ IF receipt[r] \in {"FINALIZED", "SETTLED"}
         THEN TGoto(w, "project", r) ELSE Drop(w)
    /\ UNCHANGED <<locals, faults>>

\* ended[r] also stands for the evidence index and the projection receipt.
CanEnd(r) == ended[r] = 0 /\ runState[r] = "admitted"
EndScript(r) ==
    /\ IF CanEnd(r)
         THEN /\ runState' = [runState EXCEPT ![r] = canon[r].state]
              /\ ended' = [ended EXCEPT ![r] = @ + 1]
         ELSE UNCHANGED <<runState, ended>>
    /\ UNCHANGED <<receipt, stamp, inflight, canon, wire, admitted, task, acked>>

\* A replay checks the projected state against the receipt.
ProjectEnd(w) ==
    LET r == trun[w] IN
    /\ tpc[w] = "project"
    /\ EndScript(r)
    /\ IF CanEnd(r) \/ (ended[r] > 0 /\ runState[r] = canon[r].state)
         THEN TGoto(w, "ack", r) ELSE Drop(w)
    /\ UNCHANGED <<locals, faults>>

\* worker_recovery_ack.lua checks the RUN head again with the XACK.
Ack(w) ==
    LET r == trun[w] IN
    /\ tpc[w] = "ack" /\ canon[r].state \in Terminal
    /\ acked' = acked \cup {r} /\ Drop(w)
    /\ UNCHANGED <<receipt, stamp, inflight, canon, wire, runState, admitted,
                   ended, task, locals, faults>>

WorkerCrash(w) ==
    /\ tpc[w] # "idle" /\ Fails("crash") /\ Drop(w)
    /\ UNCHANGED <<store, locals>>

WorkerStep(w) ==
    \/ \E r \in Runs : Deliver(w, r)
    \/ Terminate(w) \/ Settle(w) \/ ProjectEnd(w) \/ Ack(w)

Environment ==
    \/ \E r \in Runs : TaskEnds(r) \/ Expire(r)
    \/ \E m \in wire : Arrive(m)
    \/ \E w \in Workers : WorkerCrash(w)

Next ==
    \/ \E c \in Callers :
         \/ \E r \in Runs, p \in Payloads :
              StartAdmit(c, r, p) /\ UNCHANGED <<store, worker, faults>>
         \/ AdmitStep(c) \/ AdmitFault(c) \/ Return(c)
    \/ \E w \in Workers : WorkerStep(w)
    \/ Environment

Spec == Init /\ [][Next]_vars

\* A delivery stays pending until it is acknowledged, so a worker that lost
\* or refused it sees it again.
FairSpec == Spec /\ \A w \in Workers : WF_vars(WorkerStep(w))

---------------------------------------------------------------------------

(* Types of the receipts, of the calls in progress and of what is stored.  *)
TypeOK ==
    /\ receipt \in [Runs -> ReceiptStates] /\ stamp \in [Runs -> Nat]
    /\ inflight \in Nat
    /\ canon \in [Runs -> {Absent} \cup
                          [state : {"pending"} \cup Terminal,
                           payload : Payloads, stamp : Nat]]
    /\ runState \in [Runs -> {"none", "admitted", "rejected"} \cup Terminal]
    /\ admitted \in [Runs -> Nat] /\ ended \in [Runs -> Nat]
    /\ task \in [Runs -> {"none", "live"} \cup Terminal]
    /\ acked \subseteq Runs
    /\ faults \in 0..MaxFaults /\ calls \in 0..MaxCalls

\* Whatever is retried, lost or released, the tenant's counters are exactly
\* the reservations that are held, and within the limit of the tenant: a
\* reservation is given back once, by its release or by its settlement.
CountersMatch ==
    inflight = Cardinality({r \in Runs : Holds(r)}) /\ inflight <= Limit

\* A RUN that ended canonically has a reservation to settle: termination
\* commits before it settles, and a reservation can no longer be finalized
\* once the head is RUN_TERMINATE, so one left RESERVED would be held for ever.
EndedWasFinalized ==
    \A r \in Runs : canon[r].state \in Terminal =>
        receipt[r] \in {"FINALIZED", "SETTLED"}

\* An acknowledged delivery is never seen again: by then the RUN has ended,
\* given its resources back and published its end, once.
AckedIsSettled ==
    \A r \in acked : /\ canon[r].state = task[r]
                      /\ receipt[r] = "SETTLED" /\ ended[r] = 1

\* Retries of admission and redeliveries to termination publish one
\* RunAdmitted and one end of a RUN, the end after the admission.
EventsOnce == \A r \in Runs : ended[r] <= admitted[r] /\ admitted[r] <= 1

\* The doc of RUN_CREATE: resources are released only when the canonical
\* absence of the RUN is positively proven.
ReleaseProvesAbsence == \A r \in Runs : receipt[r] = "RELEASED" => ~Durable(r)

\* A RUN whose task ended settles, publishes its end and is acknowledged,
\* whatever crashes meanwhile.
RunSettles == \A r \in Runs : task[r] \in Terminal ~> r \in acked

===========================================================================
