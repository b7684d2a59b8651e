---------------------------- MODULE Reconciliation ----------------------------
(***************************************************************************)
(* The read-only reconcilers: TaskRequeueReconciler, CurrentHeadReconciler *)
(* and HistoricalCrossAggregateReconciler.  None of them can lock what it  *)
(* compares: each one reads a number of Redis keys, one await after the    *)
(* other, twice, and trusts what did not change between the two reads.     *)
(*                                                                         *)
(* What they observe goes on changing: a TASK aggregate with the runtime   *)
(* keys its transitions are projected to, and a RUN with its terminal      *)
(* proof and the receipt of its resources.  Every projection is one        *)
(* script, so the keys of a task change together; somebody outside may     *)
(* still damage one of them.  A cell is one key, or one validated read of  *)
(* the canonical store, which compares the head before and after itself.   *)
(***************************************************************************)
EXTENDS Naturals, SequencesExt

CONSTANTS
    MaxRevision,    \* bound: length of the TASK history
    None

ASSUME ConstantsAssumption == MaxRevision \in Nat \ {0}

VARIABLES
    subject,        \* the aggregate looked at: no reconciler reads both worlds
    cell,           \* what the keys hold
    damaged,        \* a key was written by somebody else
    obs,            \* the observation under way: kind, operation, values read
    moments,        \* history: contents of the observed cells since it began
    report          \* the last findings

vars == <<subject, cell, damaged, obs, moments, report>>

TaskCells == <<"state", "meta", "ready", "running">>

---------------------------------------------------------------------------
(* The TASK aggregate and its projection.                                  *)

NextOps(op) ==
    CASE op \in {"TASK_ADMIT", "TASK_REQUEUE"} -> {"TASK_DISPATCH"}
      [] op = "TASK_DISPATCH" -> {"TASK_CLAIM"}
      [] op = "TASK_CLAIM" -> {"TASK_REQUEUE", "TASK_COMPLETE", "TASK_FAIL"}
      [] OTHER -> {}

StateOf(op) ==
    CASE op \in {"TASK_ADMIT", "TASK_REQUEUE"} -> "ready"
      [] op = "TASK_DISPATCH" -> "scheduled"
      [] op = "TASK_CLAIM" -> "running"
      [] op = "TASK_COMPLETE" -> "done"
      [] OTHER -> "failed"

StateBefore(op) ==
    CASE op = "TASK_DISPATCH" -> "ready" [] op = "TASK_CLAIM" -> "scheduled"
      [] OTHER -> "running"

TaskOps == {"TASK_ADMIT", "TASK_DISPATCH", "TASK_CLAIM", "TASK_REQUEUE",
            "TASK_COMPLETE", "TASK_FAIL"}

\* Runtime keys that agree with head h.  meta holds the revision projected
\* last, the last requeue projected and the last requeue notified.
Ready(h)   == IF StateOf(h.op) = "ready" THEN h.rev ELSE 0
Running(h) == IF StateOf(h.op) = "running" THEN h.rev ELSE 0
Requeued(h, m) == IF h.op = "TASK_REQUEUE" THEN h.rev ELSE m.requeued

Init ==
    /\ subject \in {"task", "run"}
    /\ cell = [head |-> [rev |-> 1, op |-> "TASK_ADMIT"],
               state |-> "ready", meta |-> [rev |-> 1, requeued |-> 0, notified |-> 0],
               ready |-> 1, running |-> 0,
               run |-> "none", proof |-> "none", receipt |-> "none"]
    /\ damaged = FALSE
    /\ obs = None /\ moments = {} /\ report = None

---------------------------------------------------------------------------
(* Observations: which cells are read, in which order.                     *)

Plans ==
    [task       |-> <<"head">> \o TaskCells \o TaskCells \o <<"head">>,
     create     |-> <<"run", "receipt", "receipt", "run">>,
     proof      |-> <<"run", "proof", "proof", "run">>,
     settlement |-> <<"run", "proof", "receipt", "receipt", "proof", "run">>]

Canonical == {"head", "run"}

\* A reader looks at the keys its operation owns, and what it does not look at
\* reads as nothing: an admission not at the running index; a claim, an end not
\* at the ready queue.  Of a task that was requeued the whole hash counts, of
\* any other not the notification, which may come late.
Value(o, c, world) ==
    CASE c = "meta" /\ o.op # "TASK_REQUEUE" -> world["meta"].rev
      [] c = "ready" /\ o.op \in {"TASK_CLAIM", "TASK_COMPLETE", "TASK_FAIL"} -> 0
      [] c = "running" /\ o.op = "TASK_ADMIT" -> 0
      [] OTHER -> world[c]

Moment(o, world) == [c \in ToSet(Plans[o.kind]) |-> Value(o, c, world)]

\* Every change of the observed keys is noted while somebody is reading.
Write(new) ==
    /\ cell' = new
    /\ moments' = IF obs = None THEN {} ELSE moments \cup {Moment(obs, new)}
    /\ UNCHANGED <<obs, report>>

---------------------------------------------------------------------------
(* The system under observation.                                           *)

\* Mutant: a transition is committed over one that is not projected.
CommitAhead(op) ==
    /\ op \in NextOps(cell.head.op) /\ cell.head.rev < MaxRevision
    /\ Write([cell EXCEPT !.head = [rev |-> @.rev + 1, op |-> op]])
    /\ UNCHANGED damaged

\* A binding commits the next transition; its caller got the task out of the
\* runtime keys, where the transition before must have been projected.
Commit(op) ==
    /\ op \in NextOps(cell.head.op) /\ cell.head.rev < MaxRevision
    /\ cell.meta.rev = cell.head.rev
    /\ Write([cell EXCEPT !.head = [rev |-> @.rev + 1, op |-> op]])
    /\ UNCHANGED damaged

\* The projection script: it fails on keys that do not show the transition
\* before, and leaves alone the queue or the index its operation is not about.
Project ==
    LET h == cell.head IN
    /\ cell.meta.rev = h.rev - 1 /\ cell.state = StateBefore(h.op)
    /\ Write([cell EXCEPT
         !.state = StateOf(h.op),
         !.ready = IF h.op = "TASK_DISPATCH" \/ (h.op = "TASK_REQUEUE" /\ @ = 0)
                   THEN Ready(h) ELSE @,
         !.running = IF h.op # "TASK_DISPATCH" THEN Running(h) ELSE @,
         !.meta = [@ EXCEPT !.rev = h.rev, !.requeued = Requeued(h, cell.meta)]])
    /\ UNCHANGED damaged

\* canonical_deliver, in a script of its own and perhaps much later.
Deliver ==
    /\ cell.meta.notified # cell.meta.requeued
    /\ Write([cell EXCEPT !.meta = [@ EXCEPT !.notified = cell.meta.requeued]])
    /\ UNCHANGED damaged

Damage(c) ==
    /\ ~damaged /\ damaged' = TRUE
    /\ Write([cell EXCEPT ![c] = CASE c = "state" -> "lost" [] c = "ready" -> 0
                                   [] OTHER -> MaxRevision + 1])

\* RUN_CREATE and RUN_TERMINATE with what precedes and follows them.  The
\* release stands for the admission that found its own commit refused.
Receipt(from, to, runs) ==
    /\ cell.receipt = from /\ cell.run \in runs
    /\ Write([cell EXCEPT !.receipt = to])
    /\ UNCHANGED damaged

Reserve  == Receipt("none", "RESERVED", {"none"})
Finalize == Receipt("RESERVED", "FINALIZED", {"created"})
Release  == Receipt("RESERVED", "RELEASED", {"none", "created"})
Settle   == Receipt("FINALIZED", "SETTLED", {"ended", "proven"})

Create ==
    /\ cell.run = "none" /\ cell.receipt = "RESERVED"
    /\ Write([cell EXCEPT !.run = "created"]) /\ UNCHANGED damaged

\* TerminalAggregateProofManager.capture, which the binding no longer calls.
WriteProof ==
    /\ cell.run = "created" /\ cell.proof = "none"
    /\ Write([cell EXCEPT !.proof = "written"]) /\ UNCHANGED damaged

\* The binding proves the end with the canonical root task, a payload that no
\* captured proof has.
Terminate ==
    /\ cell.run = "created"
    /\ Write([cell EXCEPT !.run = "ended"]) /\ UNCHANGED damaged

\* A record that was committed with the captured proof, as tests still do.
TerminateWithProof ==
    /\ cell.run = "created" /\ cell.proof = "written"
    /\ Write([cell EXCEPT !.run = "proven"]) /\ UNCHANGED damaged

TaskNext ==
    \/ \E op \in TaskOps : Commit(op)
    \/ Project \/ Deliver
    \/ \E c \in {"state", "ready", "running"} : Damage(c)

RunNext ==
    \/ Reserve \/ Create \/ Finalize \/ Release
    \/ WriteProof \/ Terminate \/ TerminateWithProof \/ Settle

---------------------------------------------------------------------------
(* The reconcilers.                                                        *)

Observe(k, op) ==
    /\ obs = None
    /\ obs' = [kind |-> k, op |-> op, seen |-> <<>>, unread |-> FALSE]
    /\ moments' = {Moment(obs', cell)} /\ report' = None
    /\ UNCHANGED <<cell, damaged>>

Report(status, reason, vals) ==
    /\ report' = [kind |-> obs.kind, op |-> obs.op, status |-> status,
                  reason |-> reason, vals |-> vals,
                  real |-> \E m \in moments : \A c \in DOMAIN vals : m[c] = vals[c]]
    /\ obs' = None /\ moments' = {}

\* The canonical history must hold the operation the reconciler is for.
Evident(v) ==
    CASE obs.kind = "task" -> v.op = obs.op
      [] obs.kind = "create" -> v # "none"
      [] OTHER -> v \in {"ended", "proven"}

\* Await one read.
Read ==
    /\ obs # None
    /\ LET plan == Plans[obs.kind]
           n == Len(obs.seen) + 1
           v == Value(obs, plan[n], cell) IN
       /\ n <= Len(plan)
       /\ IF n = 1 /\ ~Evident(v)
            THEN Report("BLOCKED_EVIDENCE", "CANONICAL_EVIDENCE_UNAVAILABLE", <<>>)
            ELSE obs' = [obs EXCEPT !.seen = Append(@, v)] /\ UNCHANGED <<moments, report>>
    /\ UNCHANGED <<cell, damaged>>

\* The settlement's reader goes on without the receipt.
ReceiptFails ==
    /\ obs # None /\ obs.kind = "settlement" /\ Len(obs.seen) \in 2..3 /\ ~obs.unread
    /\ obs' = [obs EXCEPT !.unread = TRUE]
    /\ UNCHANGED <<cell, damaged, moments, report>>

\* Any other read that raises ends the observation.
ReadFails ==
    /\ obs # None /\ ~(obs.kind = "settlement" /\ Len(obs.seen) \in 2..3)
    /\ Report("BLOCKED_EVIDENCE", "EVIDENCE_UNAVAILABLE", <<>>)
    /\ UNCHANGED <<cell, damaged>>

\* Mutant: the runtime keys are read twice and the reads not compared.
ChangedCanonical(cs) ==
    \E i, j \in 1..Len(obs.seen) :
        /\ Plans[obs.kind][i] = Plans[obs.kind][j] /\ Plans[obs.kind][i] \in cs \cap Canonical
        /\ obs.seen[i] # obs.seen[j]

\* Some cell of cs was read with two different values.
Changed(cs) ==
    \E i, j \in 1..Len(obs.seen) :
        /\ Plans[obs.kind][i] = Plans[obs.kind][j] /\ Plans[obs.kind][i] \in cs
        /\ obs.seen[i] # obs.seen[j]

\* The values compared: the last read of every cell.
LastRead ==
    LET plan == Plans[obs.kind] IN
    [c \in ToSet(plan) |-> obs.seen[CHOOSE i \in 1..Len(plan) :
        plan[i] = c /\ \A j \in (i + 1)..Len(plan) : plan[j] # c]]

\* The rules of the head's operation hold of the runtime keys.
Agrees(v, rev) ==
    /\ v["state"] = StateOf(v["head"].op) /\ rev = v["head"].rev
    /\ v["ready"] = Ready(v["head"]) /\ v["running"] = Running(v["head"])

HeadVerdict(v) ==
    IF Agrees(v, v["meta"]) THEN <<"CONSISTENT", "CONSISTENT">>
    ELSE <<"DRIFT", "PROJECTION_MISMATCH">>

\* _compare_current of the requeue, which must have been notified too.
RequeueVerdict(v) ==
    CASE ~Agrees(v, v["meta"].rev) -> <<"DRIFT", "PROJECTION_MISMATCH">>
      [] v["meta"].notified # v["head"].rev -> <<"DRIFT", "REQUEUE_DELIVERY_PROOF_MISSING">>
      [] OTHER -> <<"CONSISTENT", "CONSISTENT">>

\* Mutant: a reservation that is not finalized yet is good enough.
CreateVerdictEarly(v) ==
    IF v["receipt"] = "RELEASED" THEN <<"DRIFT", "RESOURCE_PROOF_MISMATCH">>
    ELSE <<"CONSISTENT", "CONSISTENT">>

\* reconcile_run_create_resource.
CreateVerdict(v) ==
    CASE v["receipt"] = "none" -> <<"BLOCKED_EVIDENCE", "RESOURCE_EFFECT_EVIDENCE_UNAVAILABLE">>
      [] v["receipt"] = "RESERVED" -> <<"BLOCKED_EVIDENCE", "RESOURCE_FINALIZATION_PENDING">>
      [] v["receipt"] = "RELEASED" -> <<"DRIFT", "RESOURCE_PROOF_MISMATCH">>
      [] OTHER -> <<"CONSISTENT", "CONSISTENT">>

\* reconcile_run_terminate_proof.
ProofVerdict(v) ==
    CASE v["proof"] = "none" -> <<"BLOCKED_EVIDENCE", "CANONICAL_EVIDENCE_UNAVAILABLE">>
      [] v["run"] # "proven" -> <<"DRIFT", "CANONICAL_PROOF_MISMATCH">>
      [] OTHER -> <<"CONSISTENT", "CONSISTENT">>

\* reconcile_run_terminate_settlement.
SettlementVerdict(v) ==
    IF ProofVerdict(v)[1] = "CONSISTENT" /\ v["receipt"] # "SETTLED"
    THEN <<"BLOCKED_EVIDENCE", "RESOURCE_EFFECT_EVIDENCE_UNAVAILABLE">>
    ELSE ProofVerdict(v)

Verdict(v) ==
    CASE obs.kind = "task" -> IF obs.op = "TASK_REQUEUE" THEN RequeueVerdict(v) ELSE HeadVerdict(v)
      [] obs.kind = "create" -> CreateVerdict(v)
      [] obs.kind = "proof" -> ProofVerdict(v)
      [] OTHER -> SettlementVerdict(v)

\* A proof that does not match is reported whatever came of the receipt.
Compared ==
    IF obs.kind = "settlement" /\ ProofVerdict(LastRead)[1] = "DRIFT"
    THEN {"run", "proof"} ELSE ToSet(Plans[obs.kind])

Conclude ==
    /\ obs # None /\ Len(obs.seen) = Len(Plans[obs.kind])
    /\ IF Changed(Canonical)
         THEN Report("BLOCKED_EVIDENCE", "CANONICAL_CHANGED_DURING_OBSERVATION", <<>>)
       ELSE IF Changed(Compared)
         THEN Report("BLOCKED_EVIDENCE", "OBSERVATION_CHANGED", <<>>)
       ELSE IF obs.unread /\ "receipt" \in Compared
         THEN Report("BLOCKED_EVIDENCE", "EVIDENCE_UNAVAILABLE", <<>>)
       ELSE Report(Verdict(LastRead)[1], Verdict(LastRead)[2], Restrict(LastRead, Compared))
    /\ UNCHANGED <<cell, damaged>>

Next ==
    /\ \/ subject = "task" /\ (TaskNext \/ \E op \in TaskOps : Observe("task", op))
       \/ subject = "run" /\ (RunNext \/ \E k \in {"create", "proof", "settlement"} : Observe(k, None))
       \/ Read \/ ReceiptFails \/ ReadFails \/ Conclude
    /\ UNCHANGED subject

Spec == Init /\ [][Next]_vars

---------------------------------------------------------------------------
(* Types; a projection is at most one transition behind the head, and a    *)
(* notification never ahead of the requeue it is about.                    *)
TypeOK ==
    /\ subject \in {"task", "run"}
    /\ cell.head.rev \in 1..MaxRevision /\ cell.head.op \in TaskOps
    /\ cell.meta.rev \in {cell.head.rev, cell.head.rev - 1}
    /\ cell.meta.notified <= cell.meta.requeued /\ cell.meta.requeued <= cell.meta.rev
    /\ cell.run \in {"none", "created", "ended", "proven"}
    /\ cell.receipt \in {"none", "RESERVED", "FINALIZED", "RELEASED", "SETTLED"}
    /\ obs # None => Len(obs.seen) <= Len(Plans[obs.kind])
    /\ report # None => report.status \in {"CONSISTENT", "DRIFT", "BLOCKED_EVIDENCE"}

(* A finding that is not blocked speaks of one moment: the values it       *)
(* compared were there all at once while it was looking, although they     *)
(* were read one by one between commits, projections, notifications and    *)
(* damage.  No drift is made up of two states that are each consistent.    *)
ReportIsSnapshot ==
    (report # None /\ report.status # "BLOCKED_EVIDENCE") => report.real

(* What was found consistent of the past stays so: the resources, the      *)
(* proof and the settlement of a RUN need not be checked again.            *)
HistoricalFindingHolds ==
    (report # None /\ report.kind # "task" /\ report.status = "CONSISTENT") =>
        /\ report.kind = "create" => cell.receipt \in {"FINALIZED", "SETTLED"}
        /\ report.kind = "proof" => cell.run = "proven" /\ cell.proof = "written"
        /\ report.kind = "settlement" => cell.run = "proven" /\ cell.receipt = "SETTLED"
==============================================================================
