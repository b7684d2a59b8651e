------------------------ MODULE CanonicalTransition ------------------------
(***************************************************************************)
(* The vocabulary of the canonical authority (authority/                   *)
(* canonical_transition.py): operations, their contracts, operation        *)
(* identities and command hashes, for one RUN and the TASKs that name it.  *)
(*                                                                         *)
(* A canonical record keeps what the store tells records apart by:         *)
(*   op, slot     operation type and the number in the operation id        *)
(*   from         from_revision; the record is number from + 1             *)
(*   prev, next   the state it leaves and the state it makes               *)
(*   data         what the command hash binds: the root task of a RUN, the *)
(*                state of an admission, the worker of a task operation    *)
(*   at           committed_at_ms                                          *)
(* Hashes, storage envelopes and stream copies are functions of these.     *)
(***************************************************************************)
EXTENDS Naturals, Sequences, FiniteSets

CONSTANTS
    Run,            \* the RUN aggregate
    Tasks,          \* the TASK aggregates that name the run
    NoTask,         \* a RUN created without root_task_id
    Workers,        \* worker_instance_id
    Times,          \* caller clock readings, positive
    RequireRoot     \* require_task_admit_root_binding

ASSUME AggregateAssumption == Run \notin Tasks /\ NoTask \notin Tasks
ASSUME TimesAssumption     == Times \subseteq Nat \ {0}
ASSUME RootAssumption      == RequireRoot \in BOOLEAN

Aggregates == Tasks \cup {Run}
None       == "none"            \* the state of an absent aggregate
NoTime     == 0                 \* the clock reading of a reservation receipt
NoData     == "no data"

TaskStates == {"pending", "ready", "scheduled", "running", "done", "failed"}
States     == TaskStates \cup {None}
Ended      == {"done", "failed"}

TerminalOps == {"TASK_COMPLETE", "TASK_FAIL"}
CreateOps   == {"TASK_ADMIT", "RUN_CREATE"}
RunOps      == {"RUN_CREATE", "RUN_TERMINATE"}
TaskOps     == TerminalOps \cup
               {"TASK_ADMIT", "TASK_DISPATCH", "TASK_CLAIM", "TASK_REQUEUE"}
Operations  == RunOps \cup TaskOps

Data   == Tasks \cup Workers \cup States \cup {NoTask, NoData}
Record == [op : Operations, slot : Nat, from : Nat, prev : States,
           next : States, data : Data, at : Nat]

\* OPERATION_CONTRACTS.  TASK_CANCEL and TASK_DEPENDENCY_APPLY have a contract
\* there and no caller.
Before == [op \in Operations |->
    CASE op \in CreateOps                     -> {None}
      [] op = "TASK_DISPATCH"                 -> {"ready"}
      [] op = "TASK_CLAIM"                    -> {"scheduled"}
      [] op \in TerminalOps \cup {"TASK_REQUEUE"} -> {"running"}
      [] op = "RUN_TERMINATE"                 -> {"pending", "running"}]
After == [op \in Operations |->
    CASE op = "TASK_ADMIT"    -> {"pending", "ready"}
      [] op = "RUN_CREATE"    -> {"pending"}
      [] op = "TASK_DISPATCH" -> {"scheduled"}
      [] op = "TASK_CLAIM"    -> {"running"}
      [] op = "TASK_COMPLETE" -> {"done"}
      [] op = "TASK_FAIL"     -> {"failed"}
      [] op = "TASK_REQUEUE"  -> {"ready"}
      [] op = "RUN_TERMINATE" -> Ended]
Legal(r) == r.prev \in Before[r.op] /\ r.next \in After[r.op]

\* The operation ids.  Completing and failing share the slot of their claim.
Family(op)      == IF op \in TerminalOps THEN "task-terminal" ELSE op
OperationId(r)  == <<Family(r.op), r.slot>>

\* canonical_command_hash: every binding puts its clock reading in the payload
\* except TASK_REQUEUE, whose reading is only the record's committed_at_ms.
Command(r) == IF r.op = "TASK_REQUEUE" THEN [r EXCEPT !.at = NoTime] ELSE r

----------------------------------------------------------------------------
(* A history is the sequence of an aggregate's records; revision n is its  *)
(* length, and record n the proof of head n.                               *)

StateAt(h, n) == IF n = 0 THEN None ELSE h[n].next
State(h)      == StateAt(h, Len(h))

\* load_receipt_probe: where the operation is stored, 0 if nowhere.
Stored(h, id) == {i \in 1..Len(h) : OperationId(h[i]) = id}
Probe(h, id)  == IF Stored(h, id) = {} THEN 0
                 ELSE CHOOSE i \in Stored(h, id) : TRUE

\* claim_epoch of the claim at revision n.
Epoch(h, n) == Cardinality({i \in 1..n : h[i].op = "TASK_CLAIM"})

\* What a claim, a terminal operation or a requeue quotes of the record it
\* follows: the exact dispatch, or the exact claim with its worker and epoch.
Follows(r, h) ==
    LET p == h[r.from] IN
    /\ r.op = "TASK_CLAIM" =>
          p.op = "TASK_DISPATCH" /\ p.slot = r.slot /\ p.data = r.data
    /\ r.op \in TerminalOps \cup {"TASK_REQUEUE"} =>
          p.op = "TASK_CLAIM" /\ p.data = r.data /\ Epoch(h, r.from) = r.slot

\* The root task a RUN's creation record binds.
RootOf(h) == IF h = <<>> THEN NoTask ELSE h[1].data
=============================================================================
