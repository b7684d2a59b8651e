------------------------ MODULE CanonicalAuthority ------------------------
(***************************************************************************)
(* The canonical authority store (authority/redis_persistence.py and       *)
(* lua/canonical_authority_commit.lua) under the seven bindings that       *)
(* write to it (hfa_control/*_authority.py).                               *)
(*                                                                         *)
(* A call of a binding reads the head of its aggregate, then the receipt   *)
(* of its operation, evaluates a commit plan from the two, prevalidates    *)
(* the stored proofs and runs the commit script; other calls act between   *)
(* any two of these.  A head is its revision: the script compares the      *)
(* proofs of the heads byte for byte, and histories only grow, so equal    *)
(* revisions are equal proofs.  The configuration is the one without       *)
(* task-owner bindings.  Projections to the task keys are not modelled:    *)
(* they supply the attempt and the epoch a caller quotes, and may make a   *)
(* call give up at any point (Abandon).                                    *)
(***************************************************************************)
EXTENDS CanonicalTransition

CONSTANTS
    Clients,        \* concurrent callers of the bindings
    May,            \* the operations each of them calls
    Roots,          \* root_task_id of the submissions of the run
    Admissions,     \* states admissions may ask for
    MaxAttempts,    \* max_requeue_count + 1
    MaxCalls        \* bound: calls of all clients together

ASSUME ClientsAssumption == May \in [Clients -> SUBSET Operations]
ASSUME InputsAssumption ==
    /\ Roots \subseteq Tasks \cup {NoTask}
    /\ Admissions \subseteq {"pending", "ready"}
    /\ MaxAttempts \in Nat /\ MaxCalls \in Nat

VARIABLES
    history,        \* per aggregate, its canonical records
    conflicts,      \* the durable conflict evidence
    pc,             \* next Redis call of each client
    call,           \* the request of its current call
    snap,           \* the revision its call works from
    plan,           \* its commit plan
    seen,           \* what prevalidation read
    tries,          \* attempts of _commit_impl
    reply,          \* the record the last call answered with
    calls           \* calls begun so far

locals == <<pc, call, snap, plan, seen, tries, reply>>
vars   == <<history, conflicts, locals, calls>>

Log == INSTANCE AuthorityLog WITH log <- history

NoRecord == [op |-> "none"]
NoCall   == [op |-> "none"]
Unseen   == [proof |-> FALSE, head |-> 0, guard |-> 0]
CommitAttempts == 3

Request == [op : Operations, agg : Aggregates, slot : Nat, data : Data, at : Nat]
Code    == {"IDEMPOTENCY_CONFLICT", "CANONICAL_RECORD_CORRUPTION_CONFLICT",
            "ILLEGAL_STATE_TRANSITION", "AGGREGATE_ALREADY_EXISTS_CONFLICT"}
\* same: the incoming command hash is the stored one.
Conflict == [op : Operations, agg : Aggregates, slot : Nat, code : Code,
             same : BOOLEAN]

Init ==
    /\ history   = [a \in Aggregates |-> <<>>]
    /\ conflicts = {}
    /\ pc        = [c \in Clients |-> "idle"]
    /\ call      = [c \in Clients |-> NoCall]
    /\ snap      = [c \in Clients |-> 0]
    /\ plan      = [c \in Clients |-> NoRecord]
    /\ seen      = [c \in Clients |-> Unseen]
    /\ tries     = [c \in Clients |-> 0]
    /\ reply     = [c \in Clients |-> NoRecord]
    /\ calls     = 0

Rev(a)       == Len(history[a])
Count(t, op) == Cardinality({i \in 1..Rev(t) : history[t][i].op = op})

----------------------------------------------------------------------------
(* How a call ends: with an answer naming a stored record, or with an      *)
(* exception.                                                              *)

End(c, r) ==
    /\ pc'    = [pc EXCEPT ![c] = "idle"]
    /\ call'  = [call EXCEPT ![c] = NoCall]
    /\ snap'  = [snap EXCEPT ![c] = 0]
    /\ plan'  = [plan EXCEPT ![c] = NoRecord]
    /\ seen'  = [seen EXCEPT ![c] = Unseen]
    /\ tries' = [tries EXCEPT ![c] = 0]
    /\ reply' = [reply EXCEPT ![c] = r]
    /\ UNCHANGED calls
Raise(c) == End(c, NoRecord)

Store == <<history, conflicts>>

\* record_authority_conflict, and emit_conflict of the commit script.
Evidence(q, code, same) ==
    conflicts' = conflicts \cup {[op |-> q.op, agg |-> q.agg, slot |-> q.slot,
                                  code |-> code, same |-> same]}

\* The process dies, a read fails, or the evidence in the task keys refuses
\* the call.
Abandon(c) ==
    /\ pc[c] # "idle"
    /\ Raise(c)
    /\ UNCHANGED Store

----------------------------------------------------------------------------
(* Requests.  Attempts and epochs come from the task's durable metadata,   *)
(* which may lag behind the canonical history and is never ahead of it.    *)

Slots(op, t) ==
    CASE op \in CreateOps \cup {"RUN_TERMINATE"} -> {0}
      [] op = "TASK_DISPATCH"   -> 1..(Count(t, "TASK_REQUEUE") + 1)
      [] op = "TASK_CLAIM"      -> 1..Count(t, "TASK_DISPATCH")
      [] op \in TerminalOps     -> 1..Count(t, "TASK_CLAIM")
      [] op = "TASK_REQUEUE"    -> {e \in 1..Count(t, "TASK_CLAIM") : e < MaxAttempts}
Inputs(op) ==
    CASE op = "RUN_CREATE"    -> Roots
      [] op = "TASK_ADMIT"    -> Admissions
      [] op = "RUN_TERMINATE" -> {NoData}
      [] OTHER                -> Workers
\* RUN_CREATE is stamped with the created_at_ms of its reservation receipt,
\* the same for every caller; the others with the caller's clock.
Stamps(op) == IF op = "RUN_CREATE" THEN {NoTime} ELSE Times

Begin(c) ==
    /\ pc[c] = "idle"
    /\ calls < MaxCalls
    /\ \E op \in May[c] :
       \E a \in (IF op \in RunOps THEN {Run} ELSE Tasks) :
       \E s \in Slots(op, a), d \in Inputs(op), w \in Stamps(op) :
          call' = [call EXCEPT ![c] = [op |-> op, agg |-> a, slot |-> s,
                                       data |-> d, at |-> w]]
    /\ calls' = calls + 1
    /\ pc'    = [pc EXCEPT ![c] = "snapshot"]
    /\ reply' = [reply EXCEPT ![c] = NoRecord]
    /\ UNCHANGED <<Store, snap, plan, seen, tries>>

\* get_aggregate_snapshot
ReadSnapshot(c) ==
    /\ pc[c] = "snapshot"
    /\ snap' = [snap EXCEPT ![c] = Rev(call[c].agg)]
    /\ pc'   = [pc EXCEPT ![c] = IF call[c].op = "RUN_TERMINATE"
                                 THEN "head" ELSE "probe"]
    /\ UNCHANGED <<Store, call, plan, seen, tries, reply, calls>>

----------------------------------------------------------------------------
(* Evaluation of the receipt against the snapshot.  The second read may    *)
(* see an operation that committed after the first.                        *)

\* n: the snapshot's revision, p: where the operation is stored (0: nowhere).
Torn(q, n, p) ==
    CASE q.op = "RUN_CREATE"    -> n # p
      [] q.op = "TASK_ADMIT"    -> (n = 0) # (p = 0)
      [] q.op = "TASK_DISPATCH" -> p # 0 /\ n # p
      [] q.op \in {"TASK_CLAIM", "TASK_REQUEUE"} -> p > n
      [] OTHER                  -> FALSE
\* A torn read is durable evidence of corruption for two of the bindings.
TornIsEvidence(q) == q.op \in {"TASK_ADMIT", "TASK_DISPATCH"}

\* The command differs from the stored one; dispatch, claim, terminal and
\* requeue retries take over the stored clock reading first.
Differs(q, r) ==
    \/ q.op # r.op
    \/ q.data # r.data
    \/ q.op \in CreateOps \cup {"RUN_TERMINATE"} /\ q.at # r.at
DifferenceIsEvidence(q) == q.op \notin {"TASK_CLAIM", "RUN_TERMINATE"}

\* Mutant: the notification's trigger_terminal_state chooses the outcome.
NextStateOfTrigger(q) ==
    CASE q.op = "TASK_ADMIT"    -> q.data
      [] q.op = "RUN_TERMINATE" -> "skipped"
      [] OTHER                  -> CHOOSE s \in After[q.op] : TRUE
NextState(q) ==
    CASE q.op = "TASK_ADMIT"    -> q.data
      [] q.op = "RUN_TERMINATE" -> StateAt(history[RootOf(history[Run])], q.slot)
      [] OTHER                  -> CHOOSE s \in After[q.op] : TRUE
NewRecord(q, n) ==
    [op |-> q.op, slot |-> q.slot, from |-> n,
     prev |-> StateAt(history[q.agg], n), next |-> NextState(q),
     data |-> q.data, at |-> q.at]

\* The first application: the head must be in a state the operation leaves
\* and, for the three operations that quote it, the exact dispatch or claim.
Applicable(q, n) ==
    /\ StateAt(history[q.agg], n) \in Before[q.op]
    /\ Follows(NewRecord(q, n), history[q.agg])
QuotesHead(q) == q.op \in TerminalOps \cup {"TASK_CLAIM", "TASK_REQUEUE"}

\* No receipt: plan the commit.
Plan(c, q, n) ==
    /\ Applicable(q, n)
    /\ plan' = [plan EXCEPT ![c] = NewRecord(q, n)]
    /\ pc'   = [pc EXCEPT ![c] = IF QuotesHead(q) THEN "head" ELSE "prevalidate"]
    /\ UNCHANGED <<Store, call, snap, seen, tries, reply, calls>>

\* No receipt, and the operation does not apply.  Only a dispatch leaves
\* evidence of it.
Inapplicable(c, q, n) ==
    /\ ~Applicable(q, n)
    /\ Raise(c)
    /\ IF q.op = "TASK_DISPATCH" THEN Evidence(q, "ILLEGAL_STATE_TRANSITION", FALSE)
       ELSE UNCHANGED conflicts
    /\ UNCHANGED history

\* A receipt of the same command: the stored record is the answer.  While it
\* is the head, it is validated as the head first; a terminal record always.
Replay(c, q, n, p) ==
    /\ ~Torn(q, n, p)
    /\ ~Differs(q, history[q.agg][p])
    /\ IF n > p /\ q.op \notin TerminalOps
       THEN End(c, history[q.agg][p])
       ELSE /\ snap' = [snap EXCEPT ![c] = p]
            /\ pc'   = [pc EXCEPT ![c] = "head"]
            /\ UNCHANGED <<call, plan, seen, tries, reply, calls>>
    /\ UNCHANGED Store

\* The provisional command of a torn read expects the snapshot's revision and
\* carries the caller's clock reading.
TornRead(c, q, n, p) ==
    /\ Torn(q, n, p)
    /\ q.op = "TASK_REQUEUE" => ~Differs(q, history[q.agg][p])
    /\ Raise(c)
    /\ IF TornIsEvidence(q)
       THEN LET r == history[q.agg][p] IN
            Evidence(q, "CANONICAL_RECORD_CORRUPTION_CONFLICT",
                     /\ p # 0
                     /\ r.from = n /\ r.data = q.data /\ r.at = q.at)
       ELSE UNCHANGED conflicts
    /\ UNCHANGED history

OtherCommand(c, q, n, p) ==
    /\ q.op = "TASK_REQUEUE" \/ ~Torn(q, n, p)
    /\ Differs(q, history[q.agg][p])
    /\ Raise(c)
    /\ IF DifferenceIsEvidence(q) THEN Evidence(q, "IDEMPOTENCY_CONFLICT", FALSE)
       ELSE UNCHANGED conflicts
    /\ UNCHANGED history

ReadProbe(c) ==
    LET q == call[c]
        n == snap[c]
        p == Probe(history[q.agg], OperationId(q)) IN
    /\ pc[c] = "probe"
    /\ \/ p = 0 /\ ~Torn(q, n, 0) /\ (Plan(c, q, n) \/ Inapplicable(c, q, n))
       \/ p # 0 /\ (Replay(c, q, n, p) \/ OtherCommand(c, q, n, p))
       \/ TornRead(c, q, n, p)

\* validate_authority_head: the head is still the record the call relies on.
ValidateHead(c) ==
    LET q == call[c] IN
    /\ pc[c] = "head"
    /\ IF snap[c] = 0 \/ Rev(q.agg) # snap[c] THEN Raise(c)
       ELSE IF plan[c] # NoRecord \/ history[q.agg][snap[c]].op # q.op
            THEN /\ pc' = [pc EXCEPT ![c] = IF plan[c] # NoRecord
                                            THEN "prevalidate" ELSE "root"]
                 /\ UNCHANGED <<call, snap, plan, seen, tries, reply, calls>>
            ELSE End(c, history[q.agg][snap[c]])
    /\ UNCHANGED Store

\* _capture_canonical_proof: the head of the root task names the operation.
CaptureRoot(c) ==
    LET root == RootOf(history[Run]) IN
    /\ pc[c] = "root"
    /\ IF root \in Tasks /\ State(history[root]) \in Ended
       THEN /\ call' = [call EXCEPT ![c].slot = Rev(root)]
            /\ pc'   = [pc EXCEPT ![c] = "probe"]
            /\ UNCHANGED <<snap, plan, seen, tries, reply, calls>>
       ELSE Raise(c)
    /\ UNCHANGED Store

----------------------------------------------------------------------------
(* RedisCanonicalAuthorityStore._commit_impl.                              *)

\* The aggregate whose head guards the commit.
Guard(op) == IF op = "RUN_TERMINATE" THEN RootOf(history[Run]) ELSE Run
Guarded   == TerminalOps \cup {"TASK_ADMIT", "RUN_TERMINATE"}

\* The proofs of the operation and of the head, and the guard's head.  Reads
\* of several calls: the script compares each of them again.
Prevalidate(c) ==
    LET r == plan[c]
        a == call[c].agg
        p == Probe(history[a], OperationId(r)) IN
    /\ pc[c] = "prevalidate"
    /\ IF r.op \in TerminalOps /\ Rev(Run) = 0 THEN Raise(c)
       ELSE /\ seen' = [seen EXCEPT ![c] =
                   [proof |-> p # 0, head |-> Rev(a),
                    guard |-> IF r.op \in Guarded THEN Rev(Guard(r.op)) ELSE 0]]
            /\ tries' = [tries EXCEPT ![c] = @ + 1]
            /\ pc'    = [pc EXCEPT ![c] = "commit"]
            /\ UNCHANGED <<call, snap, plan, reply, calls>>
    /\ UNCHANGED Store

\* The script's answer for the guard seen at revision g: "OK" to go on.
GuardResult(a, r, g) ==
    LET root == RootOf(history[Run]) IN
    CASE r.op = "TASK_ADMIT" ->
           IF Rev(Run) # g THEN "RETRY"
           ELSE IF IF root = NoTask THEN RequireRoot
                   ELSE root # a \/ StateAt(history[Run], g) \in Ended
                THEN "ILLEGAL_STATE_TRANSITION" ELSE "OK"
      [] r.op \in TerminalOps ->
           IF Rev(Run) # g THEN "RETRY"
           ELSE IF StateAt(history[Run], g) \in Ended
                THEN "ILLEGAL_STATE_TRANSITION" ELSE "OK"
      [] r.op = "RUN_TERMINATE" ->
           IF root \notin Tasks THEN "ILLEGAL_STATE_TRANSITION"
           ELSE IF Rev(root) # g THEN "GUARD_CORRUPT"
           ELSE IF r.slot # g \/ r.next # StateAt(history[root], g)
                THEN "ILLEGAL_STATE_TRANSITION" ELSE "OK"
      [] OTHER -> "OK"

\* Mutant: neither the revision nor the state is compared.
HeadResultLastWriter(a, r, n) == IF Rev(a) # n THEN "RETRY" ELSE "COMMITTED"

\* The script's answer for the head seen at revision n.
HeadResult(a, r, n) ==
    IF Rev(a) # n THEN "RETRY"
    ELSE IF Rev(a) < r.from THEN "FUTURE_REVISION_CONFLICT"
    ELSE IF Rev(a) > r.from
         THEN IF r.op \in CreateOps THEN "AGGREGATE_ALREADY_EXISTS_CONFLICT"
              ELSE "STALE_REVISION_CONFLICT"
    ELSE IF StateAt(history[a], Rev(a)) # r.prev THEN "ILLEGAL_STATE_TRANSITION"
    ELSE "COMMITTED"

\* Receipt first: a stored operation is resolved before anything else.
ReceiptResult(a, r, p, proofSeen) ==
    IF ~proofSeen THEN "RETRY"
    ELSE IF history[a][p] = r THEN "ALREADY_APPLIED"
    ELSE IF Command(history[a][p]) = Command(r)
         THEN "CANONICAL_RECORD_CORRUPTION_CONFLICT"
    ELSE "IDEMPOTENCY_CONFLICT"

CommitResult(c) ==
    LET r == plan[c]
        a == call[c].agg
        s == seen[c]
        p == Probe(history[a], OperationId(r))
        g == GuardResult(a, r, s.guard) IN
    IF p # 0 THEN ReceiptResult(a, r, p, s.proof)
    ELSE IF g # "OK" THEN g
    ELSE HeadResult(a, r, s.head)

\* What the script writes before it answers.
CommitEffect(c, result) ==
    /\ history' = IF result = "COMMITTED"
                  THEN [history EXCEPT ![call[c].agg] = Append(@, plan[c])]
                  ELSE history
    /\ IF result \in {"CANONICAL_RECORD_CORRUPTION_CONFLICT", "IDEMPOTENCY_CONFLICT",
                      "AGGREGATE_ALREADY_EXISTS_CONFLICT"}
       THEN Evidence(call[c], result, result = "CANONICAL_RECORD_CORRUPTION_CONFLICT")
       ELSE UNCHANGED conflicts

\* Mutant: a refused task binding starts over as well.
RestartsWhenRefused(op, result) ==
    /\ op \in TaskOps
    /\ result \in {"ALREADY_APPLIED", "IDEMPOTENCY_CONFLICT",
                   "STALE_REVISION_CONFLICT", "ILLEGAL_STATE_TRANSITION"}

\* The answers on which the three worker-side bindings start over.
Restarts(op, result) ==
    \/ op \in TerminalOps \cup {"TASK_CLAIM", "TASK_REQUEUE"}
       /\ result \in {"ALREADY_APPLIED", "IDEMPOTENCY_CONFLICT"}
    \/ op = "TASK_REQUEUE" /\ result = "STALE_REVISION_CONFLICT"

Goto(c, l) ==
    /\ pc' = [pc EXCEPT ![c] = l]
    /\ UNCHANGED <<call, snap, plan, seen, tries, reply, calls>>
\* From here the call knows its record by revision n and has no plan.
Settled(c, n, l) ==
    /\ pc'    = [pc EXCEPT ![c] = l]
    /\ snap'  = [snap EXCEPT ![c] = n]
    /\ plan'  = [plan EXCEPT ![c] = NoRecord]
    /\ seen'  = [seen EXCEPT ![c] = Unseen]
    /\ tries' = [tries EXCEPT ![c] = 0]
    /\ UNCHANGED <<call, reply, calls>>

\* A task binding answers with the record it committed; a RUN binding
\* validates that it is the head before it settles and projects.
Accepted(c) ==
    IF call[c].op \in RunOps THEN Settled(c, plan[c].from + 1, "head")
    ELSE End(c, plan[c])

\* ALREADY_APPLIED to a binding that does not start over.
Duplicate(c) ==
    IF call[c].op \in RunOps THEN Goto(c, "resolve")
    ELSE Settled(c, plan[c].from + 1, "head")

\* commit returned a refusal, or raised because the proofs kept changing: a
\* RUN binding treats what commit raises as a lost answer.
Refused(c, result) ==
    IF result = "RETRY" /\ call[c].op \in RunOps THEN Goto(c, "resolve")
    ELSE Raise(c)

Commit(c) ==
    LET result == CommitResult(c)
        op     == call[c].op IN
    /\ pc[c] = "commit"
    /\ CommitEffect(c, result)
    /\ \/ result = "COMMITTED" /\ Accepted(c)
       \/ result = "RETRY" /\ tries[c] < CommitAttempts /\ Goto(c, "prevalidate")
       \/ result = "ALREADY_APPLIED" /\ ~Restarts(op, result) /\ Duplicate(c)
       \/ Restarts(op, result) /\ Settled(c, 0, "snapshot")
       \/ /\ result \notin {"COMMITTED", "ALREADY_APPLIED"}
          /\ result = "RETRY" => tries[c] >= CommitAttempts
          /\ ~Restarts(op, result)
          /\ Refused(c, result)

\* The answer is lost, after the script ran or without its having run.  A
\* RUN binding then looks for its receipt, a task binding raises.
CommitUnanswered(c) ==
    /\ pc[c] = "commit"
    /\ CommitEffect(c, CommitResult(c)) \/ UNCHANGED Store
    /\ IF call[c].op \in RunOps THEN Goto(c, "resolve") ELSE Raise(c)

\* Mutant: any receipt of the operation settles the lost answer.
ResolveAnyReceipt(c) ==
    /\ pc[c] = "resolve"
    /\ IF Probe(history[call[c].agg], OperationId(plan[c])) # 0
       THEN End(c, plan[c]) ELSE Raise(c)
    /\ UNCHANGED Store

\* _resolve_ambiguous_commit and _resolve_exact_durable_commit
Resolve(c) ==
    LET a == call[c].agg
        p == Probe(history[a], OperationId(plan[c])) IN
    /\ pc[c] = "resolve"
    /\ IF p # 0 /\ p = Rev(a) /\ Command(history[a][p]) = Command(plan[c])
       THEN End(c, history[a][p])
       ELSE Raise(c)
    /\ UNCHANGED Store

----------------------------------------------------------------------------
Step(c) ==
    \/ ReadSnapshot(c) \/ ReadProbe(c) \/ ValidateHead(c) \/ CaptureRoot(c)
    \/ Prevalidate(c)  \/ Commit(c)    \/ Resolve(c)

Next == \E c \in Clients :
    \/ Begin(c) \/ Step(c) \/ CommitUnanswered(c) \/ Abandon(c)

\* Every await of a call returns or raises; callers need not call again.
Fairness == \A c \in Clients : WF_vars(Step(c))
Spec     == Init /\ [][Next]_vars
FairSpec == Spec /\ Fairness

----------------------------------------------------------------------------
(* Properties.                                                             *)

LABELS == {"idle", "snapshot", "probe", "head", "root", "prevalidate", "commit",
           "resolve"}

(* The types of the store and of the calls in progress.                    *)
TypeOK ==
    /\ history   \in [Aggregates -> Seq(Record)]
    /\ conflicts \subseteq Conflict
    /\ pc        \in [Clients -> LABELS]
    /\ call      \in [Clients -> Request \cup {NoCall}]
    /\ snap      \in [Clients -> Nat]
    /\ plan      \in [Clients -> Record \cup {NoRecord}]
    /\ seen      \in [Clients -> [proof : BOOLEAN, head : Nat, guard : Nat]]
    /\ tries     \in [Clients -> 0..CommitAttempts]
    /\ reply     \in [Clients -> Record \cup {NoRecord}]
    /\ calls     \in Nat

(* However calls interleave, retry and lose their answers, the store is    *)
(* the log it promises to be: contiguous, one record per operation, every  *)
(* claim, end and requeue on the exact record it quotes, no task ended     *)
(* under an ended RUN.                                                     *)
KeepsLog == Log!Spec

(* Whatever a reader of the RUN sees as its outcome is what its root task  *)
(* has ended with, for good.                                               *)
RunEndsAsRoot == Log!RunEndsAsRoot

(* A call answers only with a record that is in the store: what a binding  *)
(* goes on to project is a durable decision, also when it lost the race    *)
(* for its operation.                                                      *)
AnswersAreDurable ==
    \A c \in Clients : reply[c] # NoRecord =>
        \E a \in Aggregates : \E i \in 1..Rev(a) : history[a][i] = reply[c]

(* A binding call ends: the bounded commit attempts and the restarts of    *)
(* the terminal, claim and requeue bindings do not chase each other.       *)
CallsReturn == \A c \in Clients : pc[c] # "idle" ~> pc[c] = "idle"

(* "same_attempt_same_exact_command: ALREADY_APPLIED" (SPRINT84.1): a      *)
(* retried dispatch is never filed as corruption of the store.             *)
ExactDispatchNotCorrupt ==
    \A k \in conflicts : k.op = "TASK_DISPATCH" /\ k.same =>
        k.code # "CANONICAL_RECORD_CORRUPTION_CONFLICT"

(* "Exact duplicate classification is command-hash based over semantic     *)
(* fields" (task_requeue_authority.py): the observation times of two       *)
(* sweeps do not tell their requeues apart.                                *)
SameRequeueNotCorrupt ==
    \A k \in conflicts : k.op = "TASK_REQUEUE" /\ k.same =>
        k.code # "CANONICAL_RECORD_CORRUPTION_CONFLICT"
=============================================================================
