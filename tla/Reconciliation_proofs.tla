------------------------- MODULE Reconciliation_proofs -------------------------
(***************************************************************************)
(* Proofs about the read-only reconcilers: their findings speak of one     *)
(* moment, and what they find of the past stays true.                      *)
(***************************************************************************)
EXTENDS Reconciliation, TLAPS

---------------------------------------------------------------------------
(* What is read, in which order.                                           *)

RunKinds == {"create", "proof", "settlement"}
TaskKeys == {"head", "state", "meta", "ready", "running"}
RunCells == {"run", "proof", "receipt"}

\* The first pass over the cells of a RUN; the second is its mirror image.
Half(k) == IF k = "settlement" THEN 3 ELSE 2

LEMMA TaskPlan ==
  LET p == Plans["task"] IN
  /\ Len(p) = 10 /\ DOMAIN p = 1..10
  /\ p[1] = "head" /\ p[10] = "head"
  /\ p[2] = "state" /\ p[3] = "meta" /\ p[4] = "ready" /\ p[5] = "running"
  /\ p[6] = "state" /\ p[7] = "meta" /\ p[8] = "ready" /\ p[9] = "running"
  /\ ToSet(p) = TaskKeys
<1> DEFINE a == <<"head">> \o TaskCells
           b == a \o TaskCells
           p == b \o <<"head">>
<1>1. Plans["task"] = p
  BY DEF Plans
<1>2. TaskCells \in Seq(TaskKeys) /\ Len(TaskCells) = 4
  BY DEF TaskCells, TaskKeys
<1>3. a \in Seq(TaskKeys) /\ Len(a) = 5 /\ a[1] = "head" /\ a[2] = "state"
      /\ a[3] = "meta" /\ a[4] = "ready" /\ a[5] = "running"
  BY <1>2 DEF TaskCells, TaskKeys
<1>4. b \in Seq(TaskKeys) /\ Len(b) = 9 /\ \A i \in 1..5 : b[i] = a[i]
  BY <1>2, <1>3
<1>5. b[6] = "state" /\ b[7] = "meta" /\ b[8] = "ready" /\ b[9] = "running"
  BY <1>2, <1>3 DEF TaskCells
<1>6. p \in Seq(TaskKeys) /\ Len(p) = 10 /\ p[10] = "head" /\ \A i \in 1..9 : p[i] = b[i]
  BY <1>4 DEF TaskKeys
<1>7. /\ p[1] = "head" /\ p[2] = "state" /\ p[3] = "meta" /\ p[4] = "ready"
      /\ p[5] = "running" /\ p[6] = "state" /\ p[7] = "meta" /\ p[8] = "ready"
      /\ p[9] = "running"
  BY <1>3, <1>4, <1>5, <1>6
<1> HIDE DEF p
<1>8. DOMAIN p = 1..10
  BY <1>6
<1>9. ToSet(p) = TaskKeys
  BY <1>6, <1>7, <1>8 DEF ToSet, TaskKeys
<1> QED BY <1>1, <1>6, <1>7, <1>8, <1>9

LEMMA RunPlan ==
  ASSUME NEW k \in RunKinds
  PROVE  /\ Len(Plans[k]) = 2 * Half(k) /\ Half(k) \in {2, 3}
         /\ DOMAIN Plans[k] = 1..Len(Plans[k])
         /\ \A i \in 1..Half(k) : Plans[k][Len(Plans[k]) + 1 - i] = Plans[k][i]
         /\ \A i \in 1..Half(k) : \A j \in (Len(Plans[k]) + 2 - i)..Len(Plans[k]) :
              Plans[k][j] # Plans[k][i]
         /\ \A i \in 1..Len(Plans[k]) : Plans[k][i] \in RunCells
         /\ \A c \in ToSet(Plans[k]) : \E i \in 1..Half(k) : c = Plans[k][i]
         /\ ToSet(Plans[k]) \subseteq RunCells
<1>1. CASE k = "create"
  BY <1>1 DEF Plans, Half, RunCells, ToSet
<1>2. CASE k = "proof"
  BY <1>2 DEF Plans, Half, RunCells, ToSet
<1>3. CASE k = "settlement"
  BY <1>3 DEF Plans, Half, RunCells, ToSet
<1> QED BY <1>1, <1>2, <1>3 DEF RunKinds

---------------------------------------------------------------------------
(* The inductive invariant.                                                *)

Heads == [rev : Nat, op : TaskOps]
Metas == [rev : Nat, requeued : Nat, notified : Nat]
Runs == {"none", "created", "ended", "proven"}
Receipts == {"none", "RESERVED", "FINALIZED", "RELEASED", "SETTLED"}
States == {"ready", "scheduled", "running", "done", "failed", "lost"}
World == [head : Heads, state : States, meta : Metas, ready : Nat, running : Nat,
          run : Runs, proof : {"none", "written"}, receipt : Receipts]
Values == Heads \cup States \cup Metas \cup Nat \cup Runs \cup {"written"} \cup Receipts

(* The keys.  A ready queue never holds a revision that is not projected.  *)
CellInv ==
    /\ subject \in {"task", "run"} /\ cell \in World
    /\ cell.head.rev \in 1..MaxRevision
    /\ cell.meta.rev \in {cell.head.rev, cell.head.rev - 1}
    /\ cell.meta.notified <= cell.meta.requeued /\ cell.meta.requeued <= cell.meta.rev
    /\ cell.ready <= cell.meta.rev

NRead == Len(obs.seen)
Seen == obs.seen

Observations ==
    [kind : RunKinds \cup {"task"}, op : TaskOps \cup {None}, seen : Seq(Values), unread : BOOLEAN]

(* The observation under way, and the moment it is in.                     *)
ObsInv ==
    obs # None =>
        /\ obs \in Observations
        /\ obs.kind = "task" <=> subject = "task"
        /\ NRead <= Len(Plans[obs.kind])
        /\ Moment(obs, cell) \in moments

(* Of a RUN no key ever returns to a value it has left.                    *)
Becomes(a, b) ==
    \/ a = b \/ a = "none"
    \/ (a = "created" /\ b \in {"ended", "proven"})
    \/ (a = "RESERVED" /\ b \in {"FINALIZED", "RELEASED", "SETTLED"})
    \/ (a = "FINALIZED" /\ b = "SETTLED")

(* The moment in the middle of a RUN's plan: what was read in the first    *)
(* pass became what the keys held then, which became what the second pass  *)
(* read.                                                                   *)
RunMiddle(m) ==
    LET p == Plans[obs.kind] IN
    /\ m = [c \in ToSet(p) |-> m[c]]
    /\ \A i \in 1..Half(obs.kind) : Becomes(Seen[i], m[p[i]]) /\ Becomes(m[p[i]], cell[p[i]])
    /\ \A i \in (Half(obs.kind) + 1)..NRead : Becomes(m[p[i]], Seen[i])

RunInv ==
    (obs # None /\ obs.kind # "task") =>
        /\ \A i \in 1..NRead : Becomes(Seen[i], cell[Plans[obs.kind][i]])
        /\ NRead >= Half(obs.kind) => \E m \in moments : RunMiddle(m)

(* The keys of a task do return to earlier values: ready, scheduled,       *)
(* running, ready.  They do not while the head is the same.                *)
StateBecomes(op, a, b) ==
    a = b \/ b = "lost" \/ (a = StateBefore(op) /\ b = StateOf(op))

MetaValues == IF obs.op = "TASK_REQUEUE" THEN Metas ELSE Nat
MetaBecomes(a, b) ==
    IF obs.op = "TASK_REQUEUE"
    THEN a.rev <= b.rev /\ a.requeued <= b.requeued /\ a.notified <= b.notified
    ELSE a <= b

\* What the read at position i returned, or would return now.
ReadOr(i, c) == IF NRead < i THEN Value(obs, c, cell) ELSE Seen[i]

\* The head is the one that was read first, or was when it was read last.
SameHead == ReadOr(10, "head") = Seen[1]

(* The moment of the read in the middle.  The ready queue may have been    *)
(* damaged between its first read and this one: then it is not restored to *)
(* what was read, or another transition was projected too.                 *)
TaskMiddle(m) ==
    /\ m = [c \in TaskKeys |-> m[c]]
    /\ m["head"] = Seen[1] /\ m["meta"] \in MetaValues /\ m["running"] = Seen[5]
    /\ StateBecomes(Seen[1].op, Seen[2], m["state"])
    /\ StateBecomes(Seen[1].op, m["state"], ReadOr(6, "state"))
    /\ MetaBecomes(Seen[3], m["meta"]) /\ MetaBecomes(m["meta"], ReadOr(7, "meta"))
    /\ \/ m["ready"] = Seen[4] \/ m["meta"] # Seen[3]
       \/ (Seen[4] # 0 /\ Seen[4] # ReadOr(8, "ready"))

TaskTyped ==
    /\ NRead >= 1 => Seen[1] \in Heads /\ (Seen[1] = cell.head \/ Seen[1].rev < cell.head.rev)
    /\ NRead >= 3 => Seen[3] \in MetaValues
    /\ NRead >= 4 => Seen[4] \in Nat /\ Seen[4] <= cell.meta.rev
    /\ NRead >= 7 => Seen[7] \in MetaValues

TaskHalf ==
    /\ NRead >= 2 => StateBecomes(Seen[1].op, Seen[2], cell.state)
    /\ NRead >= 3 => MetaBecomes(Seen[3], Value(obs, "meta", cell))
    /\ NRead >= 4 => \/ Seen[4] = Value(obs, "ready", cell) \/ Seen[3] # Value(obs, "meta", cell)
                     \/ (Seen[4] # 0 /\ Value(obs, "ready", cell) = 0)

TaskInv ==
    (obs # None /\ obs.kind = "task") =>
        /\ TaskTyped
        /\ (NRead \in 1..4 /\ SameHead) => TaskHalf
        /\ (NRead >= 5 /\ SameHead) => \E m \in moments : TaskMiddle(m)

(* The findings.                                                           *)
ReportInv ==
    /\ report # None =>
         /\ report.status \in {"CONSISTENT", "DRIFT", "BLOCKED_EVIDENCE"}
         /\ report.kind = "task" <=> subject = "task"
    /\ ReportIsSnapshot /\ HistoricalFindingHolds

IInv == CellInv /\ ObsInv /\ RunInv /\ TaskInv /\ ReportInv

---------------------------------------------------------------------------
(* Orders.                                                                 *)

LEMMA BecomesOrder ==
  /\ \A a : Becomes(a, a)
  /\ \A a, b, c : Becomes(a, b) /\ Becomes(b, c) => Becomes(a, c)
  /\ \A a, b : Becomes(a, b) /\ Becomes(b, a) => a = b
<1>1. \A a : Becomes(a, a)
  BY DEF Becomes
<1>2. \A a, b, c : Becomes(a, b) /\ Becomes(b, c) => Becomes(a, c)
  BY DEF Becomes
<1>3. \A a, b : Becomes(a, b) /\ Becomes(b, a) => a = b
  BY DEF Becomes
<1> QED BY <1>1, <1>2, <1>3

LEMMA StateOrder ==
  ASSUME NEW op \in TaskOps
  PROVE  /\ \A a : StateBecomes(op, a, a)
         /\ \A a, b, c : StateBecomes(op, a, b) /\ StateBecomes(op, b, c)
                         => StateBecomes(op, a, c)
         /\ \A a, b : StateBecomes(op, a, b) /\ StateBecomes(op, b, a) => a = b
<1>1. StateBefore(op) # StateOf(op) /\ StateBefore(op) # "lost" /\ StateOf(op) # "lost"
  BY DEF StateBefore, StateOf, TaskOps
<1> QED BY <1>1 DEF StateBecomes

LEMMA MetaOrder ==
  /\ \A a \in MetaValues : MetaBecomes(a, a)
  /\ \A a, b, c \in MetaValues : MetaBecomes(a, b) /\ MetaBecomes(b, c) => MetaBecomes(a, c)
  /\ \A a, b \in MetaValues : MetaBecomes(a, b) /\ MetaBecomes(b, a) => a = b
<1>1. CASE obs.op = "TASK_REQUEUE"
  <2>1. \A a \in Metas : MetaBecomes(a, a)
    BY <1>1 DEF MetaBecomes, Metas
  <2>2. \A a, b, c \in Metas : MetaBecomes(a, b) /\ MetaBecomes(b, c) => MetaBecomes(a, c)
    BY <1>1 DEF MetaBecomes, Metas
  <2>3. \A a, b \in Metas : MetaBecomes(a, b) /\ MetaBecomes(b, a) => a = b
    BY <1>1 DEF MetaBecomes, Metas
  <2> QED BY <1>1, <2>1, <2>2, <2>3 DEF MetaValues
<1>2. CASE obs.op # "TASK_REQUEUE"
  BY <1>2 DEF MetaValues, MetaBecomes
<1> QED BY <1>1, <1>2

---------------------------------------------------------------------------
(* The keys.                                                               *)

LEMMA StateTyped ==
  \A op \in TaskOps : StateOf(op) \in States /\ StateBefore(op) \in States
BY DEF TaskOps, StateOf, StateBefore, States

\* A write is noted by whoever is observing.
LEMMA WriteNoted ==
  ASSUME NEW w, Write(w)
  PROVE  /\ cell' = w /\ obs' = obs /\ report' = report
         /\ obs # None => moments \subseteq moments' /\ Moment(obs, cell') \in moments'
BY DEF Write

\* What a write of the task world may do: a new head over keys that are not
\* touched, or new keys under the old head.
TaskForward ==
    \/ cell'.head.rev = cell.head.rev + 1 /\ cell'.meta = cell.meta
    \/ /\ cell'.head = cell.head
       /\ StateBecomes(cell.head.op, cell.state, cell'.state)
       /\ cell.meta.rev <= cell'.meta.rev
       /\ cell.meta.requeued <= cell'.meta.requeued
       /\ cell.meta.notified <= cell'.meta.notified
       /\ \/ cell'.ready \in {cell.ready, 0}
          \/ cell.meta.rev < cell'.meta.rev /\ cell.meta.rev < cell'.ready

LEMMA CommitForward ==
  ASSUME CellInv, subject' = subject, NEW op \in TaskOps, Commit(op)
  PROVE  CellInv' /\ TaskForward
<1>1. cell' = [cell EXCEPT !.head = [rev |-> @.rev + 1, op |-> op]]
  BY DEF Commit, Write
<1>2. cell'.head = [rev |-> cell.head.rev + 1, op |-> op]
      /\ cell'.meta = cell.meta /\ cell'.ready = cell.ready
  BY <1>1 DEF CellInv, World
<1>3. cell' \in World
  BY <1>1, <1>2 DEF CellInv, World, Heads
<1>4. cell.head.rev < MaxRevision /\ cell.meta.rev = cell.head.rev
  BY DEF Commit
<1> QED BY <1>2, <1>3, <1>4, ConstantsAssumption DEF CellInv, World, Heads, TaskForward

LEMMA ProjectForward ==
  ASSUME CellInv, subject' = subject, Project
  PROVE  CellInv' /\ TaskForward
<1> DEFINE h == cell.head
<1>1. h \in Heads /\ h.rev \in Nat /\ h.op \in TaskOps /\ cell.meta \in Metas
      /\ cell.meta.rev = h.rev - 1 /\ cell.state = StateBefore(h.op)
      /\ cell.ready \in Nat /\ cell.running \in Nat
  BY DEF CellInv, World, Heads, Project
<1>2. /\ cell'.head = h /\ cell'.state = StateOf(h.op)
      /\ cell'.ready = IF h.op = "TASK_DISPATCH" \/ (h.op = "TASK_REQUEUE" /\ cell.ready = 0)
                       THEN Ready(h) ELSE cell.ready
      /\ cell'.running \in {cell.running, Running(h)}
      /\ cell'.meta = [cell.meta EXCEPT !.rev = h.rev, !.requeued = Requeued(h, cell.meta)]
      /\ cell'.run = cell.run /\ cell'.proof = cell.proof /\ cell'.receipt = cell.receipt
      /\ DOMAIN cell' = DOMAIN cell
      /\ cell' = [cell EXCEPT !.state = cell'.state, !.ready = cell'.ready,
                              !.running = cell'.running, !.meta = cell'.meta]
  BY DEF CellInv, World, Project, Write
<1>3. Ready(h) \in {0, h.rev} /\ Running(h) \in {0, h.rev}
      /\ Requeued(h, cell.meta) \in {h.rev, cell.meta.requeued}
  BY DEF Ready, Running, Requeued
<1>4. cell'.ready \in {cell.ready, 0, h.rev}
  BY <1>2, <1>3
<1>5. cell'.meta.rev = h.rev /\ cell'.meta.notified = cell.meta.notified
      /\ cell'.meta.requeued \in {h.rev, cell.meta.requeued} /\ cell'.meta \in Metas
  BY <1>1, <1>2, <1>3 DEF Metas
<1>6. cell' \in World
  <2>1. cell'.state \in States /\ cell'.ready \in Nat /\ cell'.running \in Nat
    BY <1>1, <1>2, <1>3, <1>4, StateTyped
  <2>2. \A s \in States, r, u \in Nat, m \in Metas :
          [cell EXCEPT !.state = s, !.ready = r, !.running = u, !.meta = m] \in World
    BY DEF CellInv, World
  <2>3. [cell EXCEPT !.state = cell'.state, !.ready = cell'.ready,
                     !.running = cell'.running, !.meta = cell'.meta] \in World
    BY <2>1, <2>2, <1>5, Zenon
  <2> QED BY <2>3, <1>2, Zenon
<1>7. StateBecomes(h.op, cell.state, cell'.state)
  BY <1>1, <1>2 DEF StateBecomes
<1>8. cell.meta.notified <= cell.meta.requeued /\ cell.meta.requeued <= cell.meta.rev
      /\ cell.ready <= cell.meta.rev /\ h.rev \in 1..MaxRevision
      /\ cell.meta.requeued \in Nat /\ cell.meta.notified \in Nat /\ cell.meta.rev \in Nat
  BY DEF CellInv, World, Metas
<1>9. CellInv'
  BY <1>1, <1>2, <1>4, <1>5, <1>6, <1>8, ConstantsAssumption DEF CellInv
<1>10. TaskForward
  BY <1>1, <1>2, <1>4, <1>5, <1>7, <1>8 DEF TaskForward
<1> QED BY <1>9, <1>10

LEMMA DeliverForward ==
  ASSUME CellInv, subject' = subject, Deliver
  PROVE  CellInv' /\ TaskForward
<1>1. cell' = [cell EXCEPT !.meta = [@ EXCEPT !.notified = cell.meta.requeued]]
  BY DEF Deliver, Write
<1>2. cell.meta \in Metas /\ cell.meta.rev \in Nat /\ cell.meta.requeued \in Nat
      /\ cell.meta.notified \in Nat /\ cell.ready \in Nat
  BY DEF CellInv, World, Metas
<1>3. /\ cell'.meta = [cell.meta EXCEPT !.notified = cell.meta.requeued]
      /\ cell'.head = cell.head /\ cell'.state = cell.state /\ cell'.ready = cell.ready
  BY <1>1 DEF CellInv, World
<1>4. cell'.meta \in Metas /\ cell'.meta.rev = cell.meta.rev
      /\ cell'.meta.requeued = cell.meta.requeued
      /\ cell'.meta.notified = cell.meta.requeued
  BY <1>2, <1>3 DEF Metas
<1>5. cell' \in World
  BY <1>1, <1>3, <1>4 DEF CellInv, World
<1>6. CellInv'
  BY <1>2, <1>3, <1>4, <1>5 DEF CellInv
<1>7. TaskForward
  BY <1>2, <1>3, <1>4 DEF CellInv, TaskForward, StateBecomes
<1> QED BY <1>6, <1>7

LEMMA DamageForward ==
  ASSUME CellInv, subject' = subject, NEW c \in {"state", "ready", "running"}, Damage(c)
  PROVE  CellInv' /\ TaskForward
<1> USE ConstantsAssumption
<1>1. /\ c = "state" => cell' = [cell EXCEPT !.state = "lost"]
      /\ c = "ready" => cell' = [cell EXCEPT !.ready = 0]
      /\ c = "running" => cell' = [cell EXCEPT !.running = MaxRevision + 1]
  BY DEF Damage, Write
<1>2. cell' \in World /\ cell'.head = cell.head /\ cell'.meta = cell.meta
      /\ cell'.state \in {cell.state, "lost"} /\ cell'.ready \in {cell.ready, 0}
  BY <1>1 DEF CellInv, World, States
<1>3. cell.meta.rev \in Nat /\ cell.meta.requeued \in Nat /\ cell.meta.notified \in Nat
      /\ cell.ready \in Nat
  BY DEF CellInv, World, Metas
<1>4. CellInv'
  BY <1>2, <1>3 DEF CellInv
<1>5. TaskForward
  BY <1>2, <1>3 DEF TaskForward, StateBecomes
<1> QED BY <1>4, <1>5

LEMMA TaskWrite ==
  ASSUME CellInv, subject' = subject, TaskNext
  PROVE  CellInv' /\ TaskForward /\ \E w : Write(w)
<1>1. CellInv' /\ TaskForward
  BY CommitForward, ProjectForward, DeliverForward, DamageForward DEF TaskNext
<1>2. \E w : Write(w)
  BY DEF TaskNext, Commit, Project, Deliver, Damage
<1> QED BY <1>1, <1>2

\* A write of the run world.
LEMMA RunWrite ==
  ASSUME CellInv, subject' = subject, RunNext
  PROVE  /\ CellInv' /\ \E w : Write(w)
         /\ \A c \in RunCells : Becomes(cell[c], cell'[c])
<1> USE DEF RunCells, Runs, Receipts
<1>1. ASSUME NEW a, NEW b \in Receipts, NEW rs, Receipt(a, b, rs), Becomes(a, b)
      PROVE  CellInv' /\ (\E w : Write(w)) /\ \A c \in RunCells : Becomes(cell[c], cell'[c])
  <2>1. cell' = [cell EXCEPT !.receipt = b] /\ cell.receipt = a /\ \E w : Write(w)
    BY <1>1 DEF Receipt, Write
  <2>2. cell' \in World /\ cell'.head = cell.head /\ cell'.meta = cell.meta
        /\ cell'.ready = cell.ready
    BY <2>1, <1>1 DEF CellInv, World
  <2>3. cell'["run"] = cell["run"] /\ cell'["proof"] = cell["proof"]
        /\ cell["receipt"] = a /\ cell'["receipt"] = b
    BY <2>1 DEF CellInv, World
  <2>4. \A c \in RunCells : Becomes(cell[c], cell'[c])
    BY <2>3, <1>1, BecomesOrder
  <2> QED BY <2>1, <2>2, <2>4 DEF CellInv
<1>2. CASE Reserve \/ Finalize \/ Release \/ Settle
  BY <1>2, <1>1 DEF Reserve, Finalize, Release, Settle, Becomes
<1>3. ASSUME NEW b \in Runs, Write([cell EXCEPT !.run = b]), Becomes(cell.run, b)
      PROVE  CellInv' /\ (\E w : Write(w)) /\ \A c \in RunCells : Becomes(cell[c], cell'[c])
  <2>1. cell' = [cell EXCEPT !.run = b] /\ \E w : Write(w)
    BY <1>3 DEF Write
  <2>2. cell' \in World /\ cell'.head = cell.head /\ cell'.meta = cell.meta
        /\ cell'.ready = cell.ready
    BY <2>1, <1>3 DEF CellInv, World
  <2>3. cell'["run"] = b /\ cell'["proof"] = cell["proof"]
        /\ cell'["receipt"] = cell["receipt"]
    BY <2>1 DEF CellInv, World
  <2>4. \A c \in RunCells : Becomes(cell[c], cell'[c])
    BY <2>3, <1>3, BecomesOrder
  <2> QED BY <2>1, <2>2, <2>4 DEF CellInv
<1>4. CASE Create \/ Terminate \/ TerminateWithProof
  BY <1>4, <1>3 DEF Create, Terminate, TerminateWithProof, Becomes
<1>5. CASE WriteProof
  <2>1. cell' = [cell EXCEPT !.proof = "written"] /\ cell.proof = "none" /\ \E w : Write(w)
    BY <1>5 DEF WriteProof, Write
  <2>2. cell' \in World /\ cell'.head = cell.head /\ cell'.meta = cell.meta
        /\ cell'.ready = cell.ready
    BY <2>1 DEF CellInv, World
  <2>3. cell'["run"] = cell["run"] /\ cell["proof"] = "none"
        /\ cell'["receipt"] = cell["receipt"]
    BY <2>1 DEF CellInv, World
  <2>4. \A c \in RunCells : Becomes(cell[c], cell'[c])
    BY <2>3, BecomesOrder DEF Becomes
  <2> QED BY <2>1, <2>2, <2>4 DEF CellInv
<1> QED BY <1>2, <1>4, <1>5 DEF RunNext

---------------------------------------------------------------------------
(* A write while somebody observes.                                        *)

LEMMA ValueTyped ==
  ASSUME CellInv, ObsInv, obs # None, NEW i \in 1..Len(Plans[obs.kind])
  PROVE  Value(obs, Plans[obs.kind][i], cell) \in Values
<1>1. CASE obs.kind = "task"
  <2>1. Plans[obs.kind][i] \in TaskKeys
    BY <1>1, TaskPlan DEF TaskKeys
  <2>2. \A c \in TaskKeys : Value(obs, c, cell) \in Values
    <3>1. Value(obs, "head", cell) \in Heads
      BY DEF Value, CellInv, World
    <3>2. Value(obs, "state", cell) \in States
      BY DEF Value, CellInv, World
    <3>3. Value(obs, "meta", cell) \in Metas \cup Nat
      BY DEF Value, CellInv, World, Metas
    <3>4. Value(obs, "ready", cell) \in Nat /\ Value(obs, "running", cell) \in Nat
      BY DEF Value, CellInv, World
    <3> QED BY <3>1, <3>2, <3>3, <3>4 DEF Values, TaskKeys
  <2> QED BY <2>1, <2>2
<1>2. CASE obs.kind \in RunKinds
  <2>1. Plans[obs.kind][i] \in RunCells
    BY <1>2, RunPlan
  <2>2. \A c \in RunCells : Value(obs, c, cell) \in Values
    <3>1. Value(obs, "run", cell) \in Runs /\ Value(obs, "receipt", cell) \in Receipts
      BY DEF Value, CellInv, World
    <3>2. Value(obs, "proof", cell) \in Runs \cup {"written"}
      BY DEF Value, CellInv, World, Runs
    <3> QED BY <3>1, <3>2 DEF Values, RunCells
  <2> QED BY <2>1, <2>2
<1> QED BY <1>1, <1>2 DEF ObsInv, Observations

LEMMA WriteObs ==
  ASSUME ObsInv, subject' = subject, NEW w, Write(w)
  PROVE  ObsInv'
<1>1. obs' = obs /\ (obs # None => Moment(obs, cell') \in moments')
  BY WriteNoted
<1>2. Moment(obs, cell') = Moment(obs, cell)'
  BY <1>1 DEF Moment, Value
<1> QED BY <1>1, <1>2 DEF ObsInv, NRead

LEMMA WriteRun ==
  ASSUME ObsInv, RunInv, NEW w, Write(w),
         \A c \in RunCells : Becomes(cell[c], cell'[c])
  PROVE  RunInv'
<1> SUFFICES ASSUME obs # None, obs.kind # "task"
             PROVE  /\ \A i \in 1..NRead : Becomes(Seen[i], cell'[Plans[obs.kind][i]])
                    /\ NRead >= Half(obs.kind) => \E m \in moments' : RunMiddle(m)'
  BY WriteNoted DEF RunInv, NRead, Seen, Half
<1> DEFINE p == Plans[obs.kind]
<1>1. obs.kind \in RunKinds /\ NRead <= Len(p) /\ NRead \in Nat
  BY DEF ObsInv, Observations, NRead
<1>2. /\ \A i \in 1..Len(p) : p[i] \in RunCells
      /\ Half(obs.kind) \in 1..Len(p)
  BY <1>1, RunPlan
<1>3. \A i \in 1..NRead : Becomes(Seen[i], cell'[p[i]])
  BY <1>1, <1>2, BecomesOrder DEF RunInv
<1>4. ASSUME NRead >= Half(obs.kind)
      PROVE  \E m \in moments' : RunMiddle(m)'
  <2>1. PICK m \in moments : RunMiddle(m)
    BY <1>4 DEF RunInv
  <2>2. \A i \in 1..Half(obs.kind) : Becomes(m[p[i]], cell'[p[i]])
    BY <2>1, <1>2, BecomesOrder DEF RunMiddle
  <2>3. obs' = obs /\ m \in moments'
    BY WriteNoted
  <2>4. RunMiddle(m)'
    BY <2>1, <2>2, <2>3 DEF RunMiddle, Seen, NRead, Half
  <2> QED BY <2>3, <2>4
<1> QED BY <1>3, <1>4

LEMMA MetaForward ==
  ASSUME CellInv, CellInv', obs' = obs,
         cell.meta.rev <= cell'.meta.rev,
         cell.meta.requeued <= cell'.meta.requeued,
         cell.meta.notified <= cell'.meta.notified
  PROVE  /\ Value(obs, "meta", cell) \in MetaValues /\ Value(obs, "meta", cell') \in MetaValues
         /\ MetaBecomes(Value(obs, "meta", cell), Value(obs, "meta", cell'))
         /\ cell.meta.rev < cell'.meta.rev
            => Value(obs, "meta", cell) # Value(obs, "meta", cell')
<1>1. cell.meta \in Metas /\ cell'.meta \in Metas
  BY DEF CellInv, World
<1>2. cell.meta.rev \in Nat /\ cell'.meta.rev \in Nat
  BY <1>1 DEF Metas
<1> QED BY <1>1, <1>2 DEF Value, MetaValues, MetaBecomes

LEMMA WriteTyped ==
  ASSUME CellInv, CellInv', ObsInv, TaskForward, NEW w, Write(w),
         obs # None, obs.kind = "task", TaskTyped
  PROVE  TaskTyped'
<1>1. obs' = obs /\ NRead \in Nat
  BY WriteNoted DEF ObsInv, NRead
<1>2. cell.head.rev \in Nat /\ cell'.head.rev \in Nat
      /\ cell.meta.rev \in Nat /\ cell'.meta.rev \in Nat
  BY DEF CellInv, World, Heads, Metas
<1>3. cell.meta.rev <= cell'.meta.rev
      /\ (cell'.head = cell.head \/ cell.head.rev < cell'.head.rev)
  BY <1>2 DEF TaskForward
<1> QED BY <1>1, <1>2, <1>3 DEF TaskTyped, NRead, Seen, MetaValues, Heads

LEMMA WriteTask ==
  ASSUME CellInv, CellInv', ObsInv, TaskInv, TaskForward, NEW w, Write(w)
  PROVE  TaskInv'
<1> SUFFICES ASSUME obs # None, obs.kind = "task"
             PROVE  /\ TaskTyped'
                    /\ (NRead \in 1..4 /\ SameHead') => TaskHalf'
                    /\ (NRead >= 5 /\ SameHead') => \E m \in moments' : TaskMiddle(m)'
  BY WriteNoted DEF TaskInv, NRead
<1>1. obs' = obs /\ moments \subseteq moments' /\ NRead \in Nat /\ NRead <= 10
      /\ NRead' = NRead /\ Seen' = Seen
  BY WriteNoted, TaskPlan DEF ObsInv, NRead, Seen
<1>2. TaskTyped /\ TaskTyped'
  BY WriteTyped DEF TaskInv
<1> DEFINE v == Value(obs, "meta", cell)
           v1 == Value(obs, "meta", cell')
           q == Value(obs, "ready", cell)
           q1 == Value(obs, "ready", cell')
<1>3. CASE cell'.head.rev = cell.head.rev + 1
  <2>1. cell.head.rev \in Nat
    BY DEF CellInv, World, Heads
  <2>2. NRead >= 1 => cell'.head # Seen[1]
    BY <1>2, <1>3, <2>1 DEF TaskTyped, Heads
  <2>3. ReadOr(10, "head")' = IF NRead < 10 THEN cell'.head ELSE Seen[10]
    BY <1>1 DEF ReadOr, Value, NRead, Seen
  <2>4. CASE NRead < 10
    BY <2>2, <2>3, <2>4, <1>1, <1>2 DEF SameHead
  <2>5. CASE NRead = 10
    <3>1. SameHead' => SameHead
      BY <2>3, <2>5, <1>1 DEF SameHead, ReadOr
    <3>2. \A m : TaskMiddle(m) => TaskMiddle(m)'
      BY <2>5, <1>1 DEF TaskMiddle, ReadOr, MetaValues, MetaBecomes, StateBecomes
    <3>3. SameHead => \E m \in moments : TaskMiddle(m)
      BY <2>5 DEF TaskInv
    <3> QED BY <2>5, <3>1, <3>2, <3>3, <1>1, <1>2
  <2> QED BY <1>1, <2>4, <2>5
<1>4. CASE ~(cell'.head.rev = cell.head.rev + 1)
  <2>1. /\ cell'.head = cell.head
        /\ StateBecomes(cell.head.op, cell.state, cell'.state)
        /\ cell.meta.rev <= cell'.meta.rev
        /\ \/ q1 \in {q, 0}
           \/ cell.meta.rev < cell'.meta.rev /\ cell.meta.rev < q1
    BY <1>4 DEF TaskForward, Value
  <2>2. /\ v \in MetaValues /\ v1 \in MetaValues /\ MetaBecomes(v, v1)
        /\ cell.meta.rev < cell'.meta.rev => v # v1
    BY <1>1, <1>4, MetaForward DEF TaskForward
  <2>3. /\ cell.head.op \in TaskOps
        /\ q \in Nat /\ q1 \in Nat /\ cell.meta.rev \in Nat
    BY DEF CellInv, World, Heads, Metas, Value
  <2>4. SameHead' = SameHead
    BY <1>1, <2>1 DEF SameHead, ReadOr, Value
  <2>5. ASSUME NRead \in 1..4, SameHead PROVE TaskHalf'
    <3>1. TaskHalf /\ Seen[1] = cell.head
      BY <2>5 DEF TaskInv, SameHead, ReadOr, Value
    <3>2. NRead >= 2 => StateBecomes(Seen[1].op, Seen[2], cell'.state)
      BY <3>1, <2>1, <2>3, StateOrder DEF TaskHalf
    <3>3. NRead >= 3 => MetaBecomes(Seen[3], v1)
      BY <3>1, <2>2, <1>2, MetaOrder DEF TaskHalf, TaskTyped
    <3>4. NRead >= 3 /\ (Seen[3] # v \/ v # v1) => Seen[3] # v1
      BY <3>1, <2>2, <1>2, MetaOrder DEF TaskHalf, TaskTyped
    <3>5. NRead >= 4 => \/ Seen[4] = q1 \/ Seen[3] # v1
                        \/ (Seen[4] # 0 /\ q1 = 0)
      BY <3>1, <3>4, <2>1, <2>2, <2>5 DEF TaskHalf
    <3>6. Value(obs, "meta", cell)' = v1 /\ Value(obs, "ready", cell)' = q1
      BY <1>1 DEF Value
    <3>7. (NRead >= 2 => StateBecomes(Seen[1].op, Seen[2], cell.state))'
      BY <3>2, <1>1 DEF StateBecomes
    <3>8. (NRead >= 3 => MetaBecomes(Seen[3], Value(obs, "meta", cell)))'
      BY <3>3, <3>6, <1>1 DEF MetaBecomes
    <3>9. (NRead >= 4 => \/ Seen[4] = Value(obs, "ready", cell) \/ Seen[3] # Value(obs, "meta", cell)
                         \/ (Seen[4] # 0 /\ Value(obs, "ready", cell) = 0))'
      BY <3>5, <3>6, <1>1
    <3> QED BY <3>7, <3>8, <3>9 DEF TaskHalf
  <2>6. ASSUME NRead >= 5, SameHead PROVE \E m \in moments' : TaskMiddle(m)'
    <3>1. PICK m \in moments : TaskMiddle(m)
      BY <2>6 DEF TaskInv
    <3>2. /\ m["meta"] \in MetaValues /\ Seen[1] \in Heads /\ Seen[1].op \in TaskOps
          /\ Seen[4] \in Nat /\ Seen[4] <= cell.meta.rev
          /\ NRead < 10 => Seen[1] = cell.head
      <4>1. m["meta"] \in MetaValues
        BY <3>1 DEF TaskMiddle
      <4>2. Seen[1] \in Heads /\ Seen[1].op \in TaskOps
            /\ Seen[4] \in Nat /\ Seen[4] <= cell.meta.rev
        BY <1>1, <1>2, <2>6 DEF TaskTyped, Heads
      <4>3. NRead < 10 => Seen[1] = cell.head
        BY <2>6 DEF SameHead, ReadOr, Value
      <4> QED BY <4>1, <4>2, <4>3
    <3>3. StateBecomes(Seen[1].op, m["state"], ReadOr(6, "state")')
      <4>1. StateBecomes(Seen[1].op, m["state"], ReadOr(6, "state"))
        BY <3>1 DEF TaskMiddle
      <4>2. CASE NRead < 6
        <5>1. ReadOr(6, "state") = cell.state /\ ReadOr(6, "state")' = cell'.state
          BY <4>2, <1>1 DEF ReadOr, Value
        <5>2. Seen[1] = cell.head
          BY <4>2, <3>2, <1>1
        <5> QED BY <5>1, <5>2, <4>1, <2>1, <2>3, StateOrder
      <4>3. CASE ~(NRead < 6)
        BY <4>1, <4>3, <1>1 DEF ReadOr
      <4> QED BY <4>2, <4>3
    <3>4. MetaBecomes(m["meta"], ReadOr(7, "meta")')
      <4>1. MetaBecomes(m["meta"], ReadOr(7, "meta"))
        BY <3>1 DEF TaskMiddle
      <4>2. CASE NRead < 7
        <5>1. ReadOr(7, "meta") = v /\ ReadOr(7, "meta")' = v1
          BY <4>2, <1>1 DEF ReadOr, Value
        <5> QED BY <5>1, <4>1, <3>2, <2>2, MetaOrder
      <4>3. CASE ~(NRead < 7)
        BY <4>1, <4>3, <1>1 DEF ReadOr
      <4> QED BY <4>2, <4>3
    <3>5. \/ m["ready"] = Seen[4] \/ m["meta"] # Seen[3]
          \/ (Seen[4] # 0 /\ Seen[4] # ReadOr(8, "ready")')
      <4>1. \/ m["ready"] = Seen[4] \/ m["meta"] # Seen[3]
            \/ (Seen[4] # 0 /\ Seen[4] # ReadOr(8, "ready"))
        BY <3>1 DEF TaskMiddle
      <4>2. CASE NRead < 8
        <5>1. ReadOr(8, "ready") = q /\ ReadOr(8, "ready")' = q1
          BY <4>2, <1>1 DEF ReadOr, Value
        <5> QED BY <5>1, <4>1, <3>2, <2>1, <2>3
      <4>3. CASE ~(NRead < 8)
        BY <4>1, <4>3, <1>1 DEF ReadOr
      <4> QED BY <4>2, <4>3
    <3>6. TaskMiddle(m)'
      BY <3>1, <3>3, <3>4, <3>5, <1>1
         DEF TaskMiddle, StateBecomes, MetaBecomes, MetaValues
    <3> QED BY <3>6, <1>1
  <2> QED BY <1>2, <2>4, <2>5, <2>6
<1> QED BY <1>3, <1>4

LEMMA WriteReport ==
  ASSUME ReportInv, CellInv', subject' = subject, NEW w, Write(w),
         subject = "task" \/ \A c \in RunCells : Becomes(cell[c], cell'[c])
  PROVE  ReportInv'
<1>1. report' = report
  BY WriteNoted
<1>2. ReportIsSnapshot'
  BY <1>1 DEF ReportInv, ReportIsSnapshot
<1>3. HistoricalFindingHolds'
  <2> SUFFICES ASSUME report # None, report.kind # "task", report.status = "CONSISTENT"
               PROVE  /\ report.kind = "create" => cell'.receipt \in {"FINALIZED", "SETTLED"}
                      /\ report.kind = "proof" => cell'.run = "proven" /\ cell'.proof = "written"
                      /\ report.kind = "settlement"
                         => cell'.run = "proven" /\ cell'.receipt = "SETTLED"
    BY <1>1 DEF HistoricalFindingHolds
  <2>1. subject # "task" /\ HistoricalFindingHolds
    BY DEF ReportInv
  <2>2. /\ Becomes(cell.run, cell'.run) /\ Becomes(cell.proof, cell'.proof)
        /\ Becomes(cell.receipt, cell'.receipt)
    BY <2>1 DEF RunCells
  <2> QED BY <2>1, <2>2 DEF HistoricalFindingHolds, Becomes
<1> QED BY <1>1, <1>2, <1>3 DEF ReportInv

---------------------------------------------------------------------------
(* One read.                                                               *)

Appends ==
    /\ obs # None /\ NRead < Len(Plans[obs.kind])
    /\ obs' = [obs EXCEPT !.seen = Append(@, Value(obs, Plans[obs.kind][NRead + 1], cell))]
    /\ UNCHANGED <<cell, damaged, moments, report>>

\* The observation ends with nothing found.
Blocks ==
    /\ obs # None /\ obs' = None
    /\ report'.status = "BLOCKED_EVIDENCE" /\ report'.kind = obs.kind
    /\ UNCHANGED <<cell, damaged>>

LEMMA BlockedInv ==
  ASSUME IInv, Blocks, subject' = subject
  PROVE  IInv'
<1>1. ObsInv' /\ RunInv' /\ TaskInv'
  BY DEF Blocks, ObsInv, RunInv, TaskInv
<1>2. CellInv'
  BY DEF IInv, CellInv, Blocks
<1>3. ReportInv'
  BY DEF IInv, ObsInv, Blocks, ReportInv, ReportIsSnapshot, HistoricalFindingHolds
<1> QED BY <1>1, <1>2, <1>3 DEF IInv

LEMMA ReadSplits ==
  ASSUME ObsInv, Read
  PROVE  Appends \/ Blocks
<1>1. obs # None /\ NRead \in Nat /\ obs.kind \in RunKinds \cup {"task"}
      /\ Len(Plans[obs.kind]) \in Nat
  BY TaskPlan, RunPlan DEF Read, ObsInv, Observations, NRead
<1>2. NRead + 1 <= Len(Plans[obs.kind])
  BY DEF Read, NRead
<1>3. NRead < Len(Plans[obs.kind])
  BY <1>1, <1>2
<1>4. \/ Report("BLOCKED_EVIDENCE", "CANONICAL_EVIDENCE_UNAVAILABLE", <<>>)
      \/ /\ obs' = [obs EXCEPT !.seen = Append(@, Value(obs, Plans[obs.kind][NRead + 1], cell))]
         /\ UNCHANGED <<moments, report>>
  BY DEF Read, NRead
<1>5. UNCHANGED <<cell, damaged>>
  BY DEF Read
<1> QED BY <1>1, <1>3, <1>4, <1>5 DEF Appends, Blocks, Report

LEMMA AppendFacts ==
  ASSUME CellInv, ObsInv, Appends
  PROVE  /\ obs.kind \in RunKinds \cup {"task"}
         /\ NRead \in Nat /\ NRead + 1 <= Len(Plans[obs.kind])
         /\ obs'.kind = obs.kind /\ obs'.op = obs.op
         /\ obs' \in Observations
         /\ NRead' = NRead + 1
         /\ \A i \in 1..NRead : Seen'[i] = Seen[i]
         /\ Seen'[NRead + 1] = Value(obs, Plans[obs.kind][NRead + 1], cell)
         /\ cell' = cell /\ moments' = moments /\ report' = report
<1> DEFINE x == Value(obs, Plans[obs.kind][NRead + 1], cell)
<1>1. obs # None /\ NRead \in Nat /\ obs.kind \in RunKinds \cup {"task"}
      /\ obs.seen \in Seq(Values) /\ obs.op \in TaskOps \cup {None}
      /\ Len(Plans[obs.kind]) \in Nat /\ NRead < Len(Plans[obs.kind])
  BY TaskPlan, RunPlan DEF ObsInv, Observations, NRead, Appends
<1>2. x \in Values
  <2>1. NRead + 1 \in 1..Len(Plans[obs.kind])
    BY <1>1
  <2> QED BY <1>1, <2>1, ValueTyped
<1>3. obs' = [obs EXCEPT !.seen = Append(obs.seen, x)]
  BY DEF Appends
<1>4. obs'.kind = obs.kind /\ obs'.op = obs.op /\ obs'.seen = Append(obs.seen, x)
      /\ obs' \in Observations
  <2> HIDE DEF x
  <2>1. Append(obs.seen, x) \in Seq(Values)
    BY <1>1, <1>2
  <2>2. obs \in Observations
    BY <1>1 DEF ObsInv
  <2> QED BY <1>3, <2>1, <2>2 DEF Observations
<1>5. /\ Len(obs'.seen) = Len(obs.seen) + 1
      /\ \A i \in 1..Len(obs.seen) : obs'.seen[i] = obs.seen[i]
      /\ obs'.seen[Len(obs.seen) + 1] = x
  <2> HIDE DEF x
  <2> QED BY <1>1, <1>2, <1>4
<1> QED BY <1>1, <1>4, <1>5 DEF NRead, Seen, Appends

LEMMA AppendObs ==
  ASSUME CellInv, ObsInv, Appends, subject' = subject
  PROVE  ObsInv'
<1>1. Moment(obs', cell') = Moment(obs, cell)
  BY AppendFacts DEF Moment, Value
<1> QED BY <1>1, AppendFacts DEF ObsInv, Appends

LEMMA AppendRun ==
  ASSUME CellInv, ObsInv, RunInv, Appends
  PROVE  RunInv'
<1> SUFFICES ASSUME obs.kind # "task"
             PROVE  /\ \A i \in 1..(NRead + 1) : Becomes(Seen'[i], cell[Plans[obs.kind][i]])
                    /\ NRead + 1 >= Half(obs.kind) => \E m \in moments : RunMiddle(m)'
  BY AppendFacts DEF RunInv, Half
<1> DEFINE p == Plans[obs.kind]
           k == NRead + 1
           hf == Half(obs.kind)
<1>1. obs # None /\ obs.kind \in RunKinds /\ NRead \in Nat /\ k <= Len(p)
  BY AppendFacts DEF Appends
<1>2. /\ Len(p) = 2 * hf /\ hf \in {2, 3}
      /\ \A i \in 1..hf : p[Len(p) + 1 - i] = p[i]
      /\ \A i \in 1..Len(p) : p[i] \in RunCells
      /\ ToSet(p) \subseteq RunCells /\ DOMAIN p = 1..Len(p)
  BY <1>1, RunPlan
<1>3. \A c \in RunCells : Value(obs, c, cell) = cell[c]
  BY DEF Value, RunCells
<1>4. Seen'[k] = cell[p[k]] /\ \A i \in 1..NRead : Seen'[i] = Seen[i]
  BY <1>1, <1>2, <1>3, AppendFacts
<1>5. \A i \in 1..k : Becomes(Seen'[i], cell[p[i]])
  <2>1. \A i \in 1..NRead : Becomes(Seen'[i], cell[p[i]])
    BY <1>1, <1>4 DEF RunInv
  <2>2. Becomes(Seen'[k], cell[p[k]])
    BY <1>4, BecomesOrder
  <2> QED BY <1>1, <2>1, <2>2
<1>6. ASSUME NEW m, m = [c \in ToSet(p) |-> m[c]],
             \A i \in 1..hf : Becomes(Seen'[i], m[p[i]]) /\ Becomes(m[p[i]], cell[p[i]]),
             \A i \in (hf + 1)..k : Becomes(m[p[i]], Seen'[i])
      PROVE  RunMiddle(m)'
  <2>1. obs'.kind = obs.kind /\ NRead' = k /\ cell' = cell
    BY AppendFacts
  <2> QED BY <1>6, <2>1 DEF RunMiddle, Half
<1>7. ASSUME k = hf PROVE \E m \in moments : RunMiddle(m)'
  <2>1. PICK m \in moments : m = [c \in ToSet(p) |-> cell[c]]
    BY <1>1, <1>2, <1>3 DEF ObsInv, Moment
  <2>2. \A i \in 1..hf : m[p[i]] = cell[p[i]]
    <3>1. \A i \in 1..hf : i \in DOMAIN p
      BY <1>2
    <3>2. \A i \in 1..hf : p[i] \in ToSet(p)
      BY <3>1 DEF ToSet
    <3> QED BY <3>2, <2>1
  <2>3. \A i \in 1..hf : Becomes(Seen'[i], m[p[i]]) /\ Becomes(m[p[i]], cell[p[i]])
    BY <1>5, <1>7, <2>2, BecomesOrder
  <2>4. m = [c \in ToSet(p) |-> m[c]]
    BY <2>1
  <2> QED BY <1>1, <1>2, <1>6, <1>7, <2>3, <2>4
<1>8. ASSUME k > hf PROVE \E m \in moments : RunMiddle(m)'
  <2>1. PICK m \in moments : RunMiddle(m)
    BY <1>1, <1>2, <1>8 DEF RunInv
  <2>2. /\ m = [c \in ToSet(p) |-> m[c]]
        /\ \A i \in 1..hf : Becomes(Seen'[i], m[p[i]]) /\ Becomes(m[p[i]], cell[p[i]])
        /\ \A i \in (hf + 1)..NRead : Becomes(m[p[i]], Seen'[i])
    BY <2>1, <1>1, <1>2, <1>4, <1>8 DEF RunMiddle
  <2>3. Becomes(m[p[k]], Seen'[k])
    <3>1. Len(p) + 1 - k \in 1..hf /\ Len(p) + 1 - (Len(p) + 1 - k) = k
      BY <1>1, <1>2, <1>8
    <3>2. p[k] = p[Len(p) + 1 - k]
      BY <3>1, <1>2
    <3> QED BY <3>1, <3>2, <2>2, <1>4
  <2>4. \A i \in (hf + 1)..k : Becomes(m[p[i]], Seen'[i])
    BY <1>1, <1>2, <2>2, <2>3
  <2> QED BY <2>2, <2>4, <1>6
<1> QED BY <1>1, <1>2, <1>5, <1>7, <1>8

LEMMA MetaTyped ==
  ASSUME CellInv
  PROVE  Value(obs, "meta", cell) \in MetaValues
BY DEF CellInv, World, Metas, Value, MetaValues

(* What a read returns is what it would have returned.                     *)
LEMMA ReadOrKept ==
  ASSUME CellInv, ObsInv, Appends, NEW i \in Nat \ {0}, NEW c, c = Plans[obs.kind][i]
  PROVE  ReadOr(i, c)' = ReadOr(i, c)
<1>1. obs'.kind = obs.kind /\ obs'.op = obs.op /\ cell' = cell /\ NRead' = NRead + 1
      /\ NRead \in Nat
  BY AppendFacts
<1>2. CASE i <= NRead
  BY <1>1, <1>2, AppendFacts DEF ReadOr
<1>3. CASE i = NRead + 1
  BY <1>1, <1>3, AppendFacts DEF ReadOr
<1>4. CASE i > NRead + 1
  BY <1>1, <1>4 DEF ReadOr, Value
<1> QED BY <1>1, <1>2, <1>3, <1>4

LEMMA AppendTyped ==
  ASSUME CellInv, ObsInv, Appends, obs.kind = "task", TaskTyped
  PROVE  TaskTyped'
<1> DEFINE k == NRead + 1
           p == Plans["task"]
<1>1. /\ NRead \in 0..9 /\ NRead' = k /\ cell' = cell /\ obs'.op = obs.op
      /\ Seen'[k] = Value(obs, p[k], cell)
      /\ \A i \in 1..NRead : Seen'[i] = Seen[i]
  BY AppendFacts, TaskPlan
<1>2. MetaValues' = MetaValues
  BY <1>1 DEF MetaValues
<1>3. NRead = 0 => Seen'[1] = cell.head
  BY <1>1, TaskPlan DEF Value
<1>4. NRead = 2 => Seen'[3] \in MetaValues
  BY <1>1, TaskPlan, MetaTyped
<1>5. NRead = 3 => Seen'[4] = Value(obs, "ready", cell)
  BY <1>1, TaskPlan
<1>6. NRead = 6 => Seen'[7] \in MetaValues
  BY <1>1, TaskPlan, MetaTyped
<1>7. /\ cell.head \in Heads /\ Value(obs, "ready", cell) \in Nat
      /\ Value(obs, "ready", cell) <= cell.meta.rev
  BY DEF CellInv, World, Metas, Value
<1>8. k >= 1 => Seen'[1] \in Heads /\ (Seen'[1] = cell.head \/ Seen'[1].rev < cell.head.rev)
  <2>1. CASE NRead = 0
    BY <2>1, <1>3, <1>7
  <2>2. CASE NRead >= 1
    BY <2>2, <1>1 DEF TaskTyped
  <2> QED BY <2>1, <2>2, <1>1
<1>9. k >= 3 => Seen'[3] \in MetaValues
  BY <1>1, <1>4 DEF TaskTyped
<1>10. k >= 4 => Seen'[4] \in Nat /\ Seen'[4] <= cell.meta.rev
  BY <1>1, <1>5, <1>7 DEF TaskTyped
<1>11. k >= 7 => Seen'[7] \in MetaValues
  BY <1>1, <1>6 DEF TaskTyped
<1> QED BY <1>1, <1>2, <1>8, <1>9, <1>10, <1>11 DEF TaskTyped

LEMMA AppendTask ==
  ASSUME CellInv, ObsInv, TaskInv, Appends
  PROVE  TaskInv'
<1> SUFFICES ASSUME obs.kind = "task"
             PROVE  /\ TaskTyped'
                    /\ (NRead + 1 \in 1..4 /\ SameHead') => TaskHalf'
                    /\ (NRead + 1 >= 5 /\ SameHead') => \E m \in moments : TaskMiddle(m)'
  BY AppendFacts DEF TaskInv
<1> DEFINE k == NRead + 1
           p == Plans["task"]
           v == Value(obs, "meta", cell)
           q == Value(obs, "ready", cell)
<1>1. /\ obs # None /\ NRead \in 0..9 /\ NRead' = k /\ cell' = cell
      /\ obs'.op = obs.op /\ moments' = moments
      /\ Seen'[k] = Value(obs, p[k], cell)
      /\ \A i \in 1..NRead : Seen'[i] = Seen[i]
  BY AppendFacts, TaskPlan DEF Appends
<1>2. TaskTyped /\ TaskTyped'
  BY <1>1, AppendTyped DEF TaskInv
<1>3. /\ ReadOr(10, "head")' = ReadOr(10, "head") /\ ReadOr(6, "state")' = ReadOr(6, "state")
      /\ ReadOr(7, "meta")' = ReadOr(7, "meta") /\ ReadOr(8, "ready")' = ReadOr(8, "ready")
  BY ReadOrKept, TaskPlan
<1>4. NRead >= 1 => (SameHead' <=> SameHead)
  BY <1>1, <1>3 DEF SameHead
<1>5. v \in MetaValues /\ cell.head.op \in TaskOps
  BY MetaTyped DEF CellInv, World, Heads
<1>6. Value(obs, "meta", cell)' = v
  BY <1>1 DEF Value
<1>7. ASSUME k \in 1..4, SameHead' PROVE TaskHalf'
  <2>1. NRead >= 1 => SameHead /\ TaskHalf /\ Seen[1] = cell.head
    BY <1>1, <1>4, <1>7 DEF TaskInv, SameHead, ReadOr, Value
  <2>2. (NRead >= 2 => StateBecomes(Seen[1].op, Seen[2], cell.state))'
    <3>1. CASE NRead = 1
      BY <3>1, <1>1, TaskPlan DEF Value, StateBecomes
    <3>2. CASE NRead >= 2
      BY <3>2, <2>1, <1>1 DEF TaskHalf, StateBecomes
    <3> QED BY <3>1, <3>2, <1>1
  <2>3. (NRead >= 3 => MetaBecomes(Seen[3], Value(obs, "meta", cell)))'
    <3>1. CASE NRead = 2
      <4>1. Seen'[3] = v /\ MetaBecomes(v, v)
        BY <3>1, <1>1, <1>5, TaskPlan, MetaOrder
      <4> QED BY <4>1, <1>1, <1>6 DEF MetaBecomes
    <3>2. CASE NRead >= 3
      BY <3>2, <2>1, <1>1, <1>6 DEF TaskHalf, MetaBecomes
    <3> QED BY <3>1, <3>2, <1>1
  <2>4. (NRead >= 4 => \/ Seen[4] = Value(obs, "ready", cell) \/ Seen[3] # Value(obs, "meta", cell)
                       \/ (Seen[4] # 0 /\ Value(obs, "ready", cell) = 0))'
    BY <1>1, <1>7, TaskPlan DEF Value
  <2> QED BY <2>2, <2>3, <2>4 DEF TaskHalf
<1>8. ASSUME k = 5, SameHead' PROVE \E m \in moments : TaskMiddle(m)'
  <2>1. SameHead /\ TaskHalf /\ Seen[1] = cell.head /\ NRead = 4
    BY <1>1, <1>4, <1>8 DEF TaskInv, SameHead, ReadOr, Value
  <2>2. PICK m \in moments : m = [c \in TaskKeys |-> Value(obs, c, cell)]
    BY <1>1, TaskPlan DEF ObsInv, Moment
  <2>3. /\ m = [c \in TaskKeys |-> m[c]] /\ m["head"] = cell.head /\ m["meta"] = v
        /\ m["running"] = Value(obs, "running", cell)
        /\ m["state"] = cell.state /\ m["ready"] = q
    BY <2>2 DEF TaskKeys, Value
  <2>4. Seen'[5] = Value(obs, "running", cell) /\ Seen'[1] = Seen[1] /\ Seen'[2] = Seen[2]
        /\ Seen'[3] = Seen[3] /\ Seen'[4] = Seen[4]
    BY <1>1, <2>1, TaskPlan DEF Value
  <2>5. ReadOr(6, "state") = cell.state /\ ReadOr(7, "meta") = v
        /\ ReadOr(8, "ready") = q
    BY <2>1 DEF ReadOr, Value
  <2>6. StateBecomes(Seen[1].op, Seen[2], m["state"])
        /\ StateBecomes(Seen[1].op, m["state"], cell.state)
    BY <2>1, <2>3 DEF TaskHalf, StateBecomes
  <2>7. MetaBecomes(Seen[3], m["meta"]) /\ MetaBecomes(m["meta"], v)
    BY <2>1, <2>3, <1>5, MetaOrder DEF TaskHalf
  <2>8. \/ m["ready"] = Seen[4] \/ m["meta"] # Seen[3]
        \/ (Seen[4] # 0 /\ Seen[4] # q)
    BY <2>1, <2>3 DEF TaskHalf
  <2>9. TaskMiddle(m)'
    BY <1>1, <1>3, <1>5, <2>1, <2>3, <2>4, <2>5, <2>6, <2>7, <2>8
       DEF TaskMiddle, StateBecomes, MetaBecomes, MetaValues
  <2> QED BY <2>9
<1>9. ASSUME k > 5, SameHead' PROVE \E m \in moments : TaskMiddle(m)'
  <2>1. PICK m \in moments : TaskMiddle(m)
    BY <1>1, <1>4, <1>9 DEF TaskInv
  <2>2. Seen'[1] = Seen[1] /\ Seen'[2] = Seen[2] /\ Seen'[3] = Seen[3]
        /\ Seen'[4] = Seen[4] /\ Seen'[5] = Seen[5]
    BY <1>1, <1>9
  <2>3. TaskMiddle(m)'
    BY <2>1, <2>2, <1>1, <1>3 DEF TaskMiddle, StateBecomes, MetaBecomes, MetaValues
  <2> QED BY <2>3
<1> QED BY <1>1, <1>2, <1>7, <1>8, <1>9

---------------------------------------------------------------------------
(* The conclusion.                                                         *)

LEMMA LastIndex ==
  ASSUME NEW p, NEW len \in Nat, NEW j \in 1..len, NEW c,
         p[j] = c, \A i \in (j + 1)..len : p[i] # c
  PROVE  (CHOOSE i \in 1..len : p[i] = c /\ \A l \in (i + 1)..len : p[l] # c) = j
<1> DEFINE i == CHOOSE i \in 1..len : p[i] = c /\ \A l \in (i + 1)..len : p[l] # c
<1>1. i \in 1..len /\ p[i] = c /\ \A l \in (i + 1)..len : p[l] # c
  OBVIOUS
<1> HIDE DEF i
<1>2. ~(i < j) /\ ~(j < i)
  BY <1>1
<1>3. i = j
  BY <1>1, <1>2
<1> QED BY <1>3 DEF i

LEMMA LastValue ==
  ASSUME NEW j \in 1..Len(Plans[obs.kind]), NEW c \in ToSet(Plans[obs.kind]),
         Len(Plans[obs.kind]) \in Nat,
         Plans[obs.kind][j] = c,
         \A i \in (j + 1)..Len(Plans[obs.kind]) : Plans[obs.kind][i] # c
  PROVE  LastRead[c] = Seen[j]
<1> DEFINE p == Plans[obs.kind]
<1>1. LastRead[c] = Seen[CHOOSE i \in 1..Len(p) : p[i] = c /\ \A l \in (i + 1)..Len(p) : p[l] # c]
  BY DEF LastRead, Seen
<1>2. (CHOOSE i \in 1..Len(p) : p[i] = c /\ \A l \in (i + 1)..Len(p) : p[l] # c) = j
  <2> HIDE DEF p
  <2>1. p[j] = c /\ (\A i \in (j + 1)..Len(p) : p[i] # c) /\ Len(p) \in Nat /\ j \in 1..Len(p)
    BY DEF p
  <2> QED BY <2>1, LastIndex
<1> QED BY <1>1, <1>2

LEMMA LastIsFunction == LastRead = [c \in ToSet(Plans[obs.kind]) |-> LastRead[c]]
BY DEF LastRead

LEMMA TaskLast ==
  ASSUME obs.kind = "task"
  PROVE  /\ LastRead["head"] = Seen[10] /\ LastRead["state"] = Seen[6]
         /\ LastRead["meta"] = Seen[7] /\ LastRead["ready"] = Seen[8]
         /\ LastRead["running"] = Seen[9]
<1> DEFINE p == Plans["task"]
<1>1. LastRead["head"] = Seen[10]
  BY TaskPlan, LastValue DEF TaskKeys
<1>2. LastRead["state"] = Seen[6]
  <2>1. \A i \in 7..10 : p[i] # "state"
    BY TaskPlan
  <2> QED BY <2>1, TaskPlan, LastValue DEF TaskKeys
<1>3. LastRead["meta"] = Seen[7]
  <2>1. \A i \in 8..10 : p[i] # "meta"
    BY TaskPlan
  <2> QED BY <2>1, TaskPlan, LastValue DEF TaskKeys
<1>4. LastRead["ready"] = Seen[8]
  <2>1. \A i \in 9..10 : p[i] # "ready"
    BY TaskPlan
  <2> QED BY <2>1, TaskPlan, LastValue DEF TaskKeys
<1>5. LastRead["running"] = Seen[9]
  <2>1. \A i \in 10..10 : p[i] # "running"
    BY TaskPlan
  <2> QED BY <2>1, TaskPlan, LastValue DEF TaskKeys
<1> QED BY <1>1, <1>2, <1>3, <1>4, <1>5

\* Equal reads of the same key.
LEMMA Unchanged ==
  ASSUME NEW cs, ~Changed(cs), NEW i \in 1..NRead, NEW j \in 1..NRead,
         Plans[obs.kind][i] = Plans[obs.kind][j], Plans[obs.kind][i] \in cs
  PROVE  Seen[i] = Seen[j]
BY DEF Changed, NRead, Seen

LEMMA TaskSnapshot ==
  ASSUME CellInv, ObsInv, TaskInv, obs # None, obs.kind = "task", NRead = 10,
         ~Changed(TaskKeys)
  PROVE  \E m \in moments : \A c \in TaskKeys : m[c] = LastRead[c]
<1> DEFINE p == Plans["task"]
<1>1. /\ Seen[1] = Seen[10] /\ Seen[2] = Seen[6] /\ Seen[3] = Seen[7]
      /\ Seen[4] = Seen[8] /\ Seen[5] = Seen[9]
  BY Unchanged, TaskPlan DEF TaskKeys
<1>2. SameHead
  BY <1>1 DEF SameHead, ReadOr
<1>3. PICK m \in moments : TaskMiddle(m)
  BY <1>2 DEF TaskInv
<1>4. Seen[1] \in Heads /\ Seen[1].op \in TaskOps /\ Seen[3] \in MetaValues
      /\ Seen[7] \in MetaValues /\ m["meta"] \in MetaValues
  BY <1>3 DEF TaskInv, TaskTyped, Heads, TaskMiddle
<1>5. ReadOr(6, "state") = Seen[6] /\ ReadOr(7, "meta") = Seen[7] /\ ReadOr(8, "ready") = Seen[8]
  BY DEF ReadOr
<1>6. m["state"] = Seen[6]
  BY <1>1, <1>3, <1>4, <1>5, StateOrder DEF TaskMiddle
<1>7. m["meta"] = Seen[7] /\ m["meta"] = Seen[3]
  BY <1>1, <1>3, <1>4, <1>5, MetaOrder DEF TaskMiddle
<1>8. m["ready"] = Seen[8]
  BY <1>1, <1>3, <1>5, <1>7 DEF TaskMiddle
<1>9. m["head"] = Seen[10] /\ m["running"] = Seen[9]
  BY <1>1, <1>3 DEF TaskMiddle
<1>10. \A c \in TaskKeys : m[c] = LastRead[c]
  BY <1>6, <1>7, <1>8, <1>9, TaskLast DEF TaskKeys
<1> QED BY <1>10

LEMMA RunLast ==
  ASSUME obs.kind \in RunKinds, NEW i \in 1..Half(obs.kind)
  PROVE  LastRead[Plans[obs.kind][i]] = Seen[Len(Plans[obs.kind]) + 1 - i]
<1> DEFINE p == Plans[obs.kind]
           j == Len(p) + 1 - i
<1>1. Len(p) = 2 * Half(obs.kind) /\ Half(obs.kind) \in {2, 3} /\ DOMAIN p = 1..Len(p)
      /\ p[j] = p[i] /\ \A l \in (Len(p) + 2 - i)..Len(p) : p[l] # p[i]
  BY RunPlan
<1>2. j \in 1..Len(p) /\ Len(p) \in Nat /\ j + 1 = Len(p) + 2 - i /\ i \in DOMAIN p
  BY <1>1
<1>3. p[i] \in ToSet(p)
  BY <1>2 DEF ToSet
<1> QED BY <1>1, <1>2, <1>3, LastValue

LEMMA RunSnapshot ==
  ASSUME ObsInv, RunInv, obs # None, obs.kind # "task",
         NRead = Len(Plans[obs.kind]),
         NEW cs \in SUBSET ToSet(Plans[obs.kind]), ~Changed(cs)
  PROVE  \E m \in moments : \A c \in cs : m[c] = LastRead[c]
<1> DEFINE p == Plans[obs.kind]
           hf == Half(obs.kind)
<1>1. obs.kind \in RunKinds
  BY DEF ObsInv, Observations
<1>2. /\ Len(p) = 2 * hf /\ hf \in {2, 3} /\ \A i \in 1..hf : p[Len(p) + 1 - i] = p[i]
      /\ \A c \in ToSet(p) : \E i \in 1..hf : c = p[i]
  BY <1>1, RunPlan
<1>3. PICK m \in moments : RunMiddle(m)
  BY <1>2 DEF RunInv
<1>4. ASSUME NEW i \in 1..hf, p[i] \in cs PROVE m[p[i]] = LastRead[p[i]]
  <2> DEFINE j == Len(p) + 1 - i
  <2>1. i \in 1..NRead /\ j \in 1..NRead /\ j \in (hf + 1)..NRead /\ p[j] = p[i]
    BY <1>2
  <2>2. Seen[i] = Seen[j]
    BY <1>4, <2>1, Unchanged
  <2>3. Becomes(Seen[i], m[p[i]]) /\ Becomes(m[p[j]], Seen[j])
    BY <1>3, <2>1 DEF RunMiddle
  <2>4. m[p[i]] = Seen[j]
    BY <2>1, <2>2, <2>3, BecomesOrder
  <2> QED BY <1>1, <2>4, RunLast
<1>5. \A c \in cs : m[c] = LastRead[c]
  BY <1>2, <1>4
<1> QED BY <1>5

(* What is compared was there at one moment.                               *)
LEMMA Snapshot ==
  ASSUME IInv, obs # None, NRead = Len(Plans[obs.kind]), ~Changed(Compared)
  PROVE  \E m \in moments : \A c \in Compared : m[c] = LastRead[c]
<1>1. CASE obs.kind = "task"
  <2>1. Compared = TaskKeys /\ NRead = 10
    BY <1>1, TaskPlan DEF Compared
  <2> QED BY <1>1, <2>1, TaskSnapshot DEF IInv
<1>2. CASE obs.kind # "task"
  <2>1. CASE obs.kind = "settlement"
    <3>1. Plans[obs.kind] = <<"run", "proof", "receipt", "receipt", "proof", "run">>
      BY <2>1 DEF Plans
    <3>2. "run" \in ToSet(Plans[obs.kind]) /\ "proof" \in ToSet(Plans[obs.kind])
      BY <3>1 DEF ToSet
    <3>3. Compared \subseteq ToSet(Plans[obs.kind])
      BY <3>2 DEF Compared
    <3> QED BY <1>2, <3>3, RunSnapshot DEF IInv
  <2>2. CASE obs.kind # "settlement"
    <3>1. Compared = ToSet(Plans[obs.kind])
      BY <2>2 DEF Compared
    <3> QED BY <1>2, <3>1, RunSnapshot DEF IInv
  <2> QED BY <2>1, <2>2
<1> QED BY <1>1, <1>2

Statuses == {"CONSISTENT", "DRIFT", "BLOCKED_EVIDENCE"}

LEMMA VerdictTyped == \A v : Verdict(v)[1] \in Statuses
<1>1. \A v : HeadVerdict(v)[1] \in Statuses
  BY DEF HeadVerdict, Statuses
<1>2. \A v : RequeueVerdict(v)[1] \in Statuses
  BY DEF RequeueVerdict, Statuses
<1>3. \A v : CreateVerdict(v)[1] \in Statuses
  BY DEF CreateVerdict, Statuses
<1>4. \A v : ProofVerdict(v)[1] \in Statuses
  BY DEF ProofVerdict, Statuses
<1>5. \A v : SettlementVerdict(v)[1] \in Statuses
  BY <1>4 DEF SettlementVerdict, Statuses
<1> QED BY <1>1, <1>2, <1>3, <1>4, <1>5 DEF Verdict

\* What was read of a RUN last became what is there now.
LEMMA RunFound ==
  ASSUME ObsInv, RunInv, obs # None, obs.kind # "task", NRead = Len(Plans[obs.kind]),
         NEW c \in ToSet(Plans[obs.kind])
  PROVE  Becomes(LastRead[c], cell[c])
<1> DEFINE p == Plans[obs.kind]
<1>1. obs.kind \in RunKinds
  BY DEF ObsInv, Observations
<1>2. /\ Len(p) = 2 * Half(obs.kind) /\ Half(obs.kind) \in {2, 3}
      /\ \A i \in 1..Half(obs.kind) : p[Len(p) + 1 - i] = p[i]
  BY <1>1, RunPlan
<1>3. PICK i \in 1..Half(obs.kind) : c = p[i]
  BY <1>1, RunPlan
<1> DEFINE j == Len(p) + 1 - i
<1>4. j \in 1..NRead /\ p[j] = c
  BY <1>2, <1>3
<1>5. LastRead[c] = Seen[j]
  BY <1>1, <1>3, RunLast
<1> QED BY <1>4, <1>5 DEF RunInv

\* A consistent finding about the history of a RUN is true of it.
LEMMA RunFinding ==
  ASSUME CellInv, ObsInv, RunInv, obs # None, obs.kind # "task",
         NRead = Len(Plans[obs.kind]), Verdict(LastRead)[1] = "CONSISTENT"
  PROVE  /\ obs.kind = "create" => cell.receipt \in {"FINALIZED", "SETTLED"}
         /\ obs.kind = "proof" => cell.run = "proven" /\ cell.proof = "written"
         /\ obs.kind = "settlement" => cell.run = "proven" /\ cell.receipt = "SETTLED"
<1> DEFINE v == LastRead
<1>1. cell.run \in Runs /\ cell.proof \in {"none", "written"} /\ cell.receipt \in Receipts
  BY DEF CellInv, World
<1>2. CASE obs.kind = "create"
  <2>1. "receipt" \in ToSet(Plans[obs.kind])
    BY <1>2 DEF Plans, ToSet
  <2>2. Becomes(v["receipt"], cell.receipt)
    BY <2>1, RunFound
  <2>3. CreateVerdict(v)[1] = "CONSISTENT"
    BY <1>2 DEF Verdict
  <2>4. v["receipt"] \notin {"none", "RESERVED", "RELEASED"}
    BY <2>3 DEF CreateVerdict
  <2> QED BY <1>1, <1>2, <2>2, <2>4 DEF Becomes, Receipts
<1>3. ASSUME obs.kind # "create", ProofVerdict(v)[1] = "CONSISTENT"
      PROVE  cell.run = "proven" /\ cell.proof = "written"
  <2>1. obs.kind \in {"proof", "settlement"}
    BY <1>3 DEF ObsInv, Observations, RunKinds
  <2>2. "run" \in ToSet(Plans[obs.kind]) /\ "proof" \in ToSet(Plans[obs.kind])
    <3>1. CASE obs.kind = "proof"
      BY <3>1 DEF Plans, ToSet
    <3>2. CASE obs.kind = "settlement"
      BY <3>2 DEF Plans, ToSet
    <3> QED BY <2>1, <3>1, <3>2
  <2>3. Becomes(v["run"], cell.run) /\ Becomes(v["proof"], cell.proof)
    BY <2>2, RunFound
  <2>4. v["run"] = "proven" /\ v["proof"] # "none"
    BY <1>3 DEF ProofVerdict
  <2> QED BY <1>1, <2>3, <2>4 DEF Becomes, Runs
<1>4. CASE obs.kind = "proof"
  BY <1>3, <1>4 DEF Verdict
<1>5. CASE obs.kind = "settlement"
  <2>1. SettlementVerdict(v)[1] = "CONSISTENT"
    BY <1>5 DEF Verdict
  <2>2. ProofVerdict(v)[1] = "CONSISTENT" /\ v["receipt"] = "SETTLED"
    BY <2>1 DEF SettlementVerdict
  <2>3. "receipt" \in ToSet(Plans[obs.kind])
    BY <1>5 DEF Plans, ToSet
  <2>4. Becomes(v["receipt"], cell.receipt)
    BY <2>3, RunFound
  <2> QED BY <1>1, <1>3, <1>5, <2>2, <2>4 DEF Becomes, Receipts
<1> QED BY <1>2, <1>4, <1>5

LEMMA ConcludeInv ==
  ASSUME IInv, Conclude, subject' = subject
  PROVE  IInv'
<1>1. obs # None /\ NRead = Len(Plans[obs.kind]) /\ UNCHANGED <<cell, damaged>>
  BY DEF Conclude, NRead
<1> DEFINE vals == Restrict(LastRead, Compared)
<1>2. Blocks \/ (~Changed(Compared) /\ Report(Verdict(LastRead)[1], Verdict(LastRead)[2], vals))
  BY <1>1 DEF Conclude, Blocks, Report
<1>3. CASE Blocks
  BY <1>3, BlockedInv
<1>4. ASSUME ~Changed(Compared), Report(Verdict(LastRead)[1], Verdict(LastRead)[2], vals)
      PROVE  IInv'
  <2>1. /\ obs' = None /\ report'.kind = obs.kind
        /\ report'.status = Verdict(LastRead)[1]
        /\ report'.real = (\E m \in moments : \A c \in DOMAIN vals : m[c] = vals[c])
    BY <1>4 DEF Report
  <2>2. \E m \in moments : \A c \in DOMAIN vals : m[c] = vals[c]
    <3>1. DOMAIN vals = Compared /\ \A c \in Compared : vals[c] = LastRead[c]
      BY DEF Restrict
    <3> QED BY <1>1, <1>4, <3>1, Snapshot
  <2>3. ObsInv' /\ RunInv' /\ TaskInv'
    BY <2>1 DEF ObsInv, RunInv, TaskInv
  <2>4. CellInv'
    BY <1>1 DEF IInv, CellInv
  <2>5. report'.status \in Statuses /\ (report'.kind = "task" <=> subject' = "task")
    BY <1>1, <2>1, VerdictTyped DEF IInv, ObsInv
  <2>6. ReportIsSnapshot'
    BY <2>1, <2>2 DEF ReportIsSnapshot
  <2>7. HistoricalFindingHolds'
    <3> SUFFICES ASSUME obs.kind # "task", Verdict(LastRead)[1] = "CONSISTENT"
                 PROVE  /\ obs.kind = "create" => cell.receipt \in {"FINALIZED", "SETTLED"}
                        /\ obs.kind = "proof" => cell.run = "proven" /\ cell.proof = "written"
                        /\ obs.kind = "settlement"
                           => cell.run = "proven" /\ cell.receipt = "SETTLED"
      BY <1>1, <2>1 DEF HistoricalFindingHolds
    <3> QED BY <1>1, RunFinding DEF IInv
  <2> QED BY <2>3, <2>4, <2>5, <2>6, <2>7 DEF IInv, ReportInv, Statuses
<1> QED BY <1>2, <1>3, <1>4

LEMMA UnreadInv ==
  ASSUME IInv, ReceiptFails, subject' = subject
  PROVE  IInv'
<1>1. /\ obs # None /\ obs' = [obs EXCEPT !.unread = TRUE] /\ obs \in Observations
      /\ cell' = cell /\ moments' = moments /\ report' = report /\ obs.kind # "task"
  BY DEF IInv, ObsInv, ReceiptFails
<1>2. obs' \in Observations /\ obs'.kind = obs.kind /\ obs'.op = obs.op /\ obs'.seen = obs.seen
  BY <1>1 DEF Observations
<1>3. CellInv' /\ ReportInv'
  BY <1>1 DEF IInv, CellInv, ReportInv, ReportIsSnapshot, HistoricalFindingHolds
<1>4. ObsInv'
  BY <1>1, <1>2 DEF IInv, ObsInv, NRead, Moment, Value
<1>5. RunInv'
  BY <1>1, <1>2 DEF IInv, RunInv, RunMiddle, Half, NRead, Seen
<1>6. TaskInv'
  BY <1>1, <1>2 DEF TaskInv
<1> QED BY <1>3, <1>4, <1>5, <1>6 DEF IInv

LEMMA ObserveInv ==
  ASSUME IInv, subject' = subject, NEW k \in RunKinds \cup {"task"}, NEW op \in TaskOps \cup {None},
         k = "task" <=> subject = "task", Observe(k, op)
  PROVE  IInv'
<1>1. obs' = [kind |-> k, op |-> op, seen |-> <<>>, unread |-> FALSE] /\ report' = None /\ cell' = cell
      /\ moments' = {Moment(obs', cell)}
  BY DEF Observe
<1>2. NRead' = 0 /\ obs'.kind = k
  BY <1>1 DEF NRead
<1>3. CellInv'
  BY <1>1 DEF IInv, CellInv
<1>4. ObsInv'
  <2>1. obs' \in Observations
    BY <1>1 DEF Observations
  <2>2. Moment(obs', cell') \in moments'
    BY <1>1
  <2>3. 0 <= Len(Plans[k])
    BY TaskPlan, RunPlan
  <2> QED BY <1>2, <2>1, <2>2, <2>3 DEF ObsInv
<1>5. RunInv'
  BY <1>2 DEF RunInv, Half
<1>6. TaskInv'
  BY <1>2 DEF TaskInv, TaskTyped
<1>7. ReportInv'
  BY <1>1 DEF ReportInv, ReportIsSnapshot, HistoricalFindingHolds
<1> QED BY <1>3, <1>4, <1>5, <1>6, <1>7 DEF IInv

LEMMA InitInv == Init => IInv
<1> SUFFICES ASSUME Init PROVE IInv
  OBVIOUS
<1>1. CellInv
  BY ConstantsAssumption
     DEF Init, CellInv, World, Heads, Metas, States, Runs, Receipts, TaskOps
<1>2. ObsInv /\ RunInv /\ TaskInv /\ ReportInv
  BY DEF Init, ObsInv, RunInv, TaskInv, ReportInv, ReportIsSnapshot, HistoricalFindingHolds
<1> QED BY <1>1, <1>2 DEF IInv

LEMMA StepInv == IInv /\ [Next]_vars => IInv'
<1> SUFFICES ASSUME IInv, [Next]_vars PROVE IInv'
  OBVIOUS
<1>1. CASE subject = "task" /\ subject' = subject /\ TaskNext
  <2>1. PICK w : Write(w)
    BY <1>1, TaskWrite DEF IInv
  <2>2. CellInv' /\ TaskForward
    BY <1>1, TaskWrite DEF IInv
  <2>3. ObsInv'
    BY <1>1, <2>1, WriteObs DEF IInv
  <2>4. TaskInv'
    BY <2>1, <2>2, WriteTask DEF IInv
  <2>5. RunInv'
    BY <1>1, <2>3 DEF ObsInv, RunInv
  <2>6. ReportInv'
    BY <1>1, <2>1, <2>2, WriteReport DEF IInv
  <2> QED BY <2>2, <2>3, <2>4, <2>5, <2>6 DEF IInv
<1>2. CASE subject = "run" /\ subject' = subject /\ RunNext
  <2>1. PICK w : Write(w)
    BY <1>2, RunWrite DEF IInv
  <2>2. CellInv' /\ \A c \in RunCells : Becomes(cell[c], cell'[c])
    BY <1>2, RunWrite DEF IInv
  <2>3. ObsInv'
    BY <1>2, <2>1, WriteObs DEF IInv
  <2>4. RunInv'
    BY <2>1, <2>2, WriteRun DEF IInv
  <2>5. TaskInv'
    BY <1>2, <2>3 DEF ObsInv, TaskInv
  <2>6. ReportInv'
    BY <1>2, <2>1, <2>2, WriteReport DEF IInv
  <2> QED BY <2>2, <2>3, <2>4, <2>5, <2>6 DEF IInv
<1>3. ASSUME subject = "task", subject' = subject, NEW op \in TaskOps, Observe("task", op)
      PROVE  IInv'
  BY <1>3, ObserveInv
<1>4. ASSUME subject = "run", subject' = subject, NEW k \in RunKinds, Observe(k, None)
      PROVE  IInv'
  BY <1>4, ObserveInv DEF RunKinds
<1>5. CASE Read /\ subject' = subject
  <2>1. CASE Blocks
    BY <1>5, <2>1, BlockedInv
  <2>2. CASE Appends
    <3>1. CellInv' /\ ReportInv'
      BY <1>5, <2>2 DEF IInv, CellInv, Appends, ReportInv, ReportIsSnapshot,
         HistoricalFindingHolds
    <3> QED BY <1>5, <2>2, <3>1, AppendObs, AppendRun, AppendTask DEF IInv
  <2> QED BY <1>5, <2>1, <2>2, ReadSplits DEF IInv
<1>9. CASE ReceiptFails /\ subject' = subject
  BY <1>9, UnreadInv
<1>6. CASE ReadFails /\ subject' = subject
  <2>1. Blocks
    BY <1>6 DEF ReadFails, Report, Blocks
  <2> QED BY <1>6, <2>1, BlockedInv
<1>7. CASE Conclude /\ subject' = subject
  BY <1>7, ConcludeInv
<1>8. CASE UNCHANGED vars
  <2>1. subject' = subject /\ cell' = cell /\ obs' = obs /\ moments' = moments
        /\ report' = report
    BY <1>8 DEF vars
  <2>2. CellInv' /\ ObsInv' /\ ReportInv'
    BY <2>1 DEF IInv, CellInv, ObsInv, Moment, Value, NRead, ReportInv, ReportIsSnapshot,
       HistoricalFindingHolds
  <2>3. RunInv'
    BY <2>1 DEF IInv, RunInv, RunMiddle, Half, NRead, Seen
  <2>4. TaskInv'
    BY <2>1 DEF IInv, TaskInv, TaskTyped, TaskHalf, TaskMiddle, SameHead, ReadOr, Value,
       StateBecomes, MetaBecomes, MetaValues, NRead, Seen
  <2> QED BY <2>2, <2>3, <2>4 DEF IInv
<1> QED BY <1>1, <1>2, <1>3, <1>4, <1>5, <1>6, <1>7, <1>8, <1>9 DEF Next, RunKinds

(* The inductive invariant of the observations and of what they observe.   *)
THEOREM ReconciliationInductive == Spec => []IInv
BY InitInv, StepInv, PTL DEF Spec

(* Types; a projection is at most one transition behind the canonical head *)
(* and a notification never ahead of its requeue.                          *)
THEOREM ReconciliationTypes == Spec => []TypeOK
<1>1. IInv => TypeOK
  BY DEF IInv, CellInv, World, Heads, Runs, Receipts, ObsInv, NRead, ReportInv, TypeOK
<1> QED BY ReconciliationInductive, <1>1, PTL

(* The double reads of TaskRequeueReconciler, CurrentHeadReconciler and    *)
(* HistoricalCrossAggregateReconciler are snapshots: a finding that is not *)
(* blocked compares values that were there at one moment of the            *)
(* observation, for a history of any length and a key damaged at any time. *)
THEOREM FindingsAreSnapshots == Spec => []ReportIsSnapshot
<1>1. IInv => ReportIsSnapshot
  BY DEF IInv, ReportInv
<1> QED BY ReconciliationInductive, <1>1, PTL

(* A RUN whose resources, proof or settlement were found consistent stays  *)
(* so: the historical reconciler need not look again.                      *)
THEOREM HistoryHolds == Spec => []HistoricalFindingHolds
<1>1. IInv => HistoricalFindingHolds
  BY DEF IInv, ReportInv
<1> QED BY ReconciliationInductive, <1>1, PTL
=================================================================================
