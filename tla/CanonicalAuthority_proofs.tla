--------------------- MODULE CanonicalAuthority_proofs ---------------------
(***************************************************************************)
(* The canonical authority store implements AuthorityLog, for every number *)
(* of tasks, workers, clients and calls.                                   *)
(*                                                                         *)
(* A commit plan is made from reads that other calls may have overtaken.   *)
(* The invariant says what stays true of it meanwhile: it fits the history *)
(* up to the revision it was read at, because histories only grow.  The    *)
(* script's comparison of that revision with the head is then all that is  *)
(* needed to append it.                                                    *)
(***************************************************************************)
EXTENDS CanonicalAuthority, FiniteSetTheorems, TLAPS

\* g continues the history h.
Extended(h, g) ==
    /\ h \in Seq(Record) /\ g \in Seq(Record)
    /\ Len(h) <= Len(g)
    /\ \A i \in 1..Len(h) : g[i] = h[i]

\* The request is one a binding makes.
Asks(q) ==
    /\ q \in Request
    /\ q.agg \in (IF q.op \in RunOps THEN {Run} ELSE Tasks)
    /\ q.op = "TASK_ADMIT" => q.data \in Admissions

\* The plan r of request q fits the histories hs at its own revision.
Fits(hs, q, r) ==
    /\ r \in Record
    /\ r.op = q.op
    /\ r.from \in 0..Len(hs[q.agg])
    /\ r.prev = StateAt(hs[q.agg], r.from)
    /\ Legal(r)
    /\ Follows(r, hs[q.agg])

\* The end of the root task that a RUN_TERMINATE names.
Rooted(hs, q) ==
    LET root == RootOf(hs[Run]) IN
    /\ root \in Tasks
    /\ q.slot \in 1..Len(hs[root])
    /\ StateAt(hs[root], q.slot) \in Ended

\* A call at s with request q, snapshot revision n, plan r and guard revision g,
\* on its t-th attempt.
Sound(hs, s, q, n, r, g, t) ==
    /\ s # "idle" => Asks(q)
    /\ s \in {"idle", "snapshot", "probe", "root"} => r = NoRecord
    /\ s \in {"prevalidate", "commit", "resolve"} => r # NoRecord
    /\ r # NoRecord => Fits(hs, q, r)
    /\ s \in {"probe", "root"} => n \in 0..Len(hs[q.agg])
    /\ (s = "probe" \/ r # NoRecord) /\ q.op = "RUN_TERMINATE" => Rooted(hs, q)
    /\ s = "commit" /\ q.op \in TerminalOps => g # 0
    /\ s \notin {"prevalidate", "commit", "resolve"} => t = 0
    /\ s = "prevalidate" => t < CommitAttempts

CallsSound ==
    \A c \in Clients :
        Sound(history, pc[c], call[c], snap[c], plan[c], seen[c].guard, tries[c])

Inv == TypeOK /\ CallsSound

----------------------------------------------------------------------------
(* Facts about histories and contracts.                                    *)

LEMMA NotARecord == NoRecord \notin Record
  BY DEF NoRecord, Record, Operations, RunOps, TaskOps, TerminalOps

LEMMA ExtendedState ==
    ASSUME NEW h, NEW g, Extended(h, g), NEW n \in 0..Len(h)
    PROVE  StateAt(g, n) = StateAt(h, n)
  BY DEF Extended, StateAt

LEMMA ExtendedRoot ==
    ASSUME NEW h, NEW g, Extended(h, g), h # <<>>
    PROVE  g # <<>> /\ RootOf(g) = RootOf(h)
  BY DEF Extended, RootOf

LEMMA ExtendedEpoch ==
    ASSUME NEW h, NEW g, Extended(h, g), NEW n \in 1..Len(h)
    PROVE  Epoch(g, n) = Epoch(h, n)
<1>1. \A i \in 1..n : g[i] = h[i]
  BY DEF Extended
<1>2. {i \in 1..n : g[i].op = "TASK_CLAIM"} = {i \in 1..n : h[i].op = "TASK_CLAIM"}
  BY <1>1
<1> QED BY <1>2 DEF Epoch

LEMMA ExtendedFollows ==
    ASSUME NEW h, NEW g, Extended(h, g), NEW r, Follows(r, h), r.from \in 1..Len(h)
    PROVE  Follows(r, g)
<1>1. g[r.from] = h[r.from] /\ Epoch(g, r.from) = Epoch(h, r.from)
  BY ExtendedEpoch DEF Extended
<1> QED BY <1>1 DEF Follows

LEMMA ExtendedAppend ==
    ASSUME NEW h \in Seq(Record), NEW r \in Record
    PROVE  Extended(h, h) /\ Extended(h, Append(h, r))
  BY DEF Extended

\* A record without a predecessor creates its aggregate.
LEMMA FirstCreates ==
    ASSUME NEW r \in Record, Legal(r), r.prev = None
    PROVE  r.op \in CreateOps
  BY DEF Legal, Before, Record, Operations, TaskOps, RunOps, TerminalOps,
         CreateOps, None

LEMMA CreationFollows ==
    ASSUME NEW r, NEW h, r.op \in CreateOps
    PROVE  Follows(r, h)
  BY DEF Follows, CreateOps, TerminalOps

LEMMA FitsExtended ==
    ASSUME NEW hs, NEW gs, NEW q, NEW r, Fits(hs, q, r),
           Extended(hs[q.agg], gs[q.agg])
    PROVE  Fits(gs, q, r)
<1>0. r.from \in 0..Len(hs[q.agg]) /\ r.prev = StateAt(hs[q.agg], r.from)
  BY DEF Fits
<1>1. r.from \in 0..Len(gs[q.agg]) /\ r.prev = StateAt(gs[q.agg], r.from)
  <2>1. StateAt(gs[q.agg], r.from) = StateAt(hs[q.agg], r.from)
    BY <1>0, ExtendedState
  <2>2. Len(hs[q.agg]) <= Len(gs[q.agg]) /\ Len(gs[q.agg]) \in Nat /\ Len(hs[q.agg]) \in Nat
    BY DEF Extended
  <2> QED BY <1>0, <2>1, <2>2
<1>2. CASE r.from = 0
  <2>1. r.op \in CreateOps
    BY <1>2, FirstCreates DEF Fits, StateAt
  <2> QED BY <1>1, <2>1, CreationFollows DEF Fits
<1>3. CASE r.from # 0
  <2>1. r.from \in 1..Len(hs[q.agg])
    BY <1>0, <1>3 DEF Extended
  <2>2. Follows(r, hs[q.agg])
    BY DEF Fits
  <2>3. Follows(r, gs[q.agg])
    BY <2>1, <2>2, ExtendedFollows
  <2> QED BY <1>1, <2>3 DEF Fits
<1> QED BY <1>2, <1>3

LEMMA RootedExtended ==
    ASSUME NEW hs, NEW gs, NEW q, Rooted(hs, q),
           \A a \in Aggregates : Extended(hs[a], gs[a])
    PROVE  Rooted(gs, q)
<1> DEFINE root == RootOf(hs[Run])
<1>1. root \in Tasks /\ q.slot \in 1..Len(hs[root]) /\ StateAt(hs[root], q.slot) \in Ended
  BY DEF Rooted
<1>2. Extended(hs[Run], gs[Run]) /\ Extended(hs[root], gs[root])
  BY <1>1 DEF Aggregates
<1>3. hs[Run] # <<>>
  BY <1>1, AggregateAssumption DEF RootOf
<1>4. RootOf(gs[Run]) = root
  BY <1>2, <1>3, ExtendedRoot
<1>5. q.slot \in 1..Len(gs[root]) /\ q.slot \in 0..Len(hs[root])
  BY <1>1, <1>2 DEF Extended
<1>6. StateAt(gs[root], q.slot) = StateAt(hs[root], q.slot)
  BY <1>2, <1>5, ExtendedState
<1> QED BY <1>1, <1>4, <1>5, <1>6 DEF Rooted

\* What a call relies on is not disturbed by the records other calls append.
LEMMA SoundExtended ==
    ASSUME NEW hs, NEW gs, NEW s, NEW q, NEW n, NEW r, NEW g, NEW t,
           Sound(hs, s, q, n, r, g, t),
           s = "idle" => r = NoRecord,
           \A a \in Aggregates : Extended(hs[a], gs[a])
    PROVE  Sound(gs, s, q, n, r, g, t)
<1>1. ASSUME r # NoRecord PROVE Fits(gs, q, r)
  <2>1. Fits(hs, q, r) /\ Asks(q)
    BY <1>1 DEF Sound
  <2>2. q.agg \in Aggregates
    BY <2>1 DEF Asks, Aggregates
  <2> QED BY <2>1, <2>2, FitsExtended
<1>2. ASSUME s = "probe" \/ r # NoRecord, q.op = "RUN_TERMINATE" PROVE Rooted(gs, q)
  BY <1>2, RootedExtended DEF Sound
<1>3. ASSUME s \in {"probe", "root"} PROVE n \in 0..Len(gs[q.agg])
  <2>1. n \in 0..Len(hs[q.agg]) /\ Asks(q)
    BY <1>3 DEF Sound
  <2>2. q.agg \in Aggregates
    BY <2>1 DEF Asks, Aggregates
  <2> QED BY <2>1, <2>2 DEF Extended
<1> QED BY <1>1, <1>2, <1>3 DEF Sound

----------------------------------------------------------------------------
(* One step of a client.                                                   *)

\* What a step does to the store: histories grow by records, evidence by
\* conflicts.
Grows ==
    /\ history' \in [Aggregates -> Seq(Record)]
    /\ \A a \in Aggregates : Extended(history[a], history'[a])
    /\ conflicts' \subseteq Conflict

LEMMA SameGrows ==
    ASSUME TypeOK, UNCHANGED history, conflicts' \subseteq Conflict
    PROVE  Grows
  BY DEF Grows, TypeOK, Extended

LEMMA EvidenceTyped ==
    ASSUME TypeOK, NEW q, Asks(q), NEW code \in Code, NEW same \in BOOLEAN,
           Evidence(q, code, same)
    PROVE  conflicts' \subseteq Conflict
<1>1. q.op \in Operations /\ q.agg \in Aggregates /\ q.slot \in Nat
  BY DEF Asks, Request
<1> QED BY <1>1 DEF Evidence, Conflict, TypeOK

\* Client c moves: the new value of each of its variables.
Moves(c, s, q, n, r, v, t, y) ==
    /\ pc'    = [pc EXCEPT ![c] = s]
    /\ call'  = [call EXCEPT ![c] = q]
    /\ snap'  = [snap EXCEPT ![c] = n]
    /\ plan'  = [plan EXCEPT ![c] = r]
    /\ seen'  = [seen EXCEPT ![c] = v]
    /\ tries' = [tries EXCEPT ![c] = t]
    /\ reply' = [reply EXCEPT ![c] = y]
    /\ calls' \in Nat

Typed(s, q, n, r, v, t, y) ==
    /\ s \in LABELS /\ q \in Request \cup {NoCall} /\ n \in Nat
    /\ r \in Record \cup {NoRecord}
    /\ v \in [proof : BOOLEAN, head : Nat, guard : Nat]
    /\ t \in 0..CommitAttempts /\ y \in Record \cup {NoRecord}

\* A step that leaves client c in a sound state keeps the invariant.
LEMMA ClientStep ==
    ASSUME Inv, Grows, NEW c \in Clients,
           NEW s, NEW q, NEW n, NEW r, NEW v, NEW t, NEW y,
           Moves(c, s, q, n, r, v, t, y), Typed(s, q, n, r, v, t, y),
           Sound(history', s, q, n, r, v.guard, t)
    PROVE  Inv'
<1>1. TypeOK'
  BY DEF TypeOK, Inv, Grows, Moves, Typed
<1>2. ASSUME NEW d \in Clients
      PROVE  Sound(history', pc'[d], call'[d], snap'[d], plan'[d],
                   seen'[d].guard, tries'[d])
  <2>1. CASE d = c
    BY <2>1 DEF Inv, TypeOK, Moves
  <2>2. CASE d # c
    <3>1. /\ pc'[d] = pc[d] /\ call'[d] = call[d] /\ snap'[d] = snap[d]
          /\ plan'[d] = plan[d] /\ seen'[d] = seen[d] /\ tries'[d] = tries[d]
      BY <2>2 DEF Inv, TypeOK, Moves
    <3>2. Sound(history, pc[d], call[d], snap[d], plan[d], seen[d].guard, tries[d])
      BY DEF Inv, CallsSound
    <3>3. pc[d] = "idle" => plan[d] = NoRecord
      BY <3>2 DEF Sound
    <3>4. \A a \in Aggregates : Extended(history[a], history'[a])
      BY DEF Grows
    <3>5. Sound(history', pc[d], call[d], snap[d], plan[d], seen[d].guard, tries[d])
      BY <3>2, <3>3, <3>4, SoundExtended
    <3> QED BY <3>1, <3>5
  <2> QED BY <2>1, <2>2
<1> QED BY <1>1, <1>2 DEF Inv, CallsSound

\* What the invariant says of the moving client.
LEMMA Mine ==
    ASSUME Inv, NEW c \in Clients
    PROVE  /\ Sound(history, pc[c], call[c], snap[c], plan[c], seen[c].guard, tries[c])
           /\ Typed(pc[c], call[c], snap[c], plan[c], seen[c], tries[c], reply[c])
           /\ calls \in Nat
  BY DEF Inv, CallsSound, TypeOK, Typed

LEMMA Unmoved ==
    ASSUME Inv, NEW c \in Clients
    PROVE  /\ pc = [pc EXCEPT ![c] = pc[c]] /\ call = [call EXCEPT ![c] = call[c]]
           /\ snap = [snap EXCEPT ![c] = snap[c]] /\ plan = [plan EXCEPT ![c] = plan[c]]
           /\ seen = [seen EXCEPT ![c] = seen[c]] /\ tries = [tries EXCEPT ![c] = tries[c]]
           /\ reply = [reply EXCEPT ![c] = reply[c]]
  BY DEF Inv, TypeOK

LEMMA EndStep ==
    ASSUME Inv, Grows, NEW c \in Clients, NEW y \in Record \cup {NoRecord}, End(c, y)
    PROVE  Inv'
<1>1. Sound(history', "idle", NoCall, 0, NoRecord, Unseen.guard, 0)
  BY DEF Sound, Unseen
<1>2. Typed("idle", NoCall, 0, NoRecord, Unseen, 0, y)
  BY DEF Typed, LABELS, Unseen, CommitAttempts
<1>3. Moves(c, "idle", NoCall, 0, NoRecord, Unseen, 0, y)
  BY DEF Moves, End, Inv, TypeOK
<1> QED BY <1>1, <1>2, <1>3, ClientStep

LEMMA RaiseStep ==
    ASSUME Inv, Grows, NEW c \in Clients, Raise(c)
    PROVE  Inv'
  BY EndStep DEF Raise

LEMMA AskedAggregate ==
    ASSUME TypeOK, NEW q, Asks(q)
    PROVE  /\ q.agg \in Aggregates /\ q.op \in Operations /\ q \in Request
           /\ history[q.agg] \in Seq(Record) /\ Rev(q.agg) \in Nat
<1>1. q.agg \in Aggregates /\ q.op \in Operations
  BY DEF Asks, Request
<1> QED BY <1>1 DEF TypeOK, Rev, Asks

LEMMA GotoStep ==
    ASSUME Inv, Grows, NEW c \in Clients, NEW l \in LABELS \ {"idle"}, Goto(c, l),
           Sound(history, l, call[c], snap[c], plan[c], seen[c].guard, tries[c])
    PROVE  Inv'
<1>1. Sound(history', l, call[c], snap[c], plan[c], seen[c].guard, tries[c])
  BY SoundExtended DEF Grows
<1>2. Typed(l, call[c], snap[c], plan[c], seen[c], tries[c], reply[c])
  BY Mine DEF Typed
<1>3. Moves(c, l, call[c], snap[c], plan[c], seen[c], tries[c], reply[c])
  BY Mine, Unmoved DEF Moves, Goto
<1> QED BY <1>1, <1>2, <1>3, ClientStep

LEMMA SettledStep ==
    ASSUME Inv, Grows, NEW c \in Clients, NEW n \in Nat,
           NEW l \in {"head", "snapshot"}, Settled(c, n, l), Asks(call[c])
    PROVE  Inv'
<1>1. Sound(history', l, call[c], n, NoRecord, Unseen.guard, 0)
  BY DEF Sound, Unseen
<1>2. Typed(l, call[c], n, NoRecord, Unseen, 0, reply[c])
  BY Mine DEF Typed, LABELS, Unseen, CommitAttempts
<1>3. Moves(c, l, call[c], n, NoRecord, Unseen, 0, reply[c])
  BY Mine, Unmoved DEF Moves, Settled
<1> QED BY <1>1, <1>2, <1>3, ClientStep

----------------------------------------------------------------------------
(* The actions.                                                            *)

LEMMA CountTyped ==
    ASSUME TypeOK, NEW a \in Aggregates, NEW op
    PROVE  Count(a, op) \in Nat
<1>1. Rev(a) \in Nat
  BY DEF Rev, TypeOK
<1>2. IsFiniteSet(1..Rev(a))
  BY <1>1, FS_Interval
<1>3. IsFiniteSet({i \in 1..Rev(a) : history[a][i].op = op})
  BY <1>2, FS_Subset
<1> QED BY <1>3, FS_CardinalityType DEF Count

LEMMA SlotTyped ==
    ASSUME TypeOK, NEW op \in Operations, NEW a \in Aggregates, NEW e \in Slots(op, a)
    PROVE  e \in Nat
  BY CountTyped DEF Slots, Operations, RunOps, TaskOps, CreateOps, TerminalOps

LEMMA InputTyped ==
    ASSUME NEW op \in Operations, NEW d \in Inputs(op), NEW w \in Stamps(op)
    PROVE  /\ d \in Data /\ w \in Nat
           /\ op = "TASK_ADMIT" => d \in Admissions
  BY InputsAssumption, TimesAssumption
     DEF Inputs, Stamps, Data, States, TaskStates, NoTime

LEMMA BeginWith ==
    ASSUME Inv, NEW c \in Clients, Begin(c), NEW q, Asks(q),
           call' = [call EXCEPT ![c] = q]
    PROVE  Inv'
<1>1. Grows
  BY SameGrows DEF Begin, Store, Inv, TypeOK
<1>2. pc[c] = "idle" /\ plan[c] = NoRecord /\ tries[c] = 0
  BY Mine DEF Begin, Sound
<1>3. Sound(history', "snapshot", q, snap[c], plan[c], seen[c].guard, tries[c])
  BY <1>2 DEF Sound
<1>4. Typed("snapshot", q, snap[c], plan[c], seen[c], tries[c], NoRecord)
  BY Mine DEF Typed, Asks, LABELS
<1>5. Moves(c, "snapshot", q, snap[c], plan[c], seen[c], tries[c], NoRecord)
  <2>1. /\ pc' = [pc EXCEPT ![c] = "snapshot"] /\ reply' = [reply EXCEPT ![c] = NoRecord]
        /\ snap' = snap /\ plan' = plan /\ seen' = seen /\ tries' = tries
        /\ calls' = calls + 1
    BY DEF Begin
  <2> QED BY <2>1, Mine, Unmoved DEF Moves
<1> QED BY <1>1, <1>3, <1>4, <1>5, ClientStep

LEMMA BeginStep ==
    ASSUME Inv, NEW c \in Clients, Begin(c)
    PROVE  Inv'
<1>1. PICK op \in May[c] :
      \E a \in (IF op \in RunOps THEN {Run} ELSE Tasks) :
      \E e \in Slots(op, a), d \in Inputs(op), w \in Stamps(op) :
          call' = [call EXCEPT ![c] = [op |-> op, agg |-> a, slot |-> e,
                                       data |-> d, at |-> w]]
  BY DEF Begin
<1>2. PICK a \in (IF op \in RunOps THEN {Run} ELSE Tasks) :
      \E e \in Slots(op, a), d \in Inputs(op), w \in Stamps(op) :
          call' = [call EXCEPT ![c] = [op |-> op, agg |-> a, slot |-> e,
                                       data |-> d, at |-> w]]
  BY <1>1
<1>3. PICK e \in Slots(op, a), d \in Inputs(op), w \in Stamps(op) :
          call' = [call EXCEPT ![c] = [op |-> op, agg |-> a, slot |-> e,
                                       data |-> d, at |-> w]]
  BY <1>2
<1>4. op \in Operations /\ a \in Aggregates
  BY ClientsAssumption DEF Aggregates
<1>5. e \in Nat /\ d \in Data /\ w \in Nat /\ (op = "TASK_ADMIT" => d \in Admissions)
  BY <1>4, SlotTyped, InputTyped DEF Inv
<1>6. Asks([op |-> op, agg |-> a, slot |-> e, data |-> d, at |-> w])
  BY <1>4, <1>5 DEF Asks, Request
<1> QED BY <1>3, <1>6, BeginWith

LEMMA ReadSnapshotStep ==
    ASSUME Inv, NEW c \in Clients, ReadSnapshot(c)
    PROVE  Inv'
<1> DEFINE l == IF call[c].op = "RUN_TERMINATE" THEN "head" ELSE "probe"
           n == Rev(call[c].agg)
<1>1. Grows
  BY SameGrows DEF ReadSnapshot, Store, Inv, TypeOK
<1>2. Asks(call[c]) /\ plan[c] = NoRecord /\ tries[c] = 0
  BY Mine DEF ReadSnapshot, Sound
<1>3. n \in Nat /\ n \in 0..Len(history[call[c].agg])
  BY <1>2, AskedAggregate DEF Inv, Rev
<1>4. Sound(history, l, call[c], n, plan[c], seen[c].guard, tries[c])
  BY <1>2, <1>3 DEF Sound
<1>5. Sound(history', l, call[c], n, plan[c], seen[c].guard, tries[c])
  BY <1>4 DEF ReadSnapshot, Store
<1>6. Moves(c, l, call[c], n, plan[c], seen[c], tries[c], reply[c])
  BY Mine, Unmoved DEF Moves, ReadSnapshot
<1>7. Typed(l, call[c], n, plan[c], seen[c], tries[c], reply[c])
  BY <1>3, Mine DEF Typed, LABELS
<1> HIDE DEF l, n
<1> QED BY <1>1, <1>5, <1>6, <1>7, ClientStep

LEMMA ProbeFinds ==
    ASSUME NEW h \in Seq(Record), NEW id
    PROVE  /\ Probe(h, id) \in 0..Len(h)
           /\ Probe(h, id) # 0 => h[Probe(h, id)] \in Record
           /\ Probe(h, id) = 0 => Stored(h, id) = {}
<1>1. Stored(h, id) \subseteq 1..Len(h) /\ Len(h) \in Nat
  BY DEF Stored
<1>2. CASE Stored(h, id) = {}
  BY <1>1, <1>2 DEF Probe
<1>3. CASE Stored(h, id) # {}
  <2>1. Probe(h, id) \in Stored(h, id)
    BY <1>3 DEF Probe
  <2> QED BY <1>1, <2>1
<1> QED BY <1>2, <1>3

LEMMA AfterTyped ==
    ASSUME NEW op \in Operations
    PROVE  After[op] # {} /\ After[op] \subseteq States
<1>1. op \in {"TASK_ADMIT", "RUN_CREATE", "TASK_DISPATCH", "TASK_CLAIM",
              "TASK_COMPLETE", "TASK_FAIL", "TASK_REQUEUE", "RUN_TERMINATE"}
  BY DEF Operations, RunOps, TaskOps, TerminalOps
<1> QED BY <1>1 DEF After, States, TaskStates, Ended

LEMMA StateTyped ==
    ASSUME NEW h \in Seq(Record), NEW n \in 0..Len(h)
    PROVE  StateAt(h, n) \in States
<1>1. CASE n = 0
  BY <1>1 DEF StateAt, States
<1>2. CASE n # 0
  <2>1. h[n] \in Record
    BY <1>2
  <2> QED BY <1>2, <2>1 DEF StateAt, Record
<1> QED BY <1>1, <1>2

LEMMA NextStateLegal ==
    ASSUME NEW q, Asks(q), q.op = "RUN_TERMINATE" => Rooted(history, q)
    PROVE  NextState(q) \in After[q.op]
<1>0. q.op \in Operations
  BY DEF Asks, Request
<1>1. CASE q.op = "TASK_ADMIT"
  BY <1>0, <1>1, InputsAssumption DEF NextState, Asks, After
<1>2. CASE q.op = "RUN_TERMINATE"
  BY <1>0, <1>2 DEF NextState, Rooted, After
<1>3. CASE q.op \notin {"TASK_ADMIT", "RUN_TERMINATE"}
  <2>1. NextState(q) = CHOOSE x \in After[q.op] : TRUE
    BY <1>3 DEF NextState
  <2> QED BY <1>0, <2>1, AfterTyped
<1> QED BY <1>1, <1>2, <1>3

\* The plan made from a snapshot and a missing receipt.
LEMMA NewRecordFits ==
    ASSUME TypeOK, NEW q, Asks(q), NEW n \in 0..Len(history[q.agg]), Applicable(q, n),
           q.op = "RUN_TERMINATE" => Rooted(history, q)
    PROVE  Fits(history, q, NewRecord(q, n))
<1> DEFINE r == NewRecord(q, n)
<1>1. /\ q.op \in Operations /\ q.slot \in Nat /\ q.data \in Data /\ q.at \in Nat
      /\ history[q.agg] \in Seq(Record)
  BY AskedAggregate DEF Asks, Request
<1>2. StateAt(history[q.agg], n) \in States
  BY <1>1, StateTyped
<1>3. NextState(q) \in After[q.op] /\ NextState(q) \in States
  BY <1>1, NextStateLegal, AfterTyped
<1>4. n \in Nat
  BY <1>1
<1>5. /\ r.op = q.op /\ r.from = n /\ r.prev = StateAt(history[q.agg], n)
      /\ r.next = NextState(q)
  BY DEF NewRecord
<1>6. r \in Record
  BY <1>1, <1>2, <1>3, <1>4 DEF NewRecord, Record
<1>7. Legal(r)
  BY <1>3, <1>5 DEF Legal, Applicable
<1>8. Follows(r, history[q.agg])
  BY DEF Applicable
<1>9. Fits(history, q, r)
  <2> HIDE DEF r
  <2> QED BY <1>5, <1>6, <1>7, <1>8 DEF Fits
<1> QED BY <1>9

LEMMA PlanStep ==
    ASSUME Inv, NEW c \in Clients, pc[c] = "probe", Plan(c, call[c], snap[c])
    PROVE  Inv'
<1> DEFINE q == call[c]
           r == NewRecord(q, snap[c])
           l == IF QuotesHead(q) THEN "head" ELSE "prevalidate"
<1>1. Grows
  BY SameGrows DEF Plan, Store, Inv, TypeOK
<1>2. /\ Asks(q) /\ snap[c] \in 0..Len(history[q.agg]) /\ tries[c] = 0
      /\ q.op = "RUN_TERMINATE" => Rooted(history, q)
  BY Mine DEF Sound
<1>3. Applicable(q, snap[c])
  BY DEF Plan
<1>4. Fits(history, q, r)
  BY <1>2, <1>3, NewRecordFits DEF Inv
<1>5. r \in Record /\ r # NoRecord
  BY <1>4, NotARecord DEF Fits
<1>6. Sound(history, l, q, snap[c], r, seen[c].guard, tries[c])
  <2> HIDE DEF r, q
  <2> QED BY <1>2, <1>4, <1>5 DEF Sound, CommitAttempts
<1>7. Sound(history', l, q, snap[c], r, seen[c].guard, tries[c])
  BY <1>6 DEF Plan, Store
<1>8. Moves(c, l, q, snap[c], r, seen[c], tries[c], reply[c])
  BY Mine, Unmoved DEF Moves, Plan
<1>9. Typed(l, q, snap[c], r, seen[c], tries[c], reply[c])
  BY <1>5, Mine DEF Typed, LABELS
<1> HIDE DEF l, r, q
<1> QED BY <1>1, <1>7, <1>8, <1>9, ClientStep

LEMMA ReplayStep ==
    ASSUME Inv, NEW c \in Clients, pc[c] = "probe",
           NEW p \in 1..Len(history[call[c].agg]),
           Replay(c, call[c], snap[c], p)
    PROVE  Inv'
<1>1. Grows
  BY SameGrows DEF Replay, Store, Inv, TypeOK
<1>2. Asks(call[c]) /\ plan[c] = NoRecord /\ tries[c] = 0
  BY Mine DEF Sound
<1>3. history[call[c].agg][p] \in Record /\ p \in Nat
  BY <1>2, AskedAggregate DEF Inv
<1>4. CASE End(c, history[call[c].agg][p])
  BY <1>1, <1>3, <1>4, EndStep
<1>5. CASE /\ snap' = [snap EXCEPT ![c] = p] /\ pc' = [pc EXCEPT ![c] = "head"]
           /\ UNCHANGED <<call, plan, seen, tries, reply, calls>>
  <2>1. Sound(history', "head", call[c], p, plan[c], seen[c].guard, tries[c])
    BY <1>2 DEF Sound
  <2>2. Moves(c, "head", call[c], p, plan[c], seen[c], tries[c], reply[c])
    BY <1>5, Mine, Unmoved DEF Moves
  <2>3. Typed("head", call[c], p, plan[c], seen[c], tries[c], reply[c])
    BY <1>3, Mine DEF Typed, LABELS
  <2> QED BY <1>1, <2>1, <2>2, <2>3, ClientStep
<1> QED BY <1>4, <1>5 DEF Replay

LEMMA RefusalStep ==
    ASSUME Inv, NEW c \in Clients, pc[c] = "probe", NEW p,
           \/ Inapplicable(c, call[c], snap[c])
           \/ OtherCommand(c, call[c], snap[c], p)
           \/ TornRead(c, call[c], snap[c], p)
    PROVE  Inv'
<1>1. Asks(call[c])
  BY Mine DEF Sound
<1>2. /\ "ILLEGAL_STATE_TRANSITION" \in Code /\ "IDEMPOTENCY_CONFLICT" \in Code
      /\ "CANONICAL_RECORD_CORRUPTION_CONFLICT" \in Code
  BY DEF Code
<1>3. conflicts' \subseteq Conflict
  <2>1. CASE UNCHANGED conflicts
    BY <2>1 DEF Inv, TypeOK
  <2>2. CASE \E code \in Code, same \in BOOLEAN : Evidence(call[c], code, same)
    BY <1>1, <2>2, EvidenceTyped DEF Inv
  <2>3. CASE Inapplicable(c, call[c], snap[c])
    BY <1>2, <2>1, <2>2, <2>3 DEF Inapplicable
  <2>4. CASE OtherCommand(c, call[c], snap[c], p)
    BY <1>2, <2>1, <2>2, <2>4 DEF OtherCommand
  <2>5. CASE TornRead(c, call[c], snap[c], p)
    BY <1>2, <2>1, <2>2, <2>5 DEF TornRead
  <2> QED BY <2>3, <2>4, <2>5
<1>4. UNCHANGED history /\ Raise(c)
  BY DEF Inapplicable, OtherCommand, TornRead
<1> QED BY <1>3, <1>4, SameGrows, RaiseStep DEF Inv

LEMMA ReadProbeStep ==
    ASSUME Inv, NEW c \in Clients, ReadProbe(c)
    PROVE  Inv'
<1> DEFINE q == call[c]
           p == Probe(history[q.agg], OperationId(q))
<1>1. pc[c] = "probe" /\ Asks(q)
  BY Mine DEF ReadProbe, Sound
<1>2. p \in 0..Len(history[q.agg]) /\ Len(history[q.agg]) \in Nat
  BY <1>1, AskedAggregate, ProbeFinds DEF Inv
<1>3. CASE Plan(c, q, snap[c])
  BY <1>1, <1>3, PlanStep
<1>4. CASE p # 0 /\ Replay(c, q, snap[c], p)
  <2>1. p \in 1..Len(history[q.agg])
    BY <1>2, <1>4
  <2> HIDE DEF p
  <2> QED BY <1>1, <1>4, <2>1, ReplayStep
<1>5. CASE \/ Inapplicable(c, q, snap[c])
           \/ OtherCommand(c, q, snap[c], p)
           \/ TornRead(c, q, snap[c], p)
  BY <1>1, <1>5, RefusalStep
<1> QED BY <1>3, <1>4, <1>5 DEF ReadProbe

LEMMA ValidateHeadStep ==
    ASSUME Inv, NEW c \in Clients, ValidateHead(c)
    PROVE  Inv'
<1> DEFINE q == call[c]
           n == snap[c]
           l == IF plan[c] # NoRecord THEN "prevalidate" ELSE "root"
<1>1. Grows
  BY SameGrows DEF ValidateHead, Store, Inv, TypeOK
<1>2. /\ pc[c] = "head"
      /\ Sound(history, "head", q, n, plan[c], seen[c].guard, tries[c])
      /\ n \in Nat
  BY Mine DEF ValidateHead, Typed
<1>3. Asks(q) /\ history[q.agg] \in Seq(Record) /\ tries[c] = 0
  BY <1>2, AskedAggregate DEF Sound, Inv
<1>4. CASE Raise(c)
  BY <1>1, <1>4, RaiseStep
<1>5. CASE n # 0 /\ Rev(q.agg) = n /\ End(c, history[q.agg][n])
  <2>1. history[q.agg][n] \in Record
    BY <1>2, <1>3, <1>5 DEF Rev
  <2> QED BY <1>1, <1>5, <2>1, EndStep
<1>6. CASE Rev(q.agg) = n /\ Goto(c, l)
  <2>1. n \in 0..Len(history[q.agg])
    BY <1>3, <1>6 DEF Rev
  <2>2. Sound(history, l, q, n, plan[c], seen[c].guard, tries[c])
    <3> HIDE DEF q, n
    <3> QED BY <1>2, <1>3, <2>1 DEF Sound, CommitAttempts
  <2>3. l \in LABELS \ {"idle"}
    BY DEF LABELS
  <2> QED BY <1>1, <1>6, <2>2, <2>3, GotoStep
<1> QED BY <1>4, <1>5, <1>6 DEF ValidateHead, Goto

LEMMA CaptureRootStep ==
    ASSUME Inv, NEW c \in Clients, CaptureRoot(c)
    PROVE  Inv'
<1> DEFINE root == RootOf(history[Run])
           q    == [call[c] EXCEPT !.slot = Rev(root)]
<1>1. Grows
  BY SameGrows DEF CaptureRoot, Store, Inv, TypeOK
<1>2. /\ pc[c] = "root" /\ Asks(call[c]) /\ plan[c] = NoRecord /\ tries[c] = 0
      /\ snap[c] \in 0..Len(history[call[c].agg])
  BY Mine DEF CaptureRoot, Sound
<1>3. CASE Raise(c)
  BY <1>1, <1>3, RaiseStep
<1>4. CASE /\ root \in Tasks /\ State(history[root]) \in Ended
           /\ call' = [call EXCEPT ![c].slot = Rev(root)]
           /\ pc' = [pc EXCEPT ![c] = "probe"]
           /\ UNCHANGED <<snap, plan, seen, tries, reply, calls>>
  <2>1. history[root] \in Seq(Record)
    BY <1>4 DEF Inv, TypeOK, Aggregates
  <2>2. Rev(root) \in 1..Len(history[root]) /\ Rev(root) \in Nat
    BY <1>4, <2>1 DEF Rev, State, StateAt, Ended, None
  <2>3. StateAt(history[root], Rev(root)) \in Ended
    BY <1>4 DEF State, Rev
  <2>4. call[c] \in Request
    BY <1>2 DEF Asks
  <2>5. q \in Request /\ q.op = call[c].op /\ q.agg = call[c].agg
        /\ q.data = call[c].data /\ q.slot = Rev(root)
    BY <2>2, <2>4 DEF Request
  <2>6. Asks(q)
    BY <1>2, <2>5 DEF Asks
  <2>7. Rooted(history, q)
    BY <1>4, <2>2, <2>3, <2>5 DEF Rooted
  <2>8. call' = [call EXCEPT ![c] = q]
    BY <1>4 DEF Inv, TypeOK
  <2>9. Sound(history', "probe", q, snap[c], plan[c], seen[c].guard, tries[c])
    <3>1. history' = history
      BY DEF CaptureRoot, Store
    <3> HIDE DEF q
    <3> QED BY <1>2, <2>5, <2>6, <2>7, <3>1 DEF Sound
  <2>10. Moves(c, "probe", q, snap[c], plan[c], seen[c], tries[c], reply[c])
    BY <1>4, <2>8, Mine, Unmoved DEF Moves
  <2>11. Typed("probe", q, snap[c], plan[c], seen[c], tries[c], reply[c])
    BY <2>5, Mine DEF Typed, LABELS
  <2> HIDE DEF q
  <2> QED BY <1>1, <2>9, <2>10, <2>11, ClientStep
<1> QED BY <1>3, <1>4 DEF CaptureRoot

LEMMA PrevalidateStep ==
    ASSUME Inv, NEW c \in Clients, Prevalidate(c)
    PROVE  Inv'
<1> DEFINE r == plan[c]
           a == call[c].agg
           v == [proof |-> Probe(history[a], OperationId(r)) # 0, head |-> Rev(a),
                 guard |-> IF r.op \in Guarded THEN Rev(Guard(r.op)) ELSE 0]
<1>1. Grows
  BY SameGrows DEF Prevalidate, Store, Inv, TypeOK
<1>2. /\ pc[c] = "prevalidate" /\ Asks(call[c]) /\ Fits(history, call[c], r)
      /\ tries[c] < CommitAttempts /\ tries[c] \in 0..CommitAttempts
      /\ r.op = "RUN_TERMINATE" => RootOf(history[Run]) \in Tasks
  BY Mine DEF Prevalidate, Sound, Fits, Rooted, Typed
<1>3. CASE Raise(c)
  BY <1>1, <1>3, RaiseStep
<1>4. CASE /\ ~(r.op \in TerminalOps /\ Rev(Run) = 0)
           /\ seen' = [seen EXCEPT ![c] = v]
           /\ tries' = [tries EXCEPT ![c] = @ + 1]
           /\ pc' = [pc EXCEPT ![c] = "commit"]
           /\ UNCHANGED <<call, snap, plan, reply, calls>>
  <2>1. Rev(a) \in Nat
    BY <1>2, AskedAggregate DEF Inv
  <2>2. Guard(r.op) \in Aggregates
    BY <1>2 DEF Guard, Aggregates
  <2>3. Rev(Guard(r.op)) \in Nat
    BY <2>2 DEF Inv, TypeOK, Rev
  <2>4. v \in [proof : BOOLEAN, head : Nat, guard : Nat]
    BY <2>1, <2>3
  <2>5. r.op \in TerminalOps => v.guard # 0
    BY <1>4 DEF Guarded, Guard, TerminalOps
  <2>6. tries[c] + 1 \in 0..CommitAttempts
    BY <1>2 DEF CommitAttempts
  <2>7. Sound(history', "commit", call[c], snap[c], r, v.guard, tries[c] + 1)
    <3>1. history' = history
      BY DEF Prevalidate, Store
    <3>2. Sound(history, "prevalidate", call[c], snap[c], r, seen[c].guard, tries[c])
      BY <1>2, Mine
    <3>3. r.op = call[c].op
      BY <1>2 DEF Fits
    <3> HIDE DEF v
    <3> QED BY <2>5, <3>1, <3>2, <3>3 DEF Sound
  <2>8. Moves(c, "commit", call[c], snap[c], r, v, tries[c] + 1, reply[c])
    <3>1. tries' = [tries EXCEPT ![c] = tries[c] + 1]
      BY <1>4
    <3> HIDE DEF v
    <3> QED BY <1>4, <3>1, Mine, Unmoved DEF Moves
  <2>9. Typed("commit", call[c], snap[c], r, v, tries[c] + 1, reply[c])
    <3> HIDE DEF v
    <3> QED BY <2>4, <2>6, Mine DEF Typed, LABELS
  <2> HIDE DEF v, r
  <2> QED BY <1>1, <2>7, <2>8, <2>9, ClientStep
<1> QED BY <1>3, <1>4 DEF Prevalidate

\* Whatever the script answers, it appends the plan or nothing.
LEMMA EffectGrows ==
    ASSUME Inv, NEW c \in Clients, pc[c] = "commit", NEW result, CommitEffect(c, result)
    PROVE  Grows
<1>1. Asks(call[c]) /\ plan[c] \in Record
  BY Mine DEF Sound, Fits
<1>2. /\ call[c].agg \in Aggregates /\ history[call[c].agg] \in Seq(Record)
      /\ history \in [Aggregates -> Seq(Record)]
  BY <1>1, AskedAggregate DEF Inv, TypeOK
<1>3. conflicts' \subseteq Conflict
  <2>1. CASE UNCHANGED conflicts
    BY <2>1 DEF Inv, TypeOK
  <2>2. CASE /\ result \in {"CANONICAL_RECORD_CORRUPTION_CONFLICT",
                            "IDEMPOTENCY_CONFLICT", "AGGREGATE_ALREADY_EXISTS_CONFLICT"}
             /\ Evidence(call[c], result, result = "CANONICAL_RECORD_CORRUPTION_CONFLICT")
    <3>1. result \in Code /\ (result = "CANONICAL_RECORD_CORRUPTION_CONFLICT") \in BOOLEAN
      BY <2>2 DEF Code
    <3> QED BY <1>1, <2>2, <3>1, EvidenceTyped DEF Inv
  <2> QED BY <2>1, <2>2 DEF CommitEffect
<1>4. CASE UNCHANGED history
  BY <1>3, <1>4, SameGrows DEF Inv
<1>5. CASE history' = [history EXCEPT ![call[c].agg] = Append(@, plan[c])]
  <2>1. ASSUME NEW b \in Aggregates
        PROVE  history'[b] \in Seq(Record) /\ Extended(history[b], history'[b])
    <3>1. history[b] \in Seq(Record)
      BY <1>2
    <3>2. history'[b] = IF b = call[c].agg THEN Append(history[b], plan[c]) ELSE history[b]
      BY <1>2, <1>5
    <3> QED BY <1>1, <3>1, <3>2, ExtendedAppend
  <2>2. history' \in [Aggregates -> Seq(Record)]
    BY <1>2, <1>5, <2>1
  <2> QED BY <1>3, <2>1, <2>2 DEF Grows
<1> QED BY <1>4, <1>5 DEF CommitEffect

LEMMA CommitStep ==
    ASSUME Inv, NEW c \in Clients, Commit(c)
    PROVE  Inv'
<1>1. pc[c] = "commit" /\ Grows
  BY EffectGrows DEF Commit
<1>2. Sound(history, "commit", call[c], snap[c], plan[c], seen[c].guard, tries[c])
  BY <1>1, Mine
<1>3. Asks(call[c]) /\ plan[c] \in Record /\ plan[c].from + 1 \in Nat
  BY <1>2 DEF Sound, Fits, Record
<1>4. CASE \E y \in Record \cup {NoRecord} : End(c, y)
  BY <1>1, <1>4, EndStep
<1>5. CASE \E n \in Nat, l \in {"head", "snapshot"} : Settled(c, n, l)
  BY <1>1, <1>3, <1>5, SettledStep
<1>6. CASE tries[c] < CommitAttempts /\ Goto(c, "prevalidate")
  <2>1. Sound(history, "prevalidate", call[c], snap[c], plan[c], seen[c].guard, tries[c])
    BY <1>2, <1>6 DEF Sound
  <2>2. "prevalidate" \in LABELS \ {"idle"}
    BY DEF LABELS
  <2> QED BY <1>1, <1>6, <2>1, <2>2, GotoStep
<1>7. CASE Goto(c, "resolve")
  <2>1. Sound(history, "resolve", call[c], snap[c], plan[c], seen[c].guard, tries[c])
    BY <1>2 DEF Sound
  <2>2. "resolve" \in LABELS \ {"idle"}
    BY DEF LABELS
  <2> QED BY <1>1, <1>7, <2>1, <2>2, GotoStep
<1>8. CASE Accepted(c)
  BY <1>3, <1>4, <1>5, <1>8 DEF Accepted
<1>9. CASE Duplicate(c)
  BY <1>3, <1>5, <1>7, <1>9 DEF Duplicate
<1>10. CASE \E result : Refused(c, result)
  BY <1>4, <1>7, <1>10 DEF Raise, Refused
<1>11. CASE Settled(c, 0, "snapshot")
  BY <1>5, <1>11
<1> QED BY <1>6, <1>8, <1>9, <1>10, <1>11 DEF Commit

LEMMA CommitUnansweredStep ==
    ASSUME Inv, NEW c \in Clients, CommitUnanswered(c)
    PROVE  Inv'
<1>1. pc[c] = "commit"
  BY DEF CommitUnanswered
<1>2. Grows
  BY <1>1, EffectGrows, SameGrows DEF CommitUnanswered, Store, Inv, TypeOK
<1>3. Sound(history, "resolve", call[c], snap[c], plan[c], seen[c].guard, tries[c])
  BY <1>1, Mine DEF Sound
<1>4. "resolve" \in LABELS \ {"idle"}
  BY DEF LABELS
<1> QED BY <1>2, <1>3, <1>4, GotoStep, RaiseStep DEF CommitUnanswered

LEMMA ResolveStep ==
    ASSUME Inv, NEW c \in Clients, Resolve(c)
    PROVE  Inv'
<1> DEFINE h == history[call[c].agg]
           p == Probe(h, OperationId(plan[c]))
<1>1. Grows
  BY SameGrows DEF Resolve, Store, Inv, TypeOK
<1>2. Asks(call[c])
  BY Mine DEF Resolve, Sound
<1>3. h \in Seq(Record)
  BY <1>2, AskedAggregate DEF Inv
<1>4. p # 0 => h[p] \in Record
  BY <1>3, ProbeFinds
<1> QED BY <1>1, <1>4, EndStep, RaiseStep DEF Resolve

LEMMA AbandonStep ==
    ASSUME Inv, NEW c \in Clients, Abandon(c)
    PROVE  Inv'
  BY SameGrows, RaiseStep DEF Abandon, Store, Inv, TypeOK

LEMMA NextStep == Inv /\ [Next]_vars => Inv'
<1>1. ASSUME Inv, Next PROVE Inv'
  BY <1>1, BeginStep, ReadSnapshotStep, ReadProbeStep, ValidateHeadStep,
     CaptureRootStep, PrevalidateStep, CommitStep, CommitUnansweredStep,
     ResolveStep, AbandonStep DEF Next, Step
<1>2. ASSUME Inv, UNCHANGED vars PROVE Inv'
  BY <1>2 DEF vars, locals, Inv, TypeOK, CallsSound
<1> QED BY <1>1, <1>2

LEMMA InitInv == Init => Inv
<1> SUFFICES ASSUME Init PROVE Inv
  OBVIOUS
<1>1. TypeOK
  BY DEF Init, TypeOK, LABELS, Unseen, CommitAttempts
<1>2. CallsSound
  BY DEF Init, CallsSound, Sound
<1> QED BY <1>1, <1>2 DEF Inv

LEMMA Invariance == Spec => []Inv
  BY InitInv, NextStep, PTL DEF Spec

\* The store and the calls of the bindings are well typed, the attempts of a
\* commit bounded.
THEOREM CanonicalTypeOK == Spec => []TypeOK
<1>1. Inv => TypeOK
  BY DEF Inv
<1> QED BY <1>1, Invariance, PTL

----------------------------------------------------------------------------
(* Refinement.                                                             *)

\* The instance reads histories as this module does.
LEMMA SameReading ==
    /\ Log!Record = Record /\ Log!Ended = Ended /\ Log!TerminalOps = TerminalOps
    /\ Log!RunOps = RunOps /\ Log!TaskOps = TaskOps /\ Log!Aggregates = Aggregates
  BY DEF Log!Record, Record, Log!Operations, Operations, Log!RunOps, RunOps,
         Log!TaskOps, TaskOps, Log!TerminalOps, TerminalOps, Log!Data, Data,
         Log!States, States, Log!TaskStates, TaskStates, Log!None, None,
         Log!NoData, NoData, Log!Ended, Ended, Log!Aggregates, Aggregates
LEMMA SameState ==
    ASSUME NEW h
    PROVE  Log!State(h) = State(h) /\ Log!RootOf(h) = RootOf(h)
  BY DEF Log!State, State, Log!StateAt, StateAt, Log!None, None, Log!RootOf, RootOf
LEMMA SameContract ==
    ASSUME NEW r, Legal(r)
    PROVE  Log!Legal(r)
  BY DEF Log!Legal, Legal, Log!Before, Before, Log!After, After,
         Log!Operations, Operations, Log!RunOps, RunOps, Log!TaskOps, TaskOps,
         Log!TerminalOps, TerminalOps, Log!CreateOps, CreateOps, Log!None, None,
         Log!Ended, Ended
LEMMA SameFollows ==
    ASSUME NEW r, NEW h, Follows(r, h)
    PROVE  Log!Follows(r, h)
  BY DEF Log!Follows, Follows, Log!Epoch, Epoch, Log!TerminalOps, TerminalOps,
         Log!Cardinality, Cardinality
LEMMA SameStored ==
    ASSUME NEW h, NEW r
    PROVE  Log!Stored(h, Log!OperationId(r)) = Stored(h, OperationId(r))
  BY DEF Log!Stored, Stored, Log!OperationId, OperationId, Log!Family, Family,
         Log!TerminalOps, TerminalOps

\* The comparisons of the commit script are those the log asks for.
LEMMA CommittedAccepts ==
    ASSUME Inv, NEW c \in Clients, pc[c] = "commit", CommitResult(c) = "COMMITTED",
           history' = [history EXCEPT ![call[c].agg] = Append(@, plan[c])]
    PROVE  Log!Next
<1> DEFINE q == call[c]
           a == q.agg
           r == plan[c]
           root == RootOf(history[Run])
<1>1. /\ Asks(q) /\ Fits(history, q, r)
      /\ r.op \in TerminalOps => seen[c].guard # 0
  BY Mine DEF Sound, Fits
<1>2. /\ a \in Aggregates /\ history[a] \in Seq(Record) /\ r \in Record /\ r.op = q.op
      /\ history \in [Aggregates -> Seq(Record)]
  BY <1>1, AskedAggregate DEF Inv, Fits, TypeOK
<1>3. /\ Probe(history[a], OperationId(r)) = 0
      /\ GuardResult(a, r, seen[c].guard) = "OK"
      /\ HeadResult(a, r, seen[c].head) = "COMMITTED"
  <2>1. \A p, b : ReceiptResult(a, r, p, b) # "COMMITTED"
    BY DEF ReceiptResult
  <2>2. GuardResult(a, r, seen[c].guard) # "COMMITTED"
    BY DEF GuardResult
  <2> HIDE DEF a, r
  <2> QED BY <2>1, <2>2 DEF CommitResult, a, r, q
<1>4. r.from = Len(history[a]) /\ r.prev = State(history[a])
  <2>1. ~(Rev(a) < r.from) /\ ~(Rev(a) > r.from) /\ StateAt(history[a], Rev(a)) = r.prev
    BY <1>3 DEF HeadResult
  <2> QED BY <1>2, <2>1 DEF Rev, State, Record
<1>5. r.op \in (IF a = Run THEN RunOps ELSE TaskOps)
  BY <1>1, <1>2, AggregateAssumption DEF Asks, Request, Operations
<1>6. Log!Continues(a, r)
  <2>1. Stored(history[a], OperationId(r)) = {}
    BY <1>2, <1>3, ProbeFinds
  <2>2. Log!Legal(r) /\ Log!Follows(r, history[a])
    BY <1>1, SameContract, SameFollows DEF Fits
  <2> HIDE DEF a, r
  <2> QED BY <1>4, <1>5, <2>1, <2>2, SameReading, SameState, SameStored DEF Log!Continues
<1>7. Log!Agrees(a, r)
  <2>1. ASSUME r.op = "TASK_ADMIT"
        PROVE  IF root = NoTask THEN ~RequireRoot ELSE root = a /\ State(history[Run]) \notin Ended
    BY <1>3, <2>1 DEF GuardResult, State, Rev, TerminalOps
  <2>2. ASSUME r.op \in TerminalOps
        PROVE  history[Run] # <<>> /\ State(history[Run]) \notin Ended
    <3>1. Rev(Run) = seen[c].guard /\ StateAt(history[Run], Rev(Run)) \notin Ended
      BY <1>3, <2>2 DEF GuardResult, TerminalOps
    <3> QED BY <1>1, <2>2, <3>1 DEF Rev, State
  <2>3. ASSUME r.op = "RUN_TERMINATE"
        PROVE  root \in Tasks /\ r.next = State(history[root])
    BY <1>3, <2>3 DEF GuardResult, State, Rev, TerminalOps
  <2> HIDE DEF a, r
  <2> QED BY <2>1, <2>2, <2>3, SameReading, SameState DEF Log!Agrees
<1>8. /\ history'[a] = Append(history[a], r)
      /\ history' = [history EXCEPT ![a] = Append(history[a], r)]
  BY <1>2
<1>9. Len(history'[a]) = Len(history[a]) + 1 /\ history'[a][Len(history[a]) + 1] = r
  BY <1>2, <1>8
<1>10. Log!Accept(a)
  <2> HIDE DEF a, r
  <2> QED BY <1>2, <1>6, <1>7, <1>8, <1>9, SameReading DEF Log!Accept
<1> QED BY <1>2, <1>10, SameReading DEF Log!Next

LEMMA EffectAccepts ==
    ASSUME Inv, NEW c \in Clients, pc[c] = "commit", CommitEffect(c, CommitResult(c))
    PROVE  [Log!Next]_history
<1>1. CASE CommitResult(c) = "COMMITTED"
  BY <1>1, CommittedAccepts DEF CommitEffect
<1>2. CASE CommitResult(c) # "COMMITTED"
  BY <1>2 DEF CommitEffect
<1> QED BY <1>1, <1>2

LEMMA StepsAccept == Inv /\ [Next]_vars => [Log!Next]_history
<1> SUFFICES ASSUME Inv, [Next]_vars, ~UNCHANGED history PROVE Log!Next
  OBVIOUS
<1>1. PICK c \in Clients : Begin(c) \/ Step(c) \/ CommitUnanswered(c) \/ Abandon(c)
  BY DEF Next, vars
<1>2. Commit(c) \/ CommitUnanswered(c)
  BY <1>1 DEF Begin, Step, ReadSnapshot, ReadProbe, Plan, Inapplicable, Replay,
     OtherCommand, TornRead, ValidateHead, CaptureRoot, Prevalidate, Resolve,
     Abandon, Store
<1>3. pc[c] = "commit" /\ CommitEffect(c, CommitResult(c))
  BY <1>2 DEF Commit, CommitUnanswered, Store
<1> QED BY <1>3, EffectAccepts

\* The store keeps the log it promises, whatever calls interleave, retry or
\* lose their answer (canonical_authority_commit.lua under the bindings).
THEOREM StoreKeepsLog == Spec => KeepsLog
<1>1. Init => Log!Init
  BY SameReading DEF Init, Log!Init
<1> QED BY <1>1, StepsAccept, Invariance, PTL DEF Spec, KeepsLog, Log!Spec

Promise == INSTANCE AuthorityLog_proofs WITH log <- history

\* What a reader of the RUN sees as its outcome is what its root task has
\* ended with, for good.
THEOREM StoreEndsAsRoot == Spec => []RunEndsAsRoot
<1>1. Promise!Spec => []Promise!RunEndsAsRoot
  BY AggregateAssumption, TimesAssumption, RootAssumption, Promise!LogEndsAsRoot
<1>2. Log!Init => Promise!Init
  BY DEF Log!Init, Promise!Init, Log!Aggregates, Promise!Aggregates
<1>3. Log!Next => Promise!Next
  BY DEF Log!Next, Promise!Next, Log!Accept, Promise!Accept, Log!Continues,
         Promise!Continues, Log!Agrees, Promise!Agrees, Log!Record,
         Promise!Record, Log!Operations, Promise!Operations, Log!RunOps,
         Promise!RunOps, Log!TaskOps, Promise!TaskOps, Log!TerminalOps,
         Promise!TerminalOps, Log!CreateOps, Promise!CreateOps, Log!Data,
         Promise!Data, Log!States, Promise!States, Log!TaskStates,
         Promise!TaskStates, Log!None, Promise!None, Log!NoData,
         Promise!NoData, Log!Ended, Promise!Ended, Log!Aggregates,
         Promise!Aggregates, Log!State, Promise!State, Log!StateAt,
         Promise!StateAt, Log!RootOf, Promise!RootOf, Log!Legal,
         Promise!Legal, Log!Before, Promise!Before, Log!After, Promise!After,
         Log!Follows, Promise!Follows, Log!Epoch, Promise!Epoch,
         Log!Cardinality, Promise!Cardinality, Log!Stored, Promise!Stored,
         Log!OperationId, Promise!OperationId, Log!Family, Promise!Family
<1>4. Promise!RunEndsAsRoot => RunEndsAsRoot
  BY DEF Log!RunEndsAsRoot, Promise!RunEndsAsRoot, Log!State, Promise!State,
         Log!StateAt, Promise!StateAt, Log!None, Promise!None, Log!Ended,
         Promise!Ended, Log!RootOf, Promise!RootOf,
         RunEndsAsRoot
<1>5. [Log!Next]_history => [Promise!Next]_history
  BY <1>3
<1> QED BY <1>1, <1>2, <1>4, <1>5, StoreKeepsLog, PTL
        DEF KeepsLog, Log!Spec, Promise!Spec

----------------------------------------------------------------------------
(* Answers.                                                                *)

\* The record y is in the store hs.
Kept(hs, y) ==
    y # NoRecord => \E a \in Aggregates : \E i \in 1..Len(hs[a]) : hs[a][i] = y

LEMMA StoreGrows ==
    ASSUME Inv, Next
    PROVE  \A a \in Aggregates : Extended(history[a], history'[a])
<1>1. CASE UNCHANGED history
  BY <1>1 DEF Inv, TypeOK, Extended
<1>2. CASE ~UNCHANGED history
  <2>1. PICK c \in Clients : Begin(c) \/ Step(c) \/ CommitUnanswered(c) \/ Abandon(c)
    BY DEF Next
  <2>2. Commit(c) \/ CommitUnanswered(c)
    BY <1>2, <2>1 DEF Begin, Step, ReadSnapshot, ReadProbe, Plan, Inapplicable,
       Replay, OtherCommand, TornRead, ValidateHead, CaptureRoot, Prevalidate,
       Resolve, Abandon, Store
  <2>3. pc[c] = "commit" /\ CommitEffect(c, CommitResult(c))
    BY <1>2, <2>2 DEF Commit, CommitUnanswered, Store
  <2> QED BY <2>3, EffectGrows DEF Grows
<1> QED BY <1>1, <1>2

\* A step leaves the answer of its client alone, clears it, or sets it to a
\* record that is stored when the step is done.
Answers(c) ==
    \E y : reply' = [reply EXCEPT ![c] = y] /\ (y = reply[c] \/ Kept(history', y))

LEMMA SilentAnswers ==
    ASSUME Inv, NEW c \in Clients, UNCHANGED reply
    PROVE  Answers(c)
  BY Unmoved DEF Answers

LEMMA EndAnswers ==
    ASSUME NEW c \in Clients, NEW y, End(c, y), Kept(history', y)
    PROVE  Answers(c)
  BY DEF Answers, End

LEMMA RaiseAnswers ==
    ASSUME NEW c \in Clients, Raise(c)
    PROVE  Answers(c)
  BY EndAnswers DEF Raise, Kept

LEMMA StoredKept ==
    ASSUME NEW hs, NEW a \in Aggregates, NEW i \in 1..Len(hs[a])
    PROVE  Kept(hs, hs[a][i])
  BY DEF Kept

LEMMA ReadProbeAnswers ==
    ASSUME Inv, NEW c \in Clients, ReadProbe(c)
    PROVE  Answers(c)
<1> DEFINE q == call[c]
           p == Probe(history[q.agg], OperationId(q))
<1>1. Asks(q)
  BY Mine DEF ReadProbe, Sound
<1>2. p \in 0..Len(history[q.agg]) /\ Len(history[q.agg]) \in Nat /\ q.agg \in Aggregates
  BY <1>1, AskedAggregate, ProbeFinds DEF Inv
<1>3. CASE Plan(c, q, snap[c])
  BY <1>3, SilentAnswers DEF Plan
<1>4. CASE p # 0 /\ Replay(c, q, snap[c], p)
  <2>1. Kept(history, history[q.agg][p])
    BY <1>2, <1>4, StoredKept
  <2>2. history' = history
    BY <1>4 DEF Replay, Store
  <2>3. End(c, history[q.agg][p]) \/ UNCHANGED reply
    BY <1>4 DEF Replay
  <2> HIDE DEF p, q
  <2> QED BY <2>1, <2>2, <2>3, EndAnswers, SilentAnswers
<1>5. CASE Raise(c)
  BY <1>5, RaiseAnswers
<1> QED BY <1>3, <1>4, <1>5 DEF ReadProbe, Inapplicable, OtherCommand, TornRead

LEMMA ValidateHeadAnswers ==
    ASSUME Inv, NEW c \in Clients, ValidateHead(c)
    PROVE  Answers(c)
<1> DEFINE a == call[c].agg
<1>1. a \in Aggregates /\ snap[c] \in Nat /\ Len(history[a]) \in Nat
  BY Mine, AskedAggregate DEF ValidateHead, Sound, Typed, Inv
<1>2. history' = history
  BY DEF ValidateHead, Store
<1>3. CASE snap[c] # 0 /\ Rev(a) = snap[c] /\ End(c, history[a][snap[c]])
  <2>1. snap[c] \in 1..Len(history[a])
    BY <1>1, <1>3 DEF Rev
  <2>2. Kept(history', history[a][snap[c]])
    BY <1>1, <1>2, <2>1, StoredKept
  <2> QED BY <1>3, <2>2, EndAnswers
<1> QED BY <1>3, RaiseAnswers, SilentAnswers DEF ValidateHead

LEMMA CommitAnswers ==
    ASSUME Inv, NEW c \in Clients, Commit(c)
    PROVE  Answers(c)
<1> DEFINE a == call[c].agg
<1>1. pc[c] = "commit" /\ CommitEffect(c, CommitResult(c))
  BY DEF Commit
<1>2. a \in Aggregates /\ history[a] \in Seq(Record) /\ plan[c] \in Record
  BY <1>1, Mine, AskedAggregate DEF Sound, Fits, Inv
<1>3. CASE CommitResult(c) = "COMMITTED" /\ Accepted(c)
  <2>1. history' = [history EXCEPT ![a] = Append(@, plan[c])]
    BY <1>1, <1>3 DEF CommitEffect
  <2>2. history'[a] = Append(history[a], plan[c])
    BY <1>2, <2>1 DEF Inv, TypeOK
  <2>3. /\ Len(history[a]) + 1 \in 1..Len(history'[a])
        /\ history'[a][Len(history[a]) + 1] = plan[c]
    BY <1>2, <2>2
  <2>4. Kept(history', plan[c])
    BY <1>2, <2>3, StoredKept
  <2> QED BY <1>3, <2>4, EndAnswers, SilentAnswers DEF Accepted, Settled
<1>4. CASE Duplicate(c) \/ Goto(c, "prevalidate") \/ Settled(c, 0, "snapshot")
  BY <1>4, SilentAnswers DEF Duplicate, Settled, Goto
<1>5. CASE \E result : Refused(c, result)
  BY <1>5, SilentAnswers, RaiseAnswers DEF Refused, Goto
<1> QED BY <1>3, <1>4, <1>5 DEF Commit

LEMMA ResolveAnswers ==
    ASSUME Inv, NEW c \in Clients, Resolve(c)
    PROVE  Answers(c)
<1> DEFINE a == call[c].agg
           p == Probe(history[a], OperationId(plan[c]))
<1>1. a \in Aggregates /\ history[a] \in Seq(Record)
  BY Mine, AskedAggregate DEF Resolve, Sound, Inv
<1>2. p \in 0..Len(history[a]) /\ Len(history[a]) \in Nat
  BY <1>1, ProbeFinds
<1>3. p # 0 => Kept(history, history[a][p])
  BY <1>1, <1>2, StoredKept
<1>4. history' = history
  BY DEF Resolve, Store
<1>5. Raise(c) \/ (p # 0 /\ End(c, history[a][p]))
  BY DEF Resolve
<1> HIDE DEF p, a
<1> QED BY <1>3, <1>4, <1>5, EndAnswers, RaiseAnswers

LEMMA StepAnswers ==
    ASSUME Inv, Next
    PROVE  \E c \in Clients : Answers(c)
<1>1. PICK c \in Clients : Begin(c) \/ Step(c) \/ CommitUnanswered(c) \/ Abandon(c)
  BY DEF Next
<1>2. CASE Begin(c)
  BY <1>2 DEF Begin, Answers, Kept
<1>3. CASE ReadSnapshot(c)
  BY <1>3, SilentAnswers DEF ReadSnapshot
<1>4. CASE CaptureRoot(c)
  BY <1>4, SilentAnswers, RaiseAnswers DEF CaptureRoot
<1>5. CASE Prevalidate(c)
  BY <1>5, SilentAnswers, RaiseAnswers DEF Prevalidate
<1>6. CASE CommitUnanswered(c)
  BY <1>6, SilentAnswers, RaiseAnswers DEF CommitUnanswered, Goto
<1>7. CASE Abandon(c)
  BY <1>7, RaiseAnswers DEF Abandon
<1> QED BY <1>1, <1>2, <1>3, <1>4, <1>5, <1>6, <1>7, ReadProbeAnswers,
       ValidateHeadAnswers, CommitAnswers, ResolveAnswers DEF Step

\* A binding answers only with a stored record, also after a lost race or a
\* lost answer.
THEOREM DurableAnswers == Spec => []AnswersAreDurable
<1>1. AnswersAreDurable <=> \A d \in Clients : Kept(history, reply[d])
  BY DEF AnswersAreDurable, Kept, Rev
<1>2. Init => AnswersAreDurable
  BY DEF Init, AnswersAreDurable
<1>3. Inv /\ AnswersAreDurable /\ [Next]_vars => AnswersAreDurable'
  <2>1. ASSUME Inv, AnswersAreDurable, Next PROVE AnswersAreDurable'
    <3>1. \A a \in Aggregates : Extended(history[a], history'[a])
      BY <2>1, StoreGrows
    <3>2. \A y : Kept(history, y) => Kept(history', y)
      BY <3>1 DEF Kept, Extended
    <3>c. PICK c \in Clients : Answers(c)
      BY <2>1, StepAnswers
    <3>3. PICK y :
             reply' = [reply EXCEPT ![c] = y] /\ (y = reply[c] \/ Kept(history', y))
      BY <3>c DEF Answers
    <3>4. ASSUME NEW d \in Clients PROVE Kept(history', reply'[d])
      <4>1. Kept(history, reply[d])
        BY <1>1, <2>1
      <4>2. reply'[d] = IF d = c THEN y ELSE reply[d]
        BY <2>1, <3>3 DEF Inv, TypeOK
      <4> QED BY <3>2, <3>3, <4>1, <4>2
    <3> QED BY <3>4 DEF AnswersAreDurable, Kept, Rev
  <2>2. ASSUME AnswersAreDurable, UNCHANGED vars PROVE AnswersAreDurable'
    BY <2>2 DEF AnswersAreDurable, vars, locals, Rev
  <2> QED BY <2>1, <2>2
<1> QED BY <1>2, <1>3, Invariance, PTL DEF Spec
=============================================================================
