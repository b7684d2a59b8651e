------------------------ MODULE AuthorityLog_proofs ------------------------
(***************************************************************************)
(* The promise of the canonical authority, for every set of tasks: a RUN   *)
(* that has ended has a root task, which ended in the same state and stays *)
(* there.                                                                  *)
(***************************************************************************)
EXTENDS AuthorityLog, TLAPS

\* Records of one aggregate keep its revisions: the state and the root after
\* an append.
LEMMA AppendFacts ==
    ASSUME NEW h \in Seq(Record), NEW r \in Record
    PROVE  /\ Append(h, r) \in Seq(Record)
           /\ State(Append(h, r)) = r.next
           /\ h # <<>> => RootOf(Append(h, r)) = RootOf(h)
           /\ Append(h, r) # <<>>
  BY DEF State, StateAt, RootOf

\* No contract lets a task out of an ended state.
LEMMA EndedIsFinal ==
    ASSUME NEW r \in Record, r.op \in TaskOps, Legal(r)
    PROVE  r.prev \notin Ended
  BY DEF Legal, Before, TaskOps, TerminalOps, CreateOps, Operations, RunOps,
         Ended, None

\* Only RUN_TERMINATE ends a RUN, and only one that exists.
LEMMA RunEnds ==
    ASSUME NEW r \in Record, r.op \in RunOps, Legal(r), r.next \in Ended
    PROVE  r.op = "RUN_TERMINATE" /\ r.prev # None
  BY DEF Legal, Before, After, TerminalOps, CreateOps, Operations, RunOps,
         TaskOps, Ended, None

LEMMA AcceptedRecord ==
    ASSUME TypeOK, NEW a \in Aggregates, Accept(a)
    PROVE  \E r \in Record :
              /\ log' = [log EXCEPT ![a] = Append(log[a], r)]
              /\ Continues(a, r) /\ Agrees(a, r)
  BY DEF Accept

\* The log is a sequence of records per aggregate.
THEOREM LogTypeOK == Spec => []TypeOK
<1>1. Init => TypeOK
  BY DEF Init, TypeOK
<1>2. TypeOK /\ [Next]_log => TypeOK'
  <2> SUFFICES ASSUME TypeOK, NEW a \in Aggregates, Accept(a) PROVE TypeOK'
    BY DEF Next, TypeOK
  <2>1. PICK r \in Record : log' = [log EXCEPT ![a] = Append(log[a], r)]
    BY AcceptedRecord
  <2> QED BY <2>1, AppendFacts DEF TypeOK
<1> QED BY <1>1, <1>2, PTL DEF Spec

\* An ended RUN has its root task ended in the same state, for good: the
\* promise of the F02B and F03 guards of canonical_authority_commit.lua.
THEOREM LogEndsAsRoot == Spec => []RunEndsAsRoot
<1>1. Init => RunEndsAsRoot
  BY DEF Init, RunEndsAsRoot, State, StateAt, Ended, None, Aggregates
<1>2. TypeOK /\ RunEndsAsRoot /\ [Next]_log => RunEndsAsRoot'
  <2> SUFFICES ASSUME TypeOK, RunEndsAsRoot, NEW a \in Aggregates, Accept(a)
               PROVE  RunEndsAsRoot'
    BY DEF Next, RunEndsAsRoot, State, StateAt, RootOf
  <2>1. PICK r \in Record : /\ log' = [log EXCEPT ![a] = Append(log[a], r)]
                            /\ Continues(a, r) /\ Agrees(a, r)
    BY AcceptedRecord
  <2>2. /\ Run \in Aggregates /\ Tasks \subseteq Aggregates /\ Run \notin Tasks
        /\ \A b \in Aggregates : log[b] \in Seq(Record)
    BY AggregateAssumption DEF Aggregates, TypeOK
  <2>3. Legal(r) /\ r.prev = State(log[a])
    BY <2>1 DEF Continues
  <2>4. \A b \in Aggregates : log'[b] = IF b = a THEN Append(log[a], r) ELSE log[b]
    BY <2>1, <2>2 DEF TypeOK
  <2>5. State(log'[a]) = r.next
    BY <2>2, <2>4, AppendFacts
  <2>6. CASE a = Run
    <3> SUFFICES ASSUME r.next \in Ended
                 PROVE  /\ RootOf(log'[Run]) \in Tasks
                        /\ State(log'[RootOf(log'[Run])]) = r.next
      BY <2>5, <2>6 DEF RunEndsAsRoot
    <3>1. r.op = "RUN_TERMINATE" /\ r.prev # None
      BY <2>1, <2>3, <2>6, RunEnds DEF Continues
    <3>2. log[Run] # <<>>
      BY <2>3, <2>6, <3>1 DEF State, StateAt
    <3>3. RootOf(log'[Run]) = RootOf(log[Run])
      BY <2>2, <2>4, <2>6, <3>2, AppendFacts
    <3>4. RootOf(log[Run]) \in Tasks /\ r.next = State(log[RootOf(log[Run])])
      BY <2>1, <3>1 DEF Agrees
    <3> QED BY <2>2, <2>4, <2>6, <3>3, <3>4
  <2>7. CASE a # Run
    <3>1. log'[Run] = log[Run]
      BY <2>2, <2>4, <2>7
    <3>2. r.prev \notin Ended
      BY <2>1, <2>3, <2>7, EndedIsFinal DEF Continues
    <3> SUFFICES ASSUME State(log[Run]) \in Ended
                 PROVE  /\ RootOf(log[Run]) \in Tasks
                        /\ State(log'[RootOf(log[Run])]) = State(log[Run])
      BY <3>1 DEF RunEndsAsRoot
    <3>3. RootOf(log[Run]) \in Tasks /\ State(log[RootOf(log[Run])]) = State(log[Run])
      BY DEF RunEndsAsRoot
    <3>4. RootOf(log[Run]) # a
      BY <2>3, <3>2, <3>3
    <3> QED BY <2>2, <2>4, <3>3, <3>4
  <2> QED BY <2>6, <2>7
<1> QED BY <1>1, <1>2, LogTypeOK, PTL DEF Spec
=============================================================================
