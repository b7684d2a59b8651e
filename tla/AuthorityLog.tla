---------------------------- MODULE AuthorityLog ----------------------------
(***************************************************************************)
(* What the canonical authority promises: for each aggregate an append-    *)
(* only log of legal records, one per operation, in which a RUN ends       *)
(* exactly as its root task ended and no task ends under an ended RUN.     *)
(***************************************************************************)
EXTENDS CanonicalTransition

VARIABLE log        \* log[a]: the accepted records of aggregate a

Init == log = [a \in Aggregates |-> <<>>]

\* The record continues the log of its aggregate.
Continues(a, r) ==
    /\ r.op \in (IF a = Run THEN RunOps ELSE TaskOps)
    /\ r.from = Len(log[a])
    /\ r.prev = State(log[a])
    /\ Legal(r)
    /\ Follows(r, log[a])
    /\ Stored(log[a], OperationId(r)) = {}

\* The record agrees with the other aggregates.
Agrees(a, r) ==
    LET root == RootOf(log[Run]) IN
    /\ r.op = "TASK_ADMIT" =>
          IF root = NoTask THEN ~RequireRoot
          ELSE root = a /\ State(log[Run]) \notin Ended
    /\ r.op \in TerminalOps =>
          log[Run] # <<>> /\ State(log[Run]) \notin Ended
    /\ r.op = "RUN_TERMINATE" =>
          root \in Tasks /\ r.next = State(log[root])

Accept(a) ==
    LET r == log'[a][Len(log[a]) + 1] IN
    /\ Len(log'[a]) = Len(log[a]) + 1
    /\ log' = [log EXCEPT ![a] = Append(@, r)]
    /\ r \in Record
    /\ Continues(a, r)
    /\ Agrees(a, r)

Next == \E a \in Aggregates : Accept(a)
Spec == Init /\ [][Next]_log

----------------------------------------------------------------------------
TypeOK == log \in [Aggregates -> Seq(Record)]

(* An ended RUN has its root task ended, in the same state: the terminal   *)
(* outcome a reader of the RUN sees is the one its task has for good       *)
(* (canonical_authority_commit.lua, F02B and F03).                         *)
RunEndsAsRoot ==
    State(log[Run]) \in Ended =>
        /\ RootOf(log[Run]) \in Tasks
        /\ State(log[RootOf(log[Run])]) = State(log[Run])
=============================================================================
