-------------------------- MODULE MCTaskLifecycle --------------------------
(* Instances of TaskLifecycle for TLC.                                     *)
EXTENDS TaskLifecycle, TLC

CONSTANTS a, b, c, w1, w2

(* Task graphs.                                                            *)
NoChildren == [t \in Tasks |-> {}]
Join       == [t \in Tasks |-> IF t = c THEN {} ELSE {c}]

(* Explored: the whole graph under one term and one sweep, and task a      *)
(* alone under every term with one sweep or every sweep with one term.     *)
OneTerm ==
    /\ \A s \in Schedulers \ {1} : sched[s] = Idle
    /\ \A t \in Tasks : schedEpoch[t] \in {1, NoOne}
    /\ \A w \in Workers : wres[w] # NoOne => wres[w].epoch = 1 /\ Paired(w, wres[w].task)
    /\ \A t \in Tasks : ores[t] # NoOne => \E w \in Workers : Paired(w, t)
    /\ \A m \in messages \cup execs : m.epoch = 1
OneSweep == \A r \in Recoverers \ {1} : sweep[r] = NoOne
Alone    == \A t \in Tasks \ {a} : state[t] = "none"
Bound    == (OneTerm /\ OneSweep) \/ (Alone /\ (OneTerm \/ OneSweep))

WorkerSymmetry == Permutations(Workers)
=============================================================================
