---------------------------- MODULE MCWorkerFleet ----------------------------
(* Instances of WorkerFleet for TLC.                                       *)
EXTENDS WorkerFleet

CONSTANTS w1, w2, g1, g2

\* One group, or two that compete; other names of the groups change nothing.
OneOrTwoGroups == {[w \in {w1, w2} |-> g1], [w \in {w1, w2} |-> IF w = w1 THEN g1 ELSE g2]}
=============================================================================
