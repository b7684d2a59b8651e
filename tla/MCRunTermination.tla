-------------------------- MODULE MCRunTermination --------------------------
(* Instances of RunTermination for TLC.                                    *)
EXTENDS RunTermination

CONSTANTS a, b

NoChildren == [t \in Tasks |-> {}]
Chain      == [t \in Tasks |-> IF t = a THEN {b} ELSE {}]
=============================================================================
