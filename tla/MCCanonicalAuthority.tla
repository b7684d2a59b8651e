------------------------ MODULE MCCanonicalAuthority ------------------------
(* Instances of CanonicalAuthority for TLC.                                *)
EXTENDS CanonicalAuthority

CONSTANTS c1, c2, t1, t2

(* Two callers that race for every operation.                              *)
EveryOp == [c \in Clients |-> Operations]
=============================================================================
