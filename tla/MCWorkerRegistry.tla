--------------------------- MODULE MCWorkerRegistry ---------------------------
EXTENDS WorkerRegistry, TLC

Symmetry == Permutations(Consumers)
===============================================================================
