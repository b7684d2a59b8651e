-------------------------- MODULE MCRunAdmission --------------------------
EXTENDS RunAdmission
Symmetry == Permutations(Callers) \cup Permutations(Payloads) \cup Permutations(Runs)
            \cup Permutations(Workers)
===========================================================================
