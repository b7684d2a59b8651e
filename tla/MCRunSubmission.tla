-------------------------- MODULE MCRunSubmission --------------------------
EXTENDS RunSubmission
===========================================================================
