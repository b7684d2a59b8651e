--------------------------- MODULE MCReconciliation ---------------------------
EXTENDS Reconciliation
===============================================================================
