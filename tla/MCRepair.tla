------------------------------- MODULE MCRepair -----------------------------
EXTENDS Repair
=============================================================================
