----------------------- MODULE MCOrphanReconciliation -----------------------
EXTENDS OrphanReconciliation, TLC
=============================================================================
