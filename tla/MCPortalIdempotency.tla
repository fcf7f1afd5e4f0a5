------------------------ MODULE MCPortalIdempotency ------------------------
EXTENDS PortalIdempotency, TLC
Symmetry == Permutations(Requests)
=============================================================================
