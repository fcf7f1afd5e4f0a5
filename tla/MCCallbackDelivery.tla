------------------------- MODULE MCCallbackDelivery -------------------------
(* Instances of CallbackDelivery for TLC.  Callback workers are            *)
(* interchangeable, and so are the runs that have no callback target.      *)
EXTENDS CallbackDelivery, TLC

Symmetry == Permutations(Workers) \cup Permutations(Silent)
=============================================================================
