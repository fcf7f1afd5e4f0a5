-------------------------- MODULE CallbackContract --------------------------
(***************************************************************************)
(* What the writers of a run and the callback workers rely on in each      *)
(* other.  RunLifecycle closes runs and takes delivery as one action;      *)
(* CallbackDelivery delivers and takes the closing of a run as one action; *)
(* both implement this module, so that each may assume of the other what   *)
(* it does.                                                                *)
(*                                                                         *)
(* The first close asks for the callback of every run that has a target,   *)
(* and of no other.  Before it nobody touches the callback; after it the   *)
(* request is never forgotten.  That a callback is delivered is not final: *)
(* a late outcome, a late mark or a redelivery makes it pending again, and *)
(* a late outcome does not always do so.                                   *)
(***************************************************************************)
CONSTANTS
  Runs,
  Targeted  \* runs with a registered callback target

VARIABLES
  closed,  \* the run has an outcome
  told     \* what its callback_status tells

Requested(r) == IF r \in Targeted THEN "pending" ELSE "not_requested"

Open(r) == ~closed[r] /\ told[r] = "not_requested"

Close(r) ==
  /\ ~closed[r] /\ closed'[r]
  /\ told'[r] = Requested(r)

Deliver(r) ==
  /\ closed[r] /\ closed'[r]
  /\ r \in Targeted
  /\ told'[r] \in {"pending", "delivered"}

vars == <<closed, told>>

Init == \A r \in Runs : Open(r)

Next ==
  \A r \in Runs : Close(r) \/ Deliver(r) \/ UNCHANGED <<closed[r], told[r]>>

Spec == Init /\ [][Next]_vars
=============================================================================
