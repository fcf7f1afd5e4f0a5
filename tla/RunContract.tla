----------------------------- MODULE RunContract ----------------------------
(***************************************************************************)
(* What the run API promises the holder of one idempotency key, whatever   *)
(* processes serve it: the key is accepted at most once, its work is       *)
(* started at most once and only while the run is open, the run is closed  *)
(* for good, and it is reported as succeeded only if its work was started. *)
(* Promises about different runs are independent: each run takes a step of *)
(* its own or none.                                                        *)
(*                                                                         *)
(* The outcome of a closed run is not promised to be final: a provider     *)
(* that answers after the auto-fail turns a failed run into a succeeded    *)
(* one, and a racing cancel a finished run into a canceled one.            *)
(***************************************************************************)
EXTENDS Naturals

CONSTANT Runs

VARIABLES
  shown,   \* what polling the run tells: absent, open, or an outcome
  starts   \* how often its work was handed to a provider

Outcomes == {"succeeded", "failed", "canceled"}

Absent(r) == shown[r] = "absent" /\ starts[r] = 0

\* Accepted for later, or accepted and started by the same request.
Accept(r) ==
  /\ shown[r] = "absent" /\ shown'[r] = "open"
  /\ starts'[r] \in {0, 1}

\* Accepted and failed at once: nothing was started.
Refuse(r) ==
  /\ shown[r] = "absent" /\ shown'[r] = "failed"
  /\ starts'[r] = starts[r]

Start(r) ==
  /\ shown[r] = "open" /\ shown'[r] = "open"
  /\ starts[r] = 0 /\ starts'[r] = 1

Close(r) ==
  /\ shown[r] # "absent" /\ shown'[r] \in Outcomes
  /\ shown'[r] = "succeeded" => starts[r] = 1
  /\ starts'[r] = starts[r]

Step(r) == Accept(r) \/ Refuse(r) \/ Start(r) \/ Close(r)

vars == <<shown, starts>>

Init == \A r \in Runs : Absent(r)

Next == \A r \in Runs : Step(r) \/ UNCHANGED <<shown[r], starts[r]>>

Spec == Init /\ [][Next]_vars
=============================================================================
