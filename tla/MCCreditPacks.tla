---------------------------- MODULE MCCreditPacks ----------------------------
(***************************************************************************)
(* Instances of CreditPacks for TLC: one order with two refunds, each of a *)
(* part or of the whole, and two sessions.  Liveness forbids symmetry.     *)
(***************************************************************************)
EXTENDS CreditPacks

CONSTANTS s1, s2, f1, f2
=============================================================================
