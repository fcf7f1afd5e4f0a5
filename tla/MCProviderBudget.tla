-------------------------- MODULE MCProviderBudget --------------------------
(***************************************************************************)
(* Instances of ProviderBudget for TLC: two runs, providers of which one   *)
(* has an account without a limit, and candidate chains that fall back     *)
(* within a provider, to another provider, or to another instance of the   *)
(* same model.                                                             *)
(***************************************************************************)
EXTENDS ProviderBudget, TLC

CONSTANTS r1, r2, openai, minimax, unpaid, mini, full, abab, free

MCProvider == [m \in Models |-> CASE m = abab -> minimax
                                  [] m = free -> unpaid
                                  [] OTHER -> openai]

OneProvider == [r \in Runs |-> <<full, mini>>]
OneOrder == (r1 :> <<full, full, abab>>) @@ (r2 :> <<mini, abab, free>>)
SameModel == [r \in Runs |-> <<mini, mini>>]

OneMonth == [d \in 0..LastDay |-> 0]

Three == [p \in Providers |-> IF p = unpaid THEN 0 ELSE 3]
Four == [p \in Providers |-> 4]
=============================================================================
