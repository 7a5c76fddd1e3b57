----------------------------- MODULE MCBilling -----------------------------
(***************************************************************************)
(* TLC instances of Billing.                                               *)
(***************************************************************************)
EXTENDS Billing, TLC

Symmetry ==
    Permutations(Pays) \cup Permutations(Subs) \cup Permutations(Gates)
        \cup Permutations(Checks) \cup Permutations(Insts)
=============================================================================
