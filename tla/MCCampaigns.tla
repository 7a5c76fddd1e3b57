---------------------------- MODULE MCCampaigns ----------------------------
(***************************************************************************)
(* TLC instances of Campaigns.                                             *)
(***************************************************************************)
EXTENDS Campaigns, TLC

Symmetry ==
    Permutations(Camps) \cup Permutations(Rcpts) \cup Permutations(Loops)
        \cup Permutations(Reqs)
=============================================================================
