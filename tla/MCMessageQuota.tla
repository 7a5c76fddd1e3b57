--------------------------- MODULE MCMessageQuota ---------------------------
(***************************************************************************)
(* TLC instance of MessageQuota: the senders are interchangeable.          *)
(***************************************************************************)
EXTENDS MessageQuota, TLC

Symmetry == Permutations(Senders)
=============================================================================
