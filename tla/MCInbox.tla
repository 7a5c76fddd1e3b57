------------------------------ MODULE MCInbox ------------------------------
(***************************************************************************)
(* TLC instance of Inbox.                                                  *)
(***************************************************************************)
EXTENDS Inbox, TLC

Cleaning == cleaner # "idle" \/ cleans > 0 \/ ~due

\* Three handlers, two around a cleanup.
FewHandlers == Cleaning => started <= 2

Symmetry == Permutations(Tasks) \cup Permutations(In)
=============================================================================
