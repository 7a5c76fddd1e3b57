---------------------------- MODULE MCInstances ----------------------------
(***************************************************************************)
(* TLC instances of Instances.                                             *)
(***************************************************************************)
EXTENDS Instances, TLC

CONSTANTS a1, a2, i1, i2, i3

\* Two accounts with an instance each.
OneEach == i1 :> a1 @@ i2 :> a2

\* All instances belong to one account.
AllOfOne == [i \in Insts |-> a1]

Symmetry == Permutations(Reqs) \cup Permutations(Insts)

\* Two accounts with an instance each are exchanged together, which keeps OwnerOf.
Swap == a1 :> a2 @@ a2 :> a1 @@ i1 :> i2 @@ i2 :> i1
SymmetryOfPairs == Permutations(Reqs) \cup {Swap}
=============================================================================
