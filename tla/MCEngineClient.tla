--------------------------- MODULE MCEngineClient ---------------------------
(***************************************************************************)
(* TLC instances of EngineClient.                                          *)
(***************************************************************************)
EXTENDS EngineClient, TLC

Symmetry ==
    Permutations(Runs) \cup Permutations(Chans) \cup Permutations(Reqs)
        \cup Permutations(Pres)

\* What follows an accident is explored with one request at a time, and what
\* follows a second kind of accident is not.
Busy == {q \in Reqs : req[q].pc # "idle"}
Accidents == {n \in 1..4 : <<crossed, unkeyed, misled, revived>>[n]}
OneAccident ==
    /\ Cardinality(Accidents) <= 1
    /\ Accidents # {} => Cardinality(Busy) <= 1
=============================================================================
