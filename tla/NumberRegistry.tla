--------------------------- MODULE NumberRegistry ---------------------------
(***************************************************************************)
(* What the table of instances promises about phone numbers, in one step   *)
(* per change: an instance is listed once and removed once; a number is    *)
(* connected by one instance at a time, for an account that is the only    *)
(* one to have it unless the number is marked as crossed in that step; an  *)
(* instance that was refused a number has none until the refusal is        *)
(* lifted; and numbers are taken from the instances of one account at a    *)
(* time.                                                                   *)
(***************************************************************************)
CONSTANTS Accounts, Insts, OwnerOf, Phones, Nil

VARIABLES
    place,    \* where an instance is: "new", "listed", "refused" or "removed"
    number,   \* the number it is connected with, or Nil
    crossed   \* numbers that may be connected for several accounts

vars == <<place, number, crossed>>

InTable(i) == place[i] \in {"listed", "refused"}

\* The number is connected for another account.
Elsewhere(i, p) == \E j \in Insts : OwnerOf[j] # OwnerOf[i] /\ number[j] = p

Init ==
    /\ place = [i \in Insts |-> "new"]
    /\ number = [i \in Insts |-> Nil]
    /\ crossed = {}

Enter(i) ==
    /\ place[i] = "new"
    /\ place' = [place EXCEPT ![i] = "listed"]
    /\ UNCHANGED <<number, crossed>>

\* A connection also lifts a refusal.
Connect(i, p) ==
    /\ InTable(i)
    /\ crossed' \in {crossed, crossed \cup {p}}
    /\ Elsewhere(i, p) => p \in crossed'
    /\ place' = [place EXCEPT ![i] = "listed"]
    /\ number' = [number EXCEPT ![i] = p]

\* Instances of one account lose their numbers.
Release(I) ==
    /\ UNCHANGED <<place, crossed>>
    /\ \E u \in Accounts : \A i \in I : OwnerOf[i] = u
    /\ number' = [i \in Insts |-> IF i \in I THEN Nil ELSE number[i]]

Refuse(i) ==
    /\ InTable(i)
    /\ place' = [place EXCEPT ![i] = "refused"]
    /\ number' = [number EXCEPT ![i] = Nil]
    /\ UNCHANGED crossed

Lift(i) ==
    /\ place[i] = "refused"
    /\ place' = [place EXCEPT ![i] = "listed"]
    /\ UNCHANGED <<number, crossed>>

Remove(i) ==
    /\ InTable(i)
    /\ place' = [place EXCEPT ![i] = "removed"]
    /\ number' = [number EXCEPT ![i] = Nil]
    /\ UNCHANGED crossed

Next ==
    \/ \E I \in SUBSET Insts : Release(I)
    \/ \E i \in Insts : Enter(i) \/ Refuse(i) \/ Lift(i) \/ Remove(i)
    \/ \E i \in Insts, p \in Phones : Connect(i, p)

Spec == Init /\ [][Next]_vars
=============================================================================
