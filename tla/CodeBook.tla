------------------------------ MODULE CodeBook ------------------------------
(***************************************************************************)
(* What the one-time codes of a phone number promise its owner, without    *)
(* rows, counters and stages of requests. A code comes into force once,    *)
(* when it is issued. Only a code in force can be guessed, and only one    *)
(* that reached the phone and has not lapsed is found right. A request     *)
(* acts only on a code it found right, whatever code is then in force goes *)
(* out of force, and a code that went out of force never comes back. Of    *)
(* all the registrations one makes an account, and a reset code is taken   *)
(* from its owner only by a newer one or by a reset.                       *)
(***************************************************************************)
EXTENDS Naturals

CONSTANTS Requests, Codes     \* Codes is an initial segment of 1, 2, ...

VARIABLES
    issued,     \* codes issued
    inForce,    \* the code in force for each purpose, or 0
    reached,    \* codes that reached the phone
    lapsed,     \* codes whose time is over
    found,      \* what each request found right and has not acted on
    tried,      \* wrong guesses at each code
    used,       \* times each code was acted on
    made        \* the number has its account

vars == <<issued, inForce, reached, lapsed, found, tried, used, made>>

Purposes == {"register", "reset"}
Nothing  == [purpose |-> "none", code |-> 0]

Init ==
    /\ issued = 0
    /\ inForce = [p \in Purposes |-> 0]
    /\ reached = {} /\ lapsed = {}
    /\ found = [r \in Requests |-> Nothing]
    /\ tried = [c \in Codes |-> 0]
    /\ used = [c \in Codes |-> 0]
    /\ made = FALSE

\* A new code replaces the one in force.
Issue(p) ==
    /\ issued + 1 \in Codes /\ (p = "reset" => made)
    /\ issued' = issued + 1
    /\ inForce' = [inForce EXCEPT ![p] = issued']
    /\ UNCHANGED <<reached, lapsed, found, tried, used, made>>

Reach(c) ==
    /\ c \in 1..issued
    /\ reached' = reached \cup {c}
    /\ UNCHANGED <<issued, inForce, lapsed, found, tried, used, made>>

Lapse(c) ==
    /\ \E p \in Purposes : inForce[p] = c
    /\ lapsed' = lapsed \cup {c}
    /\ UNCHANGED <<issued, inForce, reached, found, tried, used, made>>

Guess(c) ==
    /\ inForce["register"] = c /\ c \notin lapsed
    /\ tried' = [tried EXCEPT ![c] = @ + 1]
    /\ UNCHANGED <<issued, inForce, reached, lapsed, found, used, made>>

Find(r, p) ==
    /\ found[r] = Nothing /\ inForce[p] \in reached \ lapsed
    /\ found' = [found EXCEPT ![r] = [purpose |-> p, code |-> inForce[p]]]
    /\ UNCHANGED <<issued, inForce, reached, lapsed, tried, used, made>>

Act(r, p) ==
    /\ found[r].purpose = p /\ made = (p = "reset")
    /\ used' = [used EXCEPT ![found[r].code] = @ + 1]
    /\ inForce' = [inForce EXCEPT ![p] = 0]
    /\ found' = [found EXCEPT ![r] = Nothing]
    /\ made' = TRUE
    /\ UNCHANGED <<issued, reached, lapsed, tried>>

GiveUp(r) ==
    /\ found' = [found EXCEPT ![r] = Nothing]
    /\ UNCHANGED <<issued, inForce, reached, lapsed, tried, used, made>>

\* Only registration codes are withdrawn.
Withdraw ==
    /\ inForce' = [inForce EXCEPT !["register"] = 0]
    /\ UNCHANGED <<issued, reached, lapsed, found, tried, used, made>>

Next ==
    \/ \E p \in Purposes : Issue(p)
    \/ \E c \in Codes : Reach(c) \/ Lapse(c) \/ Guess(c)
    \/ \E r \in Requests : GiveUp(r) \/ \E p \in Purposes : Find(r, p) \/ Act(r, p)
    \/ Withdraw

Spec == Init /\ [][Next]_vars
=============================================================================
