------------------------------ MODULE ChatView ------------------------------
(***************************************************************************)
(* What the inbox promises the user who looks at a conversation, without   *)
(* the handlers and the two numbers of the other party: a message appears  *)
(* with the status last reported of it, that status never goes back, and a *)
(* received message is shown as read only if its sender was told, or one   *)
(* of the accidents of `untold` happened. Nothing is promised of a message *)
(* whose own events came astray, and old messages are forgotten.           *)
(***************************************************************************)
EXTENDS Naturals

CONSTANTS In, Out      \* messages received, and sent

VARIABLES
    shown,     \* the status the user sees of a message; "none": no message
    latest,    \* rank of the latest status WhatsApp reported of it
    told,      \* received messages whose sender was told they were read
    untold,    \* messages that may be shown as read without that
    astray     \* messages whose events came twice, late, or were lost

vars == <<shown, latest, told, untold, astray>>

All == In \cup Out
StatusOf == <<"SENT", "DELIVERED", "READ">>

Init ==
    /\ shown = [m \in All |-> "none"]
    /\ latest = [m \in All |-> 0]
    /\ told = {} /\ untold = {} /\ astray = {}

\* WhatsApp reports the status of rank k; only news keeps its order.
Report(m, k) ==
    /\ latest' = [latest EXCEPT ![m] = IF k > @ THEN k ELSE @]
    /\ astray' \in {astray, astray \cup {m}}
    /\ k <= latest[m] => m \in astray'
    /\ UNCHANGED <<shown, told, untold>>

GoAstray(m) ==
    /\ astray' = astray \cup {m}
    /\ UNCHANGED <<shown, latest, told, untold>>

\* The message appears, and with it perhaps the knowledge of some accidents.
Show(m, status) ==
    /\ m \in astray \/ (shown[m] = "none" /\ latest[m] > 0 /\ status = StatusOf[latest[m]])
    /\ \E some \in SUBSET All : untold' = untold \cup some
    /\ m \in In /\ status = "READ" => m \in told \cup untold'
    /\ shown' = [shown EXCEPT ![m] = status]
    /\ UNCHANGED <<latest, told, astray>>

\* A receipt: the status rises to the latest one.
Rise(m) ==
    /\ m \in Out /\ \E k \in 1..(latest[m] - 1) : shown[m] = StatusOf[k]
    /\ shown' = [shown EXCEPT ![m] = StatusOf[latest[m]]]
    /\ UNCHANGED <<latest, told, untold, astray>>

Tell(some) ==
    /\ told' = told \cup some
    /\ UNCHANGED <<shown, latest, untold, astray>>

LeaveUntold(some) ==
    /\ untold' = untold \cup some
    /\ UNCHANGED <<shown, latest, told, astray>>

\* The user reads messages that are shown and accounted for.
Read(some) ==
    /\ some \subseteq told \cup untold
    /\ \A m \in some : shown[m] # "none"
    /\ shown' = [m \in All |-> IF m \in some THEN "READ" ELSE shown[m]]
    /\ UNCHANGED <<latest, told, untold, astray>>

Forget ==
    /\ shown' = [m \in All |-> "none"]
    /\ UNCHANGED <<latest, told, untold, astray>>

Next ==
    \/ \E m \in All : \/ GoAstray(m) \/ Rise(m)
                      \/ \E k \in 0..3 : Report(m, k)
                      \/ \E status \in {"SENT", "DELIVERED", "READ"} : Show(m, status)
    \/ \E some \in SUBSET In : Tell(some) \/ Read(some)
    \/ \E some \in SUBSET All : LeaveUntold(some)
    \/ Forget

Spec == Init /\ [][Next]_vars
=============================================================================
