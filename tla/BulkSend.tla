------------------------------ MODULE BulkSend ------------------------------
(***************************************************************************)
(* What the campaigns of an account promise their owner, without the loops *)
(* and requests that carry them out: the recipients reported as attempted  *)
(* only grow, a recipient is reported SENT only if the engine sent it the  *)
(* message, and a campaign is reported COMPLETED only when every recipient *)
(* was attempted.                                                          *)
(***************************************************************************)
CONSTANTS Camps, Rcpts

VARIABLES
    life,        \* "none", "open" (pending, running or paused), "done", "gone"
    attempted,   \* recipients reported as SENT or FAILED
    sent,        \* recipients reported as SENT
    reached      \* recipients the engine sent the message to

vars == <<life, attempted, sent, reached>>

Shown(c) == life[c] \in {"open", "done"}

Init ==
    /\ life = [c \in Camps |-> "none"]
    /\ attempted = [c \in Camps |-> {}]
    /\ sent = [c \in Camps |-> {}]
    /\ reached = [c \in Camps |-> {}]

Create(c) ==
    /\ life[c] = "none"
    /\ life' = [life EXCEPT ![c] = "open"]
    /\ UNCHANGED <<attempted, sent, reached>>

\* A message may still go out after the campaign was paused or deleted.
Reach(c, x) ==
    /\ life[c] # "none"
    /\ reached' = [reached EXCEPT ![c] = @ \cup {x}]
    /\ UNCHANGED <<life, attempted, sent>>

ReportSent(c, x) ==
    /\ Shown(c) /\ x \in reached[c]
    /\ attempted' = [attempted EXCEPT ![c] = @ \cup {x}]
    /\ sent' = [sent EXCEPT ![c] = @ \cup {x}]
    /\ UNCHANGED <<life, reached>>

ReportFailed(c, x) ==
    /\ Shown(c)
    /\ attempted' = [attempted EXCEPT ![c] = @ \cup {x}]
    /\ sent' = [sent EXCEPT ![c] = @ \ {x}]
    /\ UNCHANGED <<life, reached>>

Finish(c) ==
    /\ Shown(c) /\ attempted[c] = Rcpts
    /\ life' = [life EXCEPT ![c] = "done"]
    /\ UNCHANGED <<attempted, sent, reached>>

Reopen(c) ==
    /\ life[c] = "done"
    /\ life' = [life EXCEPT ![c] = "open"]
    /\ UNCHANGED <<attempted, sent, reached>>

Drop(c) ==
    /\ Shown(c)
    /\ life' = [life EXCEPT ![c] = "gone"]
    /\ UNCHANGED <<attempted, sent, reached>>

Next ==
    \E c \in Camps :
        \/ Create(c) \/ Finish(c) \/ Reopen(c) \/ Drop(c)
        \/ \E x \in Rcpts : Reach(c, x) \/ ReportSent(c, x) \/ ReportFailed(c, x)

Spec == Init /\ [][Next]_vars
=============================================================================
