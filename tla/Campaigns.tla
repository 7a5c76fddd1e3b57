----------------------------- MODULE Campaigns -----------------------------
(***************************************************************************)
(* The bulk-sending campaigns of one account of the portal: the requests   *)
(* that create, pause, resume and delete them                              *)
(* (app/api/campaigns/route.ts, app/api/campaigns/[id]/action/route.ts,    *)
(* app/api/integration/google-sheets/{sync,apps-script}/route.ts) and the  *)
(* background loops that send them.                                        *)
(*                                                                         *)
(* A loop is a promise of the Node process nobody awaits: it holds the      *)
(* PENDING recipients it read when it started, and only the campaign's      *)
(* status column connects it with the requests and with other loops of the *)
(* same campaign.  One action per `await`: at each of them any other        *)
(* request or loop may run, the campaign may be deleted, or the process die.*)
(*                                                                         *)
(* Campaigns of different accounts share nothing, so one account is enough. *)
(* The monthly quota is module MessageQuota; here its answer is one of the *)
(* two it can give.  The recipients are read without ORDER BY, so a loop    *)
(* takes them in any order.                                                *)
(***************************************************************************)
EXTENDS Integers, FiniteSets

CONSTANTS
    Camps,        \* campaigns the account may ever create
    Rcpts,        \* recipient rows of each campaign
    Loops,        \* background loops that may be alive together
    Reqs,         \* requests that may be in progress together
    MaxCrashes,   \* bound: restarts of the Node process
    Nil

ASSUME CampaignsAssumption ==
    /\ Nil \notin Camps \cup Rcpts
    /\ MaxCrashes \in Nat

VARIABLES
    status,      \* Campaign.status; "none" before creation, "deleted" after
    row,         \* CampaignRecipient.status, by campaign and recipient
    loop,        \* the background loops
    req,         \* the requests in progress
    (* observers: they never guard a step of the program *)
    delivered,   \* how often the engine sent a recipient its message: 0, 1 or 2,
                 \* which stands for more than once
    exposed,     \* campaigns with two loops at once, a retried send that had gone
                 \* out, or a loop that died between a send and its record
    orphaned,    \* active campaigns whose loop died or was never started
    crashes

vars == <<status, row, loop, req, delivered, exposed, orphaned, crashes>>

Active == {"PENDING", "RUNNING"}
Statuses == Active \cup {"PAUSED", "COMPLETED"}

\* got: the engine delivered this attempt.  late: the recipients this loop
\* messaged while the campaign was not RUNNING, since it last saw it RUNNING.
IdleLoop == [pc |-> "idle", camp |-> Nil, resumed |-> FALSE, todo |-> {},
             cur |-> Nil, got |-> FALSE, late |-> {}]
IdleReq == [pc |-> "idle", camp |-> Nil, resumed |-> FALSE]

LoopPcs == {"load", "mark", "check", "reserve", "send", "resend", "recordSent",
            "log", "recordFailed", "recordQuota", "pauseQuota"}

LoopStates ==
    [pc : LoopPcs \cup {"idle"}, camp : Camps \cup {Nil}, resumed : BOOLEAN,
     todo : SUBSET Rcpts, cur : Rcpts \cup {Nil}, got : BOOLEAN, late : SUBSET Rcpts]
ReqStates ==
    [pc : {"idle", "insert", "config", "start", "pause", "count", "resume"},
     camp : Camps \cup {Nil}, resumed : BOOLEAN]

TypeOK ==
    /\ status \in [Camps -> Statuses \cup {"none", "deleted"}]
    /\ row \in [Camps -> [Rcpts -> {"PENDING", "SENT", "FAILED"}]]
    /\ loop \in [Loops -> LoopStates]
    /\ req \in [Reqs -> ReqStates]
    /\ delivered \in [Camps -> [Rcpts -> 0..2]]
    /\ exposed \subseteq Camps
    /\ orphaned \subseteq Camps
    /\ crashes \in 0..MaxCrashes

Init ==
    /\ status = [c \in Camps |-> "none"]
    /\ row = [c \in Camps |-> [x \in Rcpts |-> "PENDING"]]
    /\ loop = [l \in Loops |-> IdleLoop]
    /\ req = [q \in Reqs |-> IdleReq]
    /\ delivered = [c \in Camps |-> [x \in Rcpts |-> 0]]
    /\ exposed = {}
    /\ orphaned = {}
    /\ crashes = 0

-----------------------------------------------------------------------------
(* Helpers *)

Exists(c) == status[c] \in Statuses
ActiveCamps == {c \in Camps : status[c] \in Active}
Pending(c) == {x \in Rcpts : row[c][x] = "PENDING"}
LiveOn(c) == {l \in Loops : loop[l].camp = c}
Starting(c) == \E q \in Reqs : req[q].camp = c /\ req[q].pc \in {"config", "start"}
\* Its current recipient got the message, and no row says so.
Unrecorded(l) ==
    LET c == loop[l].camp
        x == loop[l].cur
    IN  x # Nil /\ delivered[c][x] > 0 /\ row[c][x] = "PENDING"

SetStatus(c, s) == status' = [status EXCEPT ![c] = s]
StopLoop(l) == loop' = [loop EXCEPT ![l] = IdleLoop]
Goto(l, pc) == loop' = [loop EXCEPT ![l].pc = pc]
\* The end of an iteration, and the random delay after it.
NextRecipient(l) == loop' = [loop EXCEPT ![l].pc = "check", ![l].cur = Nil, ![l].got = FALSE]
EndReq(q) == req' = [req EXCEPT ![q] = IdleReq]

observers == <<delivered, exposed, orphaned, crashes>>

-----------------------------------------------------------------------------
(* runCampaignBackground, in its four copies.  The three that follow a     *)
(* creation set the campaign RUNNING; the one of RESUME (loop.resumed)     *)
(* relies on the request having done so.                                   *)

MayRun(l) ==
    LET c == loop[l].camp IN
    IF loop[l].resumed THEN status[c] = "RUNNING"
                       ELSE Exists(c) /\ status[c] # "PAUSED"

\* Slip: the list is read without `where: { status: 'PENDING' }`.
LoadAll(l) ==
    /\ loop[l].pc = "load" /\ MayRun(l)
    /\ loop' = [loop EXCEPT ![l].pc = IF loop[l].resumed THEN "check" ELSE "mark",
                            ![l].todo = Rcpts]
    /\ UNCHANGED <<status, row, req, observers>>

\* Slip: the loop of a new campaign does not set it RUNNING.
LoadUnmarked(l) ==
    /\ loop[l].pc = "load" /\ MayRun(l)
    /\ loop' = [loop EXCEPT ![l].pc = "check", ![l].todo = Pending(loop[l].camp)]
    /\ UNCHANGED <<status, row, req, observers>>

\* findUnique with the PENDING recipients: the list the loop will work off.
Load(l) ==
    /\ loop[l].pc = "load" /\ MayRun(l)
    /\ loop' = [loop EXCEPT ![l].pc = IF loop[l].resumed THEN "check" ELSE "mark",
                            ![l].todo = Pending(loop[l].camp)]
    /\ UNCHANGED <<status, row, req, observers>>

LoadRefused(l) ==
    /\ loop[l].pc = "load" /\ ~MayRun(l)
    /\ StopLoop(l)
    /\ UNCHANGED <<status, row, req, observers>>

\* update RUNNING, without a look at what the status is by now.
MarkRunning(l) ==
    /\ loop[l].pc = "mark" /\ Exists(loop[l].camp)
    /\ SetStatus(loop[l].camp, "RUNNING")
    /\ Goto(l, "check")
    /\ UNCHANGED <<row, req, observers>>

\* Slip: the status is not read again for every recipient.
CheckUnread(l) ==
    LET c == loop[l].camp IN
    /\ loop[l].pc = "check"
    /\ \E x \in loop[l].todo :
        loop' = [loop EXCEPT ![l].pc = "reserve", ![l].cur = x, ![l].todo = @ \ {x},
                             ![l].late = IF status[c] = "RUNNING" THEN {} ELSE @]
    /\ UNCHANGED <<status, row, req, observers>>

\* The head of the for loop: the status is read again for every recipient.
Check(l) ==
    LET c == loop[l].camp IN
    /\ loop[l].pc = "check" /\ status[c] = "RUNNING"
    /\ \E x \in loop[l].todo :
        loop' = [loop EXCEPT ![l].pc = "reserve", ![l].cur = x, ![l].todo = @ \ {x},
                             ![l].late = IF status[c] = "RUNNING" THEN {} ELSE @]
    /\ UNCHANGED <<status, row, req, observers>>

\* Slip: `break` for `return`, so that the loop ends with the update COMPLETED.
CheckBreaks(l) ==
    /\ loop[l].pc = "check" /\ loop[l].todo # {}
    /\ status[loop[l].camp] # "RUNNING"
    /\ loop' = [loop EXCEPT ![l].todo = {}]
    /\ UNCHANGED <<status, row, req, observers>>

CheckStops(l) ==
    /\ loop[l].pc = "check" /\ loop[l].todo # {}
    /\ status[loop[l].camp] # "RUNNING"
    /\ StopLoop(l)
    /\ UNCHANGED <<status, row, req, observers>>

\* The list is used up: update COMPLETED, again without a look at the status.
Complete(l) ==
    /\ loop[l].pc = "check" /\ loop[l].todo = {} /\ Exists(loop[l].camp)
    /\ SetStatus(loop[l].camp, "COMPLETED")
    /\ StopLoop(l)
    /\ UNCHANGED <<row, req, observers>>

\* setPresence and the 1.5 s pause lie before this step.
Reserve(l) ==
    /\ loop[l].pc = "reserve"
    /\ \/ Goto(l, "send")
       \/ Goto(l, "recordQuota")      \* MessageQuotaExceededError
       \/ Goto(l, "recordFailed")     \* the reservation failed otherwise
    /\ UNCHANGED <<status, row, req, observers>>

\* The engine sends the message; its answer is still to come.
EngineDelivers(l) ==
    LET c == loop[l].camp
        x == loop[l].cur
    IN
    /\ loop[l].pc \in {"send", "resend"} /\ ~loop[l].got
    /\ delivered' = [delivered EXCEPT ![c][x] = IF @ < 2 THEN @ + 1 ELSE 2]
    /\ loop' = [loop EXCEPT ![l].got = TRUE,
                            ![l].late = IF status[c] = "RUNNING" THEN @ ELSE @ \cup {x}]
    /\ UNCHANGED <<status, row, req, exposed, orphaned, crashes>>

\* Slip: an error answer of the engine is not thrown.
SendReturnsAnyway(l) ==
    /\ loop[l].pc \in {"send", "resend"}
    /\ Goto(l, "recordSent")
    /\ UNCHANGED <<status, row, req, observers>>

SendReturns(l) ==
    /\ loop[l].pc \in {"send", "resend"} /\ loop[l].got
    /\ Goto(l, "recordSent")
    /\ UNCHANGED <<status, row, req, observers>>

\* The engine refuses, or the connection breaks for good; the quota is released.
SendThrows(l) ==
    /\ loop[l].pc \in {"send", "resend"}
    /\ Goto(l, "recordFailed")
    /\ UNCHANGED <<status, row, req, observers>>

\* fetchEngine: the connection broke, the engine could be revived, and the
\* request is made once more, whether or not the first one was carried out.
SendRetried(l) ==
    /\ loop[l].pc = "send"
    /\ loop' = [loop EXCEPT ![l].pc = "resend", ![l].got = FALSE]
    /\ exposed' = IF loop[l].got THEN exposed \cup {loop[l].camp} ELSE exposed
    /\ UNCHANGED <<status, row, req, delivered, orphaned, crashes>>

RecordSent(l) ==
    LET c == loop[l].camp IN
    /\ loop[l].pc = "recordSent" /\ Exists(c)
    /\ row' = [row EXCEPT ![c][loop[l].cur] = "SENT"]
    /\ Goto(l, "log")
    /\ UNCHANGED <<status, req, observers>>

\* The update throws, for a database error or because the recipient went with
\* the campaign: the catch block takes the message for failed.
RecordSentThrows(l) ==
    /\ loop[l].pc = "recordSent"
    /\ Goto(l, "recordFailed")
    /\ UNCHANGED <<status, row, req, observers>>

\* messageLog.create; it fails on a message id that is already logged or an
\* instance that is gone, and then the SENT recipient becomes FAILED.
WriteLog(l) ==
    /\ loop[l].pc = "log"
    /\ NextRecipient(l) \/ Goto(l, "recordFailed")
    /\ UNCHANGED <<status, row, req, observers>>

RecordFailed(l) ==
    LET c == loop[l].camp IN
    /\ loop[l].pc \in {"recordFailed", "recordQuota"} /\ Exists(c)
    /\ row' = [row EXCEPT ![c][loop[l].cur] = "FAILED"]
    /\ IF loop[l].pc = "recordQuota" THEN Goto(l, "pauseQuota") ELSE NextRecipient(l)
    /\ UNCHANGED <<status, req, observers>>

PauseForQuota(l) ==
    /\ loop[l].pc = "pauseQuota" /\ Exists(loop[l].camp)
    /\ SetStatus(loop[l].camp, "PAUSED")
    /\ StopLoop(l)
    /\ UNCHANGED <<row, req, observers>>

\* Every other database access that throws, on an error or on a campaign that is
\* gone, ends in the outer catch: the loop is over, whatever the status says.
LoopDies(l) ==
    LET c == loop[l].camp IN
    /\ loop[l].pc \in {"load", "mark", "check", "recordFailed", "recordQuota", "pauseQuota"}
    /\ StopLoop(l)
    /\ orphaned' = IF status[c] \in Active /\ LiveOn(c) = {l} /\ ~Starting(c)
                   THEN orphaned \cup {c} ELSE orphaned
    /\ exposed' = IF Unrecorded(l) THEN exposed \cup {c} ELSE exposed
    /\ UNCHANGED <<status, row, req, delivered, crashes>>

LoopStep(l) ==
    \/ Load(l) \/ LoadRefused(l) \/ MarkRunning(l)
    \/ Check(l) \/ CheckStops(l) \/ Complete(l)
    \/ Reserve(l) \/ EngineDelivers(l) \/ SendReturns(l) \/ SendThrows(l) \/ SendRetried(l)
    \/ RecordSent(l) \/ RecordSentThrows(l) \/ WriteLog(l)
    \/ RecordFailed(l) \/ PauseForQuota(l) \/ LoopDies(l)

-----------------------------------------------------------------------------
(* The requests *)

\* POST of a new campaign: nothing active is found.  The plan, the instance and
\* the numbers are checked next (ReqFails when one is refused).
CreateChecked(q) ==
    /\ req[q].pc = "idle" /\ ActiveCamps = {}
    /\ req' = [req EXCEPT ![q].pc = "insert"]
    /\ UNCHANGED <<status, row, loop, observers>>

\* The transaction that creates the campaign and its recipients.  The Google
\* Sheets sync has one more update to make before it starts the loop.
CreateInserted(q) ==
    /\ req[q].pc = "insert"
    /\ \E c \in Camps, next \in {"start", "config"} :
        /\ status[c] = "none"
        /\ SetStatus(c, "PENDING")
        /\ row' = [row EXCEPT ![c] = [x \in Rcpts |-> "PENDING"]]
        /\ req' = [req EXCEPT ![q].pc = next, ![q].camp = c]
    /\ UNCHANGED <<loop, observers>>

\* googleSheetsConfig.update; if it throws, no loop is ever started.
ConfigUpdated(q) ==
    /\ req[q].pc = "config"
    /\ \/ /\ req' = [req EXCEPT ![q].pc = "start"]
          /\ UNCHANGED orphaned
       \/ /\ EndReq(q)
          /\ orphaned' = orphaned \cup {req[q].camp}
    /\ UNCHANGED <<status, row, loop, delivered, exposed, crashes>>

\* runCampaignBackground(id), not awaited; the response is sent.
StartLoop(q) ==
    LET c == req[q].camp IN
    /\ req[q].pc = "start"
    /\ \E l \in Loops :
        /\ loop[l].pc = "idle"
        /\ loop' = [loop EXCEPT ![l] = [IdleLoop EXCEPT
                        !.pc = "load", !.camp = c, !.resumed = req[q].resumed]]
    /\ exposed' = IF LiveOn(c) = {} THEN exposed ELSE exposed \cup {c}
    /\ EndReq(q)
    /\ UNCHANGED <<status, row, delivered, orphaned, crashes>>

PauseChecked(q) ==
    /\ req[q].pc = "idle"
    /\ \E c \in ActiveCamps : req' = [req EXCEPT ![q].pc = "pause", ![q].camp = c]
    /\ UNCHANGED <<status, row, loop, observers>>

PauseWritten(q) ==
    /\ req[q].pc = "pause"
    /\ Exists(req[q].camp)
    /\ SetStatus(req[q].camp, "PAUSED")
    /\ EndReq(q)
    /\ UNCHANGED <<row, loop, observers>>

ResumeChecked(q) ==
    /\ req[q].pc = "idle"
    /\ \E c \in Camps :
        /\ status[c] = "PAUSED"
        /\ req' = [req EXCEPT ![q].pc = "count", ![q].camp = c]
    /\ UNCHANGED <<status, row, loop, observers>>

ResumeCounted(q) ==
    /\ req[q].pc = "count" /\ ActiveCamps \subseteq {req[q].camp}
    /\ req' = [req EXCEPT ![q].pc = "resume"]
    /\ UNCHANGED <<status, row, loop, observers>>

ResumeWritten(q) ==
    LET c == req[q].camp IN
    /\ req[q].pc = "resume" /\ Exists(c)
    /\ SetStatus(c, "RUNNING")
    /\ req' = [req EXCEPT ![q].pc = "start", ![q].resumed = TRUE]
    /\ orphaned' = orphaned \ {c}
    /\ UNCHANGED <<row, loop, delivered, exposed, crashes>>

\* The request is refused, or one of its database accesses throws.
ReqFails(q) ==
    /\ req[q].pc \in {"insert", "pause", "count", "resume"}
    /\ EndReq(q)
    /\ UNCHANGED <<status, row, loop, observers>>

ReqContinues(q) ==
    \/ CreateInserted(q) \/ ConfigUpdated(q) \/ StartLoop(q)
    \/ PauseWritten(q) \/ ResumeCounted(q) \/ ResumeWritten(q) \/ ReqFails(q)

ReqStep(q) ==
    \/ CreateChecked(q) \/ PauseChecked(q) \/ ResumeChecked(q)
    \/ ReqContinues(q)

\* DELETE, or the deletion of the instance: the recipients go with the campaign.
Delete(c) ==
    /\ Exists(c)
    /\ SetStatus(c, "deleted")
    /\ UNCHANGED <<row, loop, req, observers>>

\* The Node process restarts; nothing resumes the loops it was running.
Crash ==
    /\ crashes < MaxCrashes
    /\ crashes' = crashes + 1
    /\ loop' = [l \in Loops |-> IdleLoop]
    /\ req' = [q \in Reqs |-> IdleReq]
    /\ orphaned' = orphaned \cup ActiveCamps
    /\ exposed' = exposed \cup
                    {c \in Camps : \E l \in LiveOn(c) : Unrecorded(l)}
    /\ UNCHANGED <<status, row, delivered>>

Next ==
    \/ \E l \in Loops : LoopStep(l)
    \/ \E q \in Reqs : ReqStep(q)
    \/ \E c \in Camps : Delete(c)
    \/ Crash

Spec == Init /\ [][Next]_vars

\* The event loop runs every continuation, and an engine call ends with an
\* answer or an error (undici's response timeout).
Fairness ==
    /\ \A l \in Loops : WF_vars(LoopStep(l))
    /\ \A q \in Reqs : WF_vars(ReqContinues(q))

FairSpec == Spec /\ Fairness

-----------------------------------------------------------------------------
(* Properties *)

\* COMPLETED is only reported when every recipient was attempted, although the
\* loops never look for work beyond the list they started with, several may run
\* and any of them writes COMPLETED at its own end.
CompletedMeansAllAttempted ==
    \A c \in Camps : status[c] = "COMPLETED" => Pending(c) = {}

\* Nobody is messaged twice by a campaign that never had two loops at once, a
\* retried send that had gone out, or a loop that died between a send and its
\* record (restart, database error).
AtMostOnce ==
    \A c \in Camps \ exposed : \A x \in Rcpts : delivered[c][x] <= 1

\* An active campaign has a loop, or a request about to start one, unless a
\* restart, a database error or a failed Google Sheets request left it without: the state that
\* blocks the account's next campaign does not outlive its loop otherwise.
ActiveHasDriver ==
    \A c \in ActiveCamps \ orphaned :
        LiveOn(c) # {} \/ Starting(c)

\* After a campaign stopped being RUNNING a loop messages at most the one
\* recipient it was at (the per-recipient status check of the for loop).
AtMostOneLateSend == \A l \in Loops : Cardinality(loop[l].late) <= 1

\* An active campaign ends up paused, completed or deleted, unless it lost its
\* loop: the account is not blocked for ever by a campaign that is being sent.
ActiveSettles ==
    \A c \in Camps :
        (status[c] \in Active) ~> (status[c] \notin Active \/ c \in orphaned)

\* The campaigns implement what they promise their owner (module BulkSend).
Promise == INSTANCE BulkSend WITH
    life <- [c \in Camps |-> CASE status[c] = "none" -> "none"
                               [] status[c] = "deleted" -> "gone"
                               [] status[c] = "COMPLETED" -> "done"
                               [] OTHER -> "open"],
    attempted <- [c \in Camps |-> Rcpts \ Pending(c)],
    sent <- [c \in Camps |-> {x \in Rcpts : row[c][x] = "SENT"}],
    reached <- [c \in Camps |-> {x \in Rcpts : delivered[c][x] > 0}]

\* Nothing is reported COMPLETED too early, SENT without a message having gone
\* out, or taken back from SENT or FAILED to PENDING, in any order of the steps.
KeepsPromise == Promise!Spec

\* "Only one campaign at a time" (campaigns/page.tsx, campaigns/route.ts).
OneActiveCampaign == Cardinality(ActiveCamps) <= 1
=============================================================================
