---------------------------- MODULE MessageQuota ----------------------------
(***************************************************************************)
(* The monthly message allowance of one account of the portal              *)
(* (src/portal/src/lib/message-quota.ts).                                  *)
(*                                                                         *)
(* Every outgoing message of the account, whichever feature sends it (a    *)
(* campaign, the inbox, the public API, a chatbot reply, WooCommerce), goes *)
(* through sendWithMessageQuota: reserve one unit of the month's counter,  *)
(* call the WhatsApp engine, give the unit back if the call fails.  The     *)
(* calls of one account run concurrently, and each `await` is a point      *)
(* where the others, the calendar, the administrator and a restart of the  *)
(* process can step in: there is one action per await.                     *)
(*                                                                         *)
(* A period is the month number; a missing MonthlyMessageUsage row and a   *)
(* row with sentCount = 0 behave alike and are both the value 0.           *)
(***************************************************************************)
EXTENDS Integers, FiniteSets

CONSTANTS
    Senders,        \* sendWithMessageQuota calls that may be in progress
    Limits,         \* monthly limits a plan can carry; 0 stands for no plan
    MaxMonth,       \* bound: months 1..MaxMonth are explored
    MaxDelivered,   \* bound: messages the engine delivers per month
    MaxResets       \* bound: administrator resets

ASSUME QuotaAssumption ==
    /\ IsFiniteSet(Senders)
    /\ Limits \subseteq Nat
    /\ 0 \in Limits
    /\ MaxMonth \in Nat \ {0}
    /\ MaxDelivered \in Nat
    /\ MaxResets \in Nat

VARIABLES
    month,       \* the current month in Africa/Cairo
    limit,       \* limit of the ACTIVE, unexpired subscription, 0 if none
    sentCount,   \* MonthlyMessageUsage.sentCount, by month
    call,        \* the local state of every sendWithMessageQuota call
    (* observers: they never guard a step of the program *)
    peak,        \* the highest limit that was in force so far
    delivered,   \* messages delivered, by the month they were reserved in
    uncounted,   \* units the counter lost although they were, or may be, used,
                 \* and messages a retried request sent in addition
    leaked,      \* units the counter keeps although nothing was delivered
    resets       \* administrator resets so far

vars == <<month, limit, sentCount, call, peak, delivered, uncounted, leaked, resets>>
observers == <<peak, delivered, uncounted, leaked, resets>>

Months == 1..MaxMonth

\* got: the engine delivered the message of this attempt.
Idle == [pc |-> "idle", limit |-> 0, month |-> 1, got |-> FALSE]

\* "resending": fetchEngine is making the same request for the second time.
InFlight == {"sending", "resending"}

Calls == [pc : {"idle", "planned", "reserving", "releasing"} \cup InFlight,
          limit : Limits, month : Months, got : BOOLEAN]

TypeOK ==
    /\ month \in Months
    /\ limit \in Limits
    /\ sentCount \in [Months -> Nat]
    /\ call \in [Senders -> Calls]
    /\ peak \in Limits
    /\ delivered \in [Months -> Nat]
    /\ uncounted \in [Months -> Nat]
    /\ leaked \in [Months -> Nat]
    /\ resets \in 0..MaxResets

Init ==
    /\ month = 1
    /\ limit \in Limits
    /\ sentCount = [m \in Months |-> 0]
    /\ call = [s \in Senders |-> Idle]
    /\ peak = limit
    /\ delivered = [m \in Months |-> 0]
    /\ uncounted = [m \in Months |-> 0]
    /\ leaked = [m \in Months |-> 0]
    /\ resets = 0

-----------------------------------------------------------------------------
(* reserveMessageQuota *)

\* getActiveSubscriptionPlan answers: the limit is now a local of this call.
ReadPlan(s) ==
    /\ call[s].pc = "idle"
    /\ call' = [call EXCEPT ![s].pc = "planned", ![s].limit = limit]
    /\ UNCHANGED <<month, limit, sentCount, observers>>

\* The period is computed after the plan was read; a limit below the amount
\* (1 for every caller) throws before the database is touched.
ReadPeriod(s) ==
    /\ call[s].pc = "planned"
    /\ IF call[s].limit < 1
       THEN call' = [call EXCEPT ![s] = Idle]
       ELSE call' = [call EXCEPT ![s].pc = "reserving", ![s].month = month]
    /\ UNCHANGED <<month, limit, sentCount, observers>>

\* Slip: the condition leaves the amount out of the comparison.
ReserveOffByOne(s) ==
    LET m == call[s].month IN
    /\ call[s].pc = "reserving"
    /\ sentCount[m] <= call[s].limit
    /\ sentCount' = [sentCount EXCEPT ![m] = @ + 1]
    /\ call' = [call EXCEPT ![s].pc = "sending"]
    /\ UNCHANGED <<month, limit, observers>>

\* The transaction: the conditional UPDATE finds the row below the limit.
Reserve(s) ==
    LET m == call[s].month IN
    /\ call[s].pc = "reserving"
    /\ sentCount[m] + 1 <= call[s].limit
    /\ sentCount' = [sentCount EXCEPT ![m] = @ + 1]
    /\ call' = [call EXCEPT ![s].pc = "sending"]
    /\ UNCHANGED <<month, limit, observers>>

\* It updates no row (MessageQuotaExceededError), or the transaction fails:
\* reserve runs before the `try`, so nothing is given back.
ReserveFails(s) ==
    /\ call[s].pc = "reserving"
    /\ call' = [call EXCEPT ![s] = Idle]
    /\ UNCHANGED <<month, limit, sentCount, observers>>

-----------------------------------------------------------------------------
(* send, and releaseMessageQuota when it throws *)

\* The engine delivers the message; its answer has not arrived yet.
EngineDelivers(s) ==
    LET m == call[s].month IN
    /\ call[s].pc \in InFlight /\ ~call[s].got
    /\ delivered[m] < MaxDelivered
    /\ delivered' = [delivered EXCEPT ![m] = @ + 1]
    /\ call' = [call EXCEPT ![s].got = TRUE]
    /\ UNCHANGED <<month, limit, sentCount, peak, uncounted, leaked, resets>>

\* fetchEngine: the connection broke, the engine could be revived, and the
\* request is made once more, whether or not the first one was carried out.
SendRetried(s) ==
    LET m == call[s].month IN
    /\ call[s].pc = "sending"
    /\ call' = [call EXCEPT ![s].pc = "resending", ![s].got = FALSE]
    /\ uncounted' = IF call[s].got THEN [uncounted EXCEPT ![m] = @ + 1] ELSE uncounted
    /\ UNCHANGED <<month, limit, sentCount, peak, delivered, leaked, resets>>

\* Slip: the unit is given back in a `finally`, so after a success too.
SendReturnsReleasing(s) ==
    /\ call[s].pc \in InFlight /\ call[s].got
    /\ sentCount' = [sentCount EXCEPT ![call[s].month] = IF @ > 0 THEN @ - 1 ELSE 0]
    /\ call' = [call EXCEPT ![s] = Idle]
    /\ UNCHANGED <<month, limit, observers>>

SendReturns(s) ==
    /\ call[s].pc \in InFlight /\ call[s].got
    /\ call' = [call EXCEPT ![s] = Idle]
    /\ UNCHANGED <<month, limit, sentCount, observers>>

\* Slip: the error is rethrown without giving the unit back.
SendThrowsKeeping(s) ==
    /\ call[s].pc \in InFlight
    /\ call' = [call EXCEPT ![s] = Idle]
    /\ UNCHANGED <<month, limit, sentCount, observers>>

\* The engine refused, or the connection broke before its answer arrived:
\* instanceRequest throws alike whether or not the message went out.
SendThrows(s) ==
    /\ call[s].pc \in InFlight
    /\ call' = [call EXCEPT ![s].pc = "releasing"]
    /\ UNCHANGED <<month, limit, sentCount, observers>>

\* GREATEST(sentCount - 1, 0), on the row of the month it is NOW.
Release(s) ==
    LET m == call[s].month
        misplaced == call[s].got \/ m # month
    IN
    /\ call[s].pc = "releasing"
    /\ IF sentCount[month] > 0
       THEN /\ sentCount' = [sentCount EXCEPT ![month] = @ - 1]
            /\ uncounted' = IF misplaced
                            THEN [uncounted EXCEPT ![month] = @ + 1]
                            ELSE uncounted
       ELSE UNCHANGED <<sentCount, uncounted>>
    /\ leaked' = IF m # month /\ ~call[s].got
                 THEN [leaked EXCEPT ![m] = @ + 1]
                 ELSE leaked
    /\ call' = [call EXCEPT ![s] = Idle]
    /\ UNCHANGED <<month, limit, peak, delivered, resets>>

\* The release itself fails; sendWithMessageQuota only logs it.
ReleaseFails(s) ==
    /\ call[s].pc = "releasing"
    /\ leaked' = IF call[s].got THEN leaked
                 ELSE [leaked EXCEPT ![call[s].month] = @ + 1]
    /\ call' = [call EXCEPT ![s] = Idle]
    /\ UNCHANGED <<month, limit, sentCount, peak, delivered, uncounted, resets>>

-----------------------------------------------------------------------------
(* What happens around the calls *)

\* A unit of month m is in use: reserved, its message not delivered (yet).
Holds(c, m) == c.pc \in InFlight \cup {"releasing"} /\ c.month = m /\ ~c.got

Outstanding(m) == {s \in Senders : Holds(call[s], m)}

\* The calendar.
NextMonth ==
    /\ month < MaxMonth
    /\ month' = month + 1
    /\ UNCHANGED <<limit, sentCount, call, observers>>

\* A purchase, an expiry or an administrator edit changes the plan.
ChangePlan ==
    /\ \E l \in Limits :
        /\ limit' = l
        /\ peak' = IF l > peak THEN l ELSE peak
    /\ UNCHANGED <<month, sentCount, call, delivered, uncounted, leaked, resets>>

\* POST /api/admin/users/reset-quota
AdminReset ==
    /\ resets < MaxResets
    /\ resets' = resets + 1
    /\ sentCount' = [sentCount EXCEPT ![month] = 0]
    /\ uncounted' = [uncounted EXCEPT ![month] = @ + sentCount[month]]
    /\ UNCHANGED <<month, limit, call, peak, delivered, leaked>>

\* The Node process dies with its calls; the rows stay as they are.
Restart ==
    /\ leaked' = [m \in Months |-> leaked[m] + Cardinality(Outstanding(m))]
    /\ call' = [s \in Senders |-> Idle]
    /\ UNCHANGED <<month, limit, sentCount, peak, delivered, uncounted, resets>>

CallStep(s) ==
    \/ ReadPlan(s) \/ ReadPeriod(s) \/ Reserve(s) \/ ReserveFails(s)
    \/ EngineDelivers(s) \/ SendRetried(s) \/ SendReturns(s) \/ SendThrows(s)
    \/ Release(s) \/ ReleaseFails(s)

Next ==
    \/ \E s \in Senders : CallStep(s)
    \/ NextMonth
    \/ ChangePlan
    \/ AdminReset
    \/ Restart

Spec == Init /\ [][Next]_vars

-----------------------------------------------------------------------------
(* Properties *)

\* The counter of a month never exceeds the highest limit the account has had,
\* however many senders race for the last unit (reserveMessageQuota's
\* conditional UPDATE), and although each uses the limit it read earlier.
WithinLimit == \A m \in Months : sentCount[m] <= peak

\* Every delivered message and every unit in use is on the month's counter,
\* except the units an administrator reset wiped, a release took from a month
\* it was not reserved in or returned for a message that did go out, and the
\* second message of a request fetchEngine repeated.
NothingFree ==
    \A m \in Months :
        delivered[m] + Cardinality(Outstanding(m)) <= sentCount[m] + uncounted[m]

\* The counter charges nothing but delivered messages and units in use, except
\* the units of a call cut off by a restart, of a release that failed or of one
\* that hit another month.
NothingOvercharged ==
    \A m \in Months :
        sentCount[m] <= delivered[m] + Cardinality(Outstanding(m)) + leaked[m]

\* What the account is sold: as long as no unit of a month was wiped,
\* misplaced or used twice, the messages delivered against it stay within the limit.
AllowanceHolds ==
    \A m \in Months : uncounted[m] = 0 => delivered[m] <= peak
=============================================================================
