------------------------------ MODULE Billing ------------------------------
(***************************************************************************)
(* The payments and the subscription rows of one account of the portal:    *)
(* checkout (app/api/billing/checkout/route.ts), the confirmation of a     *)
(* payment by a message of the SMS gateway                                 *)
(* (app/api/billing/sms-gateway/route.ts), the expiry the session check    *)
(* carries out when a page is opened (app/api/auth/session/route.ts), and  *)
(* the administrator's edit (app/api/admin/users/route.ts).                *)
(*                                                                         *)
(* One action per await.  The confirmation is a database transaction: what *)
(* it writes appears at its commit, what it read is its snapshot (MySQL's  *)
(* repeatable read takes no lock for a read).  Which payment a message     *)
(* matches depends on amounts and numbers, so any PENDING one may be it.   *)
(* The plan's name decides limits elsewhere and is left out; time is a     *)
(* coarse clock.                                                           *)
(***************************************************************************)
EXTENDS Integers

CONSTANTS
    Pays,         \* payments the account may ever check out
    Subs,         \* subscription rows the account may ever have
    Gates,        \* gateway deliveries that may be in progress together
    Checks,       \* session checks that may be in progress together
    Insts,        \* WhatsApp instances of the account
    Trial, Year,  \* lengths of the trial and of a paid subscription
    MaxNow,       \* bound: the last moment
    MaxEdits,     \* bound: administrator edits
    MaxCrashes,   \* bound: restarts of the Node process
    Nil

ASSUME BillingAssumption ==
    /\ Nil \notin Subs \cup Pays
    /\ Subs # {}
    /\ {Trial, Year} \subseteq Nat \ {0}
    /\ {MaxNow, MaxEdits, MaxCrashes} \subseteq Nat

VARIABLES
    now,         \* the time
    pay,         \* Transaction.status, "none" before the checkout
    sub,         \* the subscription rows: status ("none" if there is none) and end
    gate,        \* gateway deliveries in progress
    check,       \* session checks in progress
    admin,       \* the administrator's edit in progress, or Nil
    inst,        \* WhatsAppInstance.status
    engine,      \* is the instance logged in at the engine
    (* observers: they never guard a step of the program *)
    credited,    \* payments that were confirmed
    due,         \* the date the account is paid up to, every payment counted once
    repeated,    \* a payment was confirmed that another delivery had confirmed meanwhile
    overlapped,  \* a confirmation committed over another one it had not seen
    crossed,     \* a confirmation and an expiry of the same row crossed
    recent,      \* instances connected since the latest expiry
    unswept,     \* instances connected when a session check was cut off or an
                 \* administrator edited the subscription
    astray,      \* instances whose logout failed, or that connected while a session
                 \* check was logging out
    edits, crashes

vars == <<now, pay, sub, gate, check, admin, inst, engine, credited, due, repeated, overlapped,
          crossed, recent, unswept, astray, edits, crashes>>

\* A delivery: the payment it matched, the row its snapshot found, that row's end
\* and the time; stale once another confirmation committed after the snapshot.
IdleGate == [pc |-> "idle", pay |-> Nil, found |-> Nil, end |-> 0, at |-> 0, stale |-> FALSE]
\* A session check: the row it read, and the instances still to log out.
IdleCheck == [pc |-> "idle", row |-> Nil, todo |-> {}]

GateRecs == [pc : {"idle", "confirm", "commit"}, pay : Pays \cup {Nil},
             found : Subs \cup {Nil}, end : Nat, at : 0..MaxNow, stale : BOOLEAN]
CheckRecs == [pc : {"idle", "expire", "list", "logout"}, row : Subs \cup {Nil},
              todo : SUBSET Insts]

TypeOK ==
    /\ now \in 0..MaxNow
    /\ pay \in [Pays -> {"none", "PENDING", "SUCCESSFUL"}]
    /\ sub \in [Subs -> [status : {"none", "ACTIVE", "EXPIRED", "CANCELLED"}, end : Nat]]
    /\ gate \in [Gates -> GateRecs]
    /\ check \in [Checks -> CheckRecs]
    /\ admin \in [row : Subs, status : {"ACTIVE", "EXPIRED", "CANCELLED"}, end : Nat] \cup {Nil}
    /\ inst \in [Insts -> {"DISCONNECTED", "CONNECTED"}]
    /\ engine \in [Insts -> BOOLEAN]
    /\ due \in Nat
    /\ credited \subseteq Pays
    /\ repeated \in BOOLEAN /\ overlapped \in BOOLEAN /\ crossed \in BOOLEAN
    /\ recent \cup unswept \cup astray \subseteq Insts
    /\ edits \in 0..MaxEdits /\ crashes \in 0..MaxCrashes

\* Registration has created the trial.
Init ==
    /\ now = 0
    /\ pay = [t \in Pays |-> "none"]
    /\ \E s0 \in Subs :
        sub = [s \in Subs |-> IF s = s0 THEN [status |-> "ACTIVE", end |-> Trial]
                                        ELSE [status |-> "none", end |-> 0]]
    /\ gate = [g \in Gates |-> IdleGate]
    /\ check = [k \in Checks |-> IdleCheck]
    /\ admin = Nil
    /\ inst = [i \in Insts |-> "DISCONNECTED"]
    /\ engine = [i \in Insts |-> FALSE]
    /\ due = Trial
    /\ credited = {}
    /\ repeated = FALSE /\ overlapped = FALSE /\ crossed = FALSE
    /\ recent = {} /\ unswept = {} /\ astray = {}
    /\ edits = 0 /\ crashes = 0

-----------------------------------------------------------------------------
(* Helpers *)

Rows == {s \in Subs : sub[s].status # "none"}
ActiveRows == {s \in Subs : sub[s].status = "ACTIVE"}
\* orderBy endDate desc, take 1; rows of the same end come in any order.
Latest(rows) == {s \in rows : \A r \in rows : sub[r].end <= sub[s].end}
\* getActiveSubscriptionPlan: what sending and the sheets ask.
HasPlan == \E s \in ActiveRows : sub[s].end > now
Later(a, b) == IF a < b THEN b ELSE a
Connected == {i \in Insts : inst[i] = "CONNECTED"}

rows == <<pay, sub>>
others == <<admin, inst, engine>>
ledger == <<credited, due, repeated, overlapped, crossed>>
sweep == <<recent, unswept, astray>>
bounds == <<edits, crashes>>

-----------------------------------------------------------------------------
(* Payments *)

Checkout(t) ==
    /\ pay[t] = "none"
    /\ pay' = [pay EXCEPT ![t] = "PENDING"]
    /\ UNCHANGED <<now, sub, gate, check, others, ledger, sweep, bounds>>

\* The list of PENDING payments, outside the transaction.
Match(g) ==
    /\ gate[g].pc = "idle"
    /\ \E t \in Pays :
        /\ pay[t] = "PENDING"
        /\ gate' = [gate EXCEPT ![g].pc = "confirm", ![g].pay = t]
    /\ UNCHANGED <<now, rows, check, others, ledger, sweep, bounds>>

\* Slip: the end of the row found is not compared with the time.
FindAnyActive(g) ==
    /\ gate[g].pc = "confirm"
    /\ IF ActiveRows # {}
       THEN \E s \in Latest(ActiveRows) :
              gate' = [gate EXCEPT ![g].pc = "commit", ![g].found = s,
                                   ![g].end = sub[s].end, ![g].at = now]
       ELSE gate' = [gate EXCEPT ![g].pc = "commit", ![g].at = now]
    /\ UNCHANGED <<now, rows, check, others, ledger, sweep, bounds>>

\* findFirst of the latest ACTIVE row, and the time it is compared with.
FindSubscription(g) ==
    /\ gate[g].pc = "confirm"
    /\ IF HasPlan
       THEN \E s \in Latest(ActiveRows) :
              gate' = [gate EXCEPT ![g].pc = "commit", ![g].found = s,
                                   ![g].end = sub[s].end, ![g].at = now]
       ELSE gate' = [gate EXCEPT ![g].pc = "commit", ![g].at = now]
    /\ UNCHANGED <<now, rows, check, others, ledger, sweep, bounds>>

\* What a confirmation writes to the subscription: a year from the end it found,
\* whatever the row is by now, or a new row of a year.
Extend(g, from) ==
    IF gate[g].found # Nil
    THEN sub' = [sub EXCEPT ![gate[g].found].end = from + Year]
    ELSE \E s \in Subs \ Rows :
            sub' = [sub EXCEPT ![s] = [status |-> "ACTIVE", end |-> gate[g].at + Year]]

\* The bookkeeping of a commit, and the deliveries it makes stale.
Committed(g) ==
    LET t == gate[g].pay
        f == gate[g].found
    IN  /\ credited' = credited \cup {t}
        /\ due' = IF t \in credited THEN due ELSE Later(due, gate[g].at) + Year
        /\ repeated' = (repeated \/ pay[t] = "SUCCESSFUL")
        /\ overlapped' = (overlapped \/ gate[g].stale)
        /\ crossed' = (crossed \/ (f # Nil /\ sub[f].status # "ACTIVE"))
        /\ gate' = [h \in Gates |->
                      IF h = g THEN IdleGate
                      ELSE [gate[h] EXCEPT !.stale = gate[h].pc = "commit"]]

\* Slip: the payment stays PENDING.
CommitUnmarked(g) ==
    /\ gate[g].pc = "commit"
    /\ Extend(g, gate[g].end)
    /\ Committed(g)
    /\ UNCHANGED <<now, pay, check, others, sweep, bounds>>

\* Slip: the year counts from today.
CommitFromNow(g) ==
    /\ gate[g].pc = "commit"
    /\ pay' = [pay EXCEPT ![gate[g].pay] = "SUCCESSFUL"]
    /\ Extend(g, gate[g].at)
    /\ Committed(g)
    /\ UNCHANGED <<now, check, others, sweep, bounds>>

Commit(g) ==
    /\ gate[g].pc = "commit"
    /\ pay' = [pay EXCEPT ![gate[g].pay] = "SUCCESSFUL"]
    /\ Extend(g, gate[g].end)
    /\ Committed(g)
    /\ UNCHANGED <<now, check, others, sweep, bounds>>

\* The transaction is rolled back.
GateFails(g) ==
    /\ gate[g].pc # "idle"
    /\ gate' = [gate EXCEPT ![g] = IdleGate]
    /\ UNCHANGED <<now, rows, check, others, ledger, sweep, bounds>>

-----------------------------------------------------------------------------
(* The session check *)

\* The latest row is ACTIVE and its end is in the past.
Lapsed(k) ==
    /\ check[k].pc = "idle"
    /\ \E s \in Latest(Rows) :
        /\ sub[s].status = "ACTIVE" /\ sub[s].end < now
        /\ check' = [check EXCEPT ![k].pc = "expire", ![k].row = s]
    /\ UNCHANGED <<now, rows, gate, others, ledger, sweep, bounds>>

\* update EXPIRED by id, whatever the row is by now.
Expire(k) ==
    /\ check[k].pc = "expire"
    /\ sub' = [sub EXCEPT ![check[k].row].status = "EXPIRED"]
    /\ crossed' = (crossed \/ sub[check[k].row].end >= now)
    /\ check' = [check EXCEPT ![k].pc = "list"]
    /\ recent' = {}
    /\ UNCHANGED <<now, pay, gate, others, credited, due, repeated, overlapped, unswept,
                   astray, bounds>>

\* Slip: the instances are looked up with the status they get at the end.
ListDisconnected(k) ==
    /\ check[k].pc = "list"
    /\ check' = [check EXCEPT ![k].pc = "logout", ![k].todo = Insts \ Connected]
    /\ UNCHANGED <<now, rows, gate, others, ledger, sweep, bounds>>

ListConnected(k) ==
    /\ check[k].pc = "list"
    /\ check' = [check EXCEPT ![k].pc = "logout", ![k].todo = Connected]
    /\ UNCHANGED <<now, rows, gate, others, ledger, sweep, bounds>>

\* whatsapp.logout, one after the other; its error is logged and passed over.
Logout(k) ==
    /\ check[k].pc = "logout"
    /\ \E i \in check[k].todo :
        /\ check' = [check EXCEPT ![k].todo = @ \ {i}]
        /\ \/ engine' = [engine EXCEPT ![i] = FALSE] /\ astray' = astray \ {i}
           \/ UNCHANGED engine /\ astray' = astray \cup {i}
    /\ UNCHANGED <<now, rows, gate, admin, inst, ledger, recent, unswept, bounds>>

\* Slip: the rows of the instances are left as they are.
ClearForgotten(k) ==
    /\ check[k].pc = "logout" /\ check[k].todo = {}
    /\ check' = [check EXCEPT ![k] = IdleCheck]
    /\ UNCHANGED <<now, rows, gate, others, ledger, sweep, bounds>>

\* updateMany: every instance that is CONNECTED by now, listed or not.
Clear(k) ==
    /\ check[k].pc = "logout" /\ check[k].todo = {}
    /\ inst' = [i \in Insts |-> "DISCONNECTED"]
    /\ check' = [check EXCEPT ![k] = IdleCheck]
    /\ UNCHANGED <<now, rows, gate, admin, engine, ledger, sweep, bounds>>

\* A database access throws: nobody takes the expiry up again, since the row is
\* EXPIRED (or still ACTIVE, when that was the access that threw).
CheckFails(k) ==
    /\ check[k].pc # "idle"
    /\ check' = [check EXCEPT ![k] = IdleCheck]
    /\ unswept' = IF check[k].pc = "expire" THEN unswept ELSE unswept \cup Connected
    /\ UNCHANGED <<now, rows, gate, others, ledger, recent, astray, bounds>>

-----------------------------------------------------------------------------
(* The surroundings *)

\* The owner scans the code of an instance.  The engine and the row are set by
\* requests and webhooks of their own.
Connect(i) ==
    /\ inst[i] = "DISCONNECTED"
    /\ inst' = [inst EXCEPT ![i] = "CONNECTED"]
    /\ engine' = [engine EXCEPT ![i] = TRUE]
    /\ recent' = recent \cup {i}
    /\ astray' = IF \E k \in Checks : check[k].pc = "logout"
                 THEN astray \cup {i} ELSE astray \ {i}
    /\ UNCHANGED <<now, rows, gate, check, admin, ledger, unswept, bounds>>

\* The administrator's PUT: the latest row is read, then written with the fields
\* given and the others as they were read.
AdminReads ==
    /\ edits < MaxEdits /\ admin = Nil
    /\ edits' = edits + 1
    /\ \E s \in Latest(Rows) :
        \E t \in {sub[s].status, "ACTIVE", "EXPIRED", "CANCELLED"}, e \in {sub[s].end, now + Year} :
            admin' = [row |-> s, status |-> t, end |-> e]
    /\ UNCHANGED <<now, rows, gate, check, inst, engine, ledger, sweep, crashes>>

AdminWrites ==
    /\ admin # Nil
    /\ sub' = [sub EXCEPT ![admin.row] = [status |-> admin.status, end |-> admin.end]]
    /\ admin' = Nil
    /\ unswept' = unswept \cup Connected
    /\ UNCHANGED <<now, pay, gate, check, inst, engine, ledger, recent, astray, bounds>>

Tick ==
    /\ now < MaxNow
    /\ now' = now + 1
    /\ UNCHANGED <<rows, gate, check, others, ledger, sweep, bounds>>

Crash ==
    /\ crashes < MaxCrashes
    /\ crashes' = crashes + 1
    /\ gate' = [g \in Gates |-> IdleGate]
    /\ check' = [k \in Checks |-> IdleCheck]
    /\ admin' = Nil
    /\ unswept' = IF \E k \in Checks : check[k].pc \in {"list", "logout"}
                  THEN unswept \cup Connected ELSE unswept
    /\ UNCHANGED <<now, rows, inst, engine, ledger, recent, astray, edits>>

Next ==
    \/ \E t \in Pays : Checkout(t)
    \/ \E g \in Gates : Match(g) \/ FindSubscription(g) \/ Commit(g) \/ GateFails(g)
    \/ \E k \in Checks :
        \/ Lapsed(k) \/ Expire(k) \/ ListConnected(k) \/ Logout(k) \/ Clear(k)
        \/ CheckFails(k)
    \/ \E i \in Insts : Connect(i)
    \/ AdminReads \/ AdminWrites \/ Tick \/ Crash

Spec == Init /\ [][Next]_vars

-----------------------------------------------------------------------------
(* Properties *)

\* Every payment adds its year to what the account had (sms-gateway/route.ts),
\* unless two confirmations overlapped, when the second writes over the first, or
\* a confirmation crossed an expiry, when the next one does not see its row.
NoYearLost == (edits = 0 /\ ~overlapped /\ ~crossed) => \E s \in Rows : sub[s].end >= due

\* And no year is given twice, unless two deliveries confirmed one payment.
NoYearFree == (edits = 0 /\ ~repeated) => \A s \in Rows : sub[s].end <= due

\* The account has a plan for as long as it has paid for, unless the expiry of
\* the session check crossed the confirmation that extends the same row.
PaidMeansPlan == (edits = 0 /\ ~overlapped /\ ~crossed /\ now < due) => HasPlan

\* Once a session check found the plan lapsed, nothing stays CONNECTED but what
\* was connected after it or left by a check that was cut off.
LapsedAreSwept ==
    ( /\ \A s \in Latest(Rows) : sub[s].status = "EXPIRED"
      /\ \A k \in Checks : check[k].pc \notin {"list", "logout"} )
        => Connected \subseteq recent \cup unswept

\* An instance that is DISCONNECTED in the table is logged out at the engine,
\* unless its logout failed or it connected while a check was logging out.
EngineFollows ==
    \A i \in Insts : (inst[i] = "DISCONNECTED" /\ engine[i]) => i \in astray
=============================================================================
