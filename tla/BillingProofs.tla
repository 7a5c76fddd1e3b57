--------------------------- MODULE BillingProofs ---------------------------
(***************************************************************************)
(* Proofs about Billing, for every set of payments, rows, deliveries,      *)
(* checks and instances and every bound.                                   *)
(***************************************************************************)
EXTENDS Billing, TLAPS

\* What deliveries, checks and the administrator hold, and the confirmed payments.
Held ==
    /\ credited = {t \in Pays : pay[t] = "SUCCESSFUL"}
    /\ \A g \in Gates : /\ gate[g].pc # "idle" => gate[g].pay \in Pays
                        /\ gate[g].pc # "commit" => gate[g].found = Nil
    /\ \A g \in Gates : gate[g].pc = "commit" /\ gate[g].found # Nil => gate[g].found \in Rows
    /\ \A k \in Checks : check[k].pc = "expire" => check[k].row \in Rows
    /\ Rows # {}
    /\ edits = 0 => admin = Nil /\ \A s \in Subs : sub[s].status # "CANCELLED"

\* No row, and no end a delivery is about to extend, is past the date paid for.
NoneFree ==
    edits = 0 /\ ~repeated =>
        /\ \A s \in Rows : sub[s].end <= due
        /\ \A g \in Gates : gate[g].pc = "commit" /\ gate[g].found # Nil => gate[g].end <= due

\* Only rows that are over were expired.
ExpiredIsOver ==
    edits = 0 /\ ~crossed => \A s \in Subs : sub[s].status = "EXPIRED" => sub[s].end < now

\* Some row reaches the date paid for, and what a delivery is about to extend is
\* the date paid for, or it was over when the delivery looked.
NoneLost ==
    edits = 0 /\ ~overlapped /\ ~crossed =>
        /\ \E s \in Rows : sub[s].end >= due
        /\ \A g \in Gates : gate[g].pc = "commit" /\ ~gate[g].stale =>
              IF gate[g].found # Nil THEN gate[g].end >= due /\ gate[g].end > gate[g].at
                                     ELSE gate[g].at >= due

\* What a running check has still to do accounts for what is connected.
Sweeping ==
    /\ (\A k \in Checks : check[k].pc \notin {"list", "logout"}) => Connected \subseteq recent \cup unswept
    /\ \A k \in Checks : check[k].pc = "logout" =>
          \A i \in Insts : engine[i] => i \in check[k].todo \cup astray

IInv == TypeOK /\ Held /\ NoneFree /\ ExpiredIsOver /\ NoneLost /\ Sweeping /\ EngineFollows

-----------------------------------------------------------------------------
LEMMA InitInv == Init => IInv
<1> SUFFICES ASSUME Init PROVE IInv
    OBVIOUS
<1> USE BillingAssumption
<1>1. PICK s0 \in Subs :
        sub = [s \in Subs |-> IF s = s0 THEN [status |-> "ACTIVE", end |-> Trial]
                                        ELSE [status |-> "none", end |-> 0]]
    BY DEF Init
<1>2. TypeOK
  <2>1. IdleGate \in GateRecs /\ IdleCheck \in CheckRecs
      BY DEF GateRecs, CheckRecs, IdleGate, IdleCheck
  <2>2. sub \in [Subs -> [status : {"none", "ACTIVE", "EXPIRED", "CANCELLED"}, end : Nat]]
      BY <1>1
  <2>3. gate \in [Gates -> GateRecs] /\ check \in [Checks -> CheckRecs]
      BY <2>1 DEF Init
  <2>4. /\ now \in 0..MaxNow /\ due \in Nat
        /\ edits \in 0..MaxEdits /\ crashes \in 0..MaxCrashes
      BY DEF Init
  <2>5. repeated \in BOOLEAN /\ overlapped \in BOOLEAN /\ crossed \in BOOLEAN
      BY DEF Init
  <2>6. pay \in [Pays -> {"none", "PENDING", "SUCCESSFUL"}]
      BY DEF Init
  <2>7. /\ inst \in [Insts -> {"DISCONNECTED", "CONNECTED"}]
        /\ engine \in [Insts -> BOOLEAN]
      BY DEF Init
  <2> QED
      BY <2>2, <2>3, <2>4, <2>5, <2>6, <2>7 DEF Init, TypeOK
<1>3. Rows = {s0}
    BY <1>1 DEF Rows
<1>4. Held
    BY <1>1, <1>3 DEF Init, Held, IdleGate, IdleCheck
<1>5. NoneFree /\ ExpiredIsOver /\ NoneLost
    BY <1>1, <1>3 DEF Init, NoneFree, ExpiredIsOver, NoneLost, IdleGate
<1>6. Sweeping /\ EngineFollows
    BY DEF Init, Sweeping, EngineFollows, IdleCheck, Connected
<1> QED
    BY <1>2, <1>4, <1>5, <1>6 DEF IInv

LEMMA StutterInv == IInv /\ UNCHANGED vars => IInv'
BY DEF IInv, vars, TypeOK, Held, NoneFree, ExpiredIsOver, NoneLost, Sweeping, EngineFollows, Rows, Connected

-----------------------------------------------------------------------------
(* Steps of a payment *)

LEMMA CheckoutInv == ASSUME IInv, NEW t \in Pays, Checkout(t) PROVE IInv'
<1> USE DEF Checkout, others, ledger, sweep, bounds
<1>1. TypeOK'
    BY DEF IInv, TypeOK
<1>2. Held'
    BY DEF IInv, TypeOK, Held, Rows
<1>3. NoneFree' /\ ExpiredIsOver' /\ NoneLost'
    BY DEF IInv, NoneFree, ExpiredIsOver, NoneLost, Rows
<1>4. Sweeping' /\ EngineFollows'
    BY DEF IInv, Sweeping, EngineFollows, Connected
<1> QED
    BY <1>1, <1>2, <1>3, <1>4 DEF IInv

LEMMA MatchInv == ASSUME IInv, NEW g \in Gates, Match(g) PROVE IInv'
<1> USE DEF Match, rows, others, ledger, sweep, bounds
<1>0. PICK t \in Pays : gate' = [gate EXCEPT ![g].pc = "confirm", ![g].pay = t]
    BY DEF Match
<1>1. TypeOK'
  <2>0. gate[g] \in GateRecs
      BY DEF IInv, TypeOK
  <2>1. [gate[g] EXCEPT !.pc = "confirm", !.pay = t] \in GateRecs
      BY <2>0 DEF GateRecs
  <2>3. gate' = [gate EXCEPT ![g] = [gate[g] EXCEPT !.pc = "confirm", !.pay = t]]
      BY <1>0
  <2>2. gate' \in [Gates -> GateRecs]
      BY <2>1, <2>3 DEF IInv, TypeOK
  <2> QED
      BY <2>2 DEF IInv, TypeOK
<1>2. Held'
    BY <1>0 DEF IInv, TypeOK, GateRecs, Held, Rows
<1>3. NoneFree' /\ ExpiredIsOver' /\ NoneLost'
    BY <1>0 DEF IInv, TypeOK, GateRecs, NoneFree, ExpiredIsOver, NoneLost, Rows
<1>4. Sweeping' /\ EngineFollows'
    BY DEF IInv, Sweeping, EngineFollows, Connected
<1> QED
    BY <1>1, <1>2, <1>3, <1>4 DEF IInv

LEMMA FindSubscriptionInv == ASSUME IInv, NEW g \in Gates, FindSubscription(g) PROVE IInv'
<1> USE DEF others, ledger, sweep, bounds, rows
<1>0. UNCHANGED <<now, rows, check, others, ledger, sweep, bounds>>
    BY DEF FindSubscription
<1>1. CASE HasPlan
  <2>1. PICK s \in Latest(ActiveRows) :
            gate' = [gate EXCEPT ![g].pc = "commit", ![g].found = s,
                                 ![g].end = sub[s].end, ![g].at = now]
      BY <1>1 DEF FindSubscription
  <2>2. s \in Subs /\ sub[s].status = "ACTIVE" /\ s \in Rows /\ s # Nil
      BY BillingAssumption DEF Latest, ActiveRows, Rows
  <2>3. sub[s].end > now /\ sub[s].end \in Nat
      BY <1>1, <2>2 DEF HasPlan, Latest, ActiveRows, IInv, TypeOK
  <2>4. TypeOK'
    <3> DEFINE r == [gate[g] EXCEPT !.pc = "commit", !.found = s, !.end = sub[s].end,
                                    !.at = now]
    <3>0. gate[g] \in GateRecs /\ now \in 0..MaxNow
        BY DEF IInv, TypeOK
    <3>2. r \in GateRecs
        BY <3>0, <2>2, <2>3 DEF GateRecs
    <3>3. gate' = [gate EXCEPT ![g] = r]
        BY <2>1
    <3>1. gate' \in [Gates -> GateRecs]
        BY <3>2, <3>3 DEF IInv, TypeOK
    <3> QED
        BY <1>0, <3>1 DEF IInv, TypeOK
  <2>5. Held'
      BY <1>0, <2>1, <2>2 DEF IInv, TypeOK, GateRecs, Held, Rows
  <2>6. NoneFree' /\ ExpiredIsOver'
      BY <1>0, <2>1, <2>2 DEF IInv, TypeOK, GateRecs, NoneFree, ExpiredIsOver, Rows
  <2>7. edits = 0 /\ ~overlapped /\ ~crossed => sub[s].end >= due
    <3> SUFFICES ASSUME edits = 0, ~overlapped, ~crossed PROVE sub[s].end >= due
        OBVIOUS
    <3>1. PICK r \in Rows : sub[r].end >= due
        BY DEF IInv, NoneLost
    <3>2. CASE sub[r].status = "ACTIVE"
        BY <3>1, <3>2, <2>2 DEF Latest, ActiveRows, IInv, TypeOK, Rows
    <3>3. CASE sub[r].status = "EXPIRED"
        BY <3>1, <3>3, <2>2, <2>3 DEF IInv, TypeOK, Rows, ExpiredIsOver
    <3> QED
        BY <3>1, <3>2, <3>3 DEF IInv, Held, TypeOK, Rows
  <2>8. NoneLost'
      BY <1>0, <2>1, <2>2, <2>3, <2>7 DEF IInv, TypeOK, GateRecs, NoneLost, Rows
  <2>9. Sweeping' /\ EngineFollows'
      BY <1>0 DEF IInv, Sweeping, EngineFollows, Connected
  <2> QED
      BY <2>4, <2>5, <2>6, <2>8, <2>9 DEF IInv
<1>2. CASE ~HasPlan
  <2>1. gate' = [gate EXCEPT ![g].pc = "commit", ![g].at = now]
      BY <1>2 DEF FindSubscription
  <2>0. gate[g].pc = "confirm"
      BY DEF FindSubscription
  <2>2. gate[g].found = Nil
      BY <2>0 DEF IInv, Held
  <2>4. TypeOK'
    <3>0. gate[g] \in GateRecs /\ now \in 0..MaxNow
        BY DEF IInv, TypeOK
    <3>2. [gate[g] EXCEPT !.pc = "commit", !.at = now] \in GateRecs
        BY <3>0 DEF GateRecs
    <3>3. gate' = [gate EXCEPT ![g] = [gate[g] EXCEPT !.pc = "commit", !.at = now]]
        BY <2>1
    <3>1. gate' \in [Gates -> GateRecs]
        BY <3>2, <3>3 DEF IInv, TypeOK
    <3> QED
        BY <1>0, <3>1 DEF IInv, TypeOK
  <2>5. Held'
      BY <1>0, <2>0, <2>1, <2>2 DEF IInv, TypeOK, GateRecs, Held, Rows
  <2>6. NoneFree' /\ ExpiredIsOver'
      BY <1>0, <2>1, <2>2 DEF IInv, TypeOK, GateRecs, NoneFree, ExpiredIsOver, Rows
  <2>7. edits = 0 /\ ~overlapped /\ ~crossed => now >= due
    <3> SUFFICES ASSUME edits = 0, ~overlapped, ~crossed PROVE now >= due
        OBVIOUS
    <3>1. PICK r \in Rows : sub[r].end >= due
        BY DEF IInv, NoneLost
    <3>2. CASE sub[r].status = "ACTIVE"
        BY <1>2, <3>1, <3>2 DEF HasPlan, ActiveRows, IInv, TypeOK, Rows
    <3>3. CASE sub[r].status = "EXPIRED"
        BY <3>1, <3>3 DEF IInv, TypeOK, Rows, ExpiredIsOver
    <3> QED
        BY <3>1, <3>2, <3>3 DEF IInv, Held, TypeOK, Rows
  <2>8. NoneLost'
      BY <1>0, <2>1, <2>2, <2>7 DEF IInv, TypeOK, GateRecs, NoneLost, Rows
  <2>9. Sweeping' /\ EngineFollows'
      BY <1>0 DEF IInv, Sweeping, EngineFollows, Connected
  <2> QED
      BY <2>4, <2>5, <2>6, <2>8, <2>9 DEF IInv
<1> QED
    BY <1>1, <1>2
\* The rows after a confirmation: one, of the end found plus a year or new and of a
\* year, and the others as they were.
Extended(g, f) ==
    /\ f \in Subs
    /\ sub' = [sub EXCEPT ![f] = [status |-> sub'[f].status, end |-> sub'[f].end]]
    /\ \/ /\ f = gate[g].found /\ f \in Rows
          /\ sub'[f].status = sub[f].status /\ sub'[f].end = gate[g].end + Year
       \/ /\ gate[g].found = Nil /\ f \notin Rows
          /\ sub'[f].status = "ACTIVE" /\ sub'[f].end = gate[g].at + Year

LEMMA ExtendOne ==
    ASSUME IInv, NEW g \in Gates, gate[g].pc = "commit", Extend(g, gate[g].end)
    PROVE  \E f \in Subs : Extended(g, f)
<1>1. CASE gate[g].found # Nil
  <2>1. gate[g].found \in Rows /\ gate[g].found \in Subs
      BY <1>1 DEF IInv, Held, Rows
  <2>2. sub' = [sub EXCEPT ![gate[g].found].end = gate[g].end + Year]
      BY <1>1 DEF Extend
  <2>3. sub[gate[g].found] \in [status : {"none", "ACTIVE", "EXPIRED", "CANCELLED"}, end : Nat]
      BY <2>1 DEF IInv, TypeOK
  <2>4. /\ sub'[gate[g].found] = [sub[gate[g].found] EXCEPT !.end = gate[g].end + Year]
        /\ sub' = [sub EXCEPT ![gate[g].found] = sub'[gate[g].found]]
      BY <2>1, <2>2 DEF IInv, TypeOK
  <2>5. /\ sub'[gate[g].found].status = sub[gate[g].found].status
        /\ sub'[gate[g].found].end = gate[g].end + Year
        /\ sub'[gate[g].found] = [status |-> sub'[gate[g].found].status,
                                  end |-> sub'[gate[g].found].end]
      BY <2>3, <2>4
  <2>6. Extended(g, gate[g].found)
      BY <2>1, <2>4, <2>5 DEF Extended
  <2> QED
      BY <2>1, <2>6
<1>2. CASE gate[g].found = Nil
  <2>1. PICK s \in Subs \ Rows :
            sub' = [sub EXCEPT ![s] = [status |-> "ACTIVE", end |-> gate[g].at + Year]]
      BY <1>2 DEF Extend
  <2>2. Extended(g, s)
      BY <1>2, <2>1 DEF IInv, TypeOK, Extended
  <2> QED
      BY <2>1, <2>2
<1> QED
    BY <1>1, <1>2

LEMMA CommitInv == ASSUME IInv, NEW g \in Gates, Commit(g) PROVE IInv'
<1> USE BillingAssumption
<1>0. /\ gate[g].pc = "commit"
      /\ pay' = [pay EXCEPT ![gate[g].pay] = "SUCCESSFUL"]
      /\ UNCHANGED <<now, check, admin, inst, engine, recent, unswept, astray, edits, crashes>>
    BY DEF Commit, others, sweep, bounds
<1>1. PICK f \in Subs : Extended(g, f)
    BY ExtendOne DEF Commit
<1>2. /\ gate[g].pay \in Pays /\ gate[g].end \in Nat /\ gate[g].at \in Nat
      /\ due \in Nat /\ Year \in Nat \ {0}
    BY <1>0 DEF IInv, TypeOK, GateRecs, Held
<1>3. /\ credited' = credited \cup {gate[g].pay}
      /\ due' = IF gate[g].pay \in credited THEN due ELSE Later(due, gate[g].at) + Year
      /\ repeated' = (repeated \/ pay[gate[g].pay] = "SUCCESSFUL")
      /\ overlapped' = (overlapped \/ gate[g].stale)
      /\ crossed' = (crossed \/ (gate[g].found # Nil /\ sub[gate[g].found].status # "ACTIVE"))
      /\ gate' = [h \in Gates |-> IF h = g THEN IdleGate
                                  ELSE [gate[h] EXCEPT !.stale = gate[h].pc = "commit"]]
    BY DEF Commit, Committed
<1>4. /\ Later(due, gate[g].at) \in Nat /\ due' \in Nat /\ due <= due'
      /\ gate[g].pay \notin credited =>
            /\ due' >= due + Year /\ due' >= gate[g].at + Year
            /\ due' = due + Year \/ due' = gate[g].at + Year
    BY <1>2, <1>3 DEF Later
<1>5. /\ \A s \in Subs \ {f} : sub'[s] = sub[s]
      /\ sub' \in [Subs -> [status : {"none", "ACTIVE", "EXPIRED", "CANCELLED"}, end : Nat]]
  <2>1. sub'[f] \in [status : {"none", "ACTIVE", "EXPIRED", "CANCELLED"}, end : Nat]
      BY <1>1, <1>2 DEF Extended, IInv, TypeOK
  <2> QED
      BY <1>1, <2>1 DEF Extended, IInv, TypeOK
<1>6. Rows' = Rows \cup {f}
    BY <1>1, <1>5 DEF Extended, Rows, IInv, TypeOK
<1>7. ASSUME NEW h \in Gates, gate'[h].pc # "idle"
      PROVE  /\ h # g /\ gate[h].pc = gate'[h].pc /\ gate[h].pay = gate'[h].pay
             /\ gate[h].found = gate'[h].found /\ gate[h].end = gate'[h].end
             /\ gate[h].at = gate'[h].at
             /\ gate'[h].pc = "commit" => gate'[h].stale
  <2>1. h # g
      BY <1>3, <1>7 DEF IdleGate
  <2>2. gate'[h] = [gate[h] EXCEPT !.stale = gate[h].pc = "commit"]
      BY <1>3, <2>1
  <2>3. gate[h] \in GateRecs
      BY DEF IInv, TypeOK
  <2> QED
      BY <2>1, <2>2, <2>3 DEF GateRecs
<1>8. \A h \in Gates : gate'[h].pc = "idle" => gate'[h].found = Nil
  <2> SUFFICES ASSUME NEW h \in Gates, gate'[h].pc = "idle" PROVE gate'[h].found = Nil
      OBVIOUS
  <2>1. CASE h = g
      BY <1>3, <2>1 DEF IdleGate
  <2>2. CASE h # g
    <3>1. gate'[h] = [gate[h] EXCEPT !.stale = gate[h].pc = "commit"] /\ gate[h] \in GateRecs
        BY <1>3, <2>2 DEF IInv, TypeOK
    <3>2. gate'[h].pc = gate[h].pc /\ gate'[h].found = gate[h].found
        BY <3>1 DEF GateRecs
    <3> QED
        BY <3>2 DEF IInv, Held
  <2> QED
      BY <2>1, <2>2
<1>9. TypeOK'
  <2>1. gate' \in [Gates -> GateRecs]
    <3>1. IdleGate \in GateRecs
        BY DEF IdleGate, GateRecs
    <3>2. ASSUME NEW h \in Gates
          PROVE  [gate[h] EXCEPT !.stale = gate[h].pc = "commit"] \in GateRecs
      <4>1. gate[h] \in GateRecs /\ (gate[h].pc = "commit") \in BOOLEAN
          BY DEF IInv, TypeOK
      <4> QED
          BY <4>1 DEF GateRecs
    <3> QED
        BY <1>3, <3>1, <3>2
  <2>2. repeated' \in BOOLEAN /\ overlapped' \in BOOLEAN /\ crossed' \in BOOLEAN
    <3>1. repeated \in BOOLEAN /\ overlapped \in BOOLEAN /\ crossed \in BOOLEAN
        BY DEF IInv, TypeOK
    <3>2. gate[g].stale \in BOOLEAN
        BY DEF IInv, TypeOK, GateRecs
    <3> QED
        BY <1>3, <3>1, <3>2
  <2>3. pay' \in [Pays -> {"none", "PENDING", "SUCCESSFUL"}] /\ credited' \subseteq Pays
      BY <1>0, <1>2, <1>3 DEF IInv, TypeOK
  <2> QED
      BY <1>0, <1>4, <1>5, <2>1, <2>2, <2>3 DEF IInv, TypeOK
<1>10. Held'
  <2>1. credited' = {t \in Pays : pay'[t] = "SUCCESSFUL"}
      BY <1>0, <1>2, <1>3 DEF IInv, TypeOK, Held
  <2>2. \A h \in Gates : /\ gate'[h].pc # "idle" => gate'[h].pay \in Pays
                         /\ gate'[h].pc # "commit" => gate'[h].found = Nil
      BY <1>7, <1>8 DEF IInv, Held
  <2>3. \A h \in Gates : gate'[h].pc = "commit" /\ gate'[h].found # Nil => gate'[h].found \in Rows'
      BY <1>6, <1>7 DEF IInv, Held
  <2>4. \A k \in Checks : check'[k].pc = "expire" => check'[k].row \in Rows'
      BY <1>0, <1>6 DEF IInv, Held
  <2>5. edits' = 0 => admin' = Nil /\ \A s \in Subs : sub'[s].status # "CANCELLED"
      BY <1>0, <1>1, <1>5 DEF Extended, IInv, Held
  <2> QED
      BY <1>6, <2>1, <2>2, <2>3, <2>4, <2>5 DEF Held
<1>11. NoneFree'
  <2> SUFFICES ASSUME edits' = 0, ~repeated' PROVE NoneFree'
      BY DEF NoneFree
  <2>1. edits = 0 /\ ~repeated /\ gate[g].pay \notin credited
      BY <1>0, <1>2, <1>3 DEF IInv, Held
  <2>2. sub'[f].end <= due'
    <3>1. CASE f = gate[g].found
      <4>1. gate[g].end <= due /\ sub'[f].end = gate[g].end + Year
          BY <1>0, <1>1, <2>1, <3>1 DEF Extended, IInv, NoneFree
      <4> QED
          BY <1>2, <1>4, <2>1, <4>1
    <3>2. CASE f # gate[g].found
        BY <1>1, <1>2, <1>4, <2>1, <3>2 DEF Extended
    <3> QED
        BY <3>1, <3>2
  <2>3. \A s \in Rows : sub[s].end <= due /\ sub[s].end \in Nat
      BY <2>1 DEF IInv, NoneFree, TypeOK, Rows
  <2>4. \A s \in Rows' : sub'[s].end <= due'
    <3> SUFFICES ASSUME NEW s \in Rows', s # f PROVE sub'[s].end <= due'
        BY <2>2
    <3>1. s \in Rows /\ sub'[s] = sub[s]
        BY <1>5, <1>6 DEF Rows
    <3>2. sub[s].end <= due /\ sub[s].end \in Nat
        BY <2>3, <3>1
    <3> QED
        BY <1>2, <1>4, <3>1, <3>2
  <2>5. \A h \in Gates : gate'[h].pc = "commit" /\ gate'[h].found # Nil => gate'[h].end <= due'
    <3> SUFFICES ASSUME NEW h \in Gates, gate'[h].pc = "commit", gate'[h].found # Nil
                 PROVE  gate'[h].end <= due'
        OBVIOUS
    <3>1. gate[h].pc = "commit" /\ gate[h].found # Nil /\ gate[h].end = gate'[h].end
        BY <1>7
    <3>2. gate[h].end <= due /\ gate[h].end \in Nat
        BY <2>1, <3>1 DEF IInv, NoneFree, TypeOK, GateRecs
    <3> QED
        BY <1>2, <1>4, <3>1, <3>2
  <2> QED
      BY <2>4, <2>5 DEF NoneFree
<1>12. ExpiredIsOver'
  <2> SUFFICES ASSUME edits' = 0, ~crossed', NEW s \in Subs, sub'[s].status = "EXPIRED"
               PROVE  sub'[s].end < now'
      BY DEF ExpiredIsOver
  <2>1. s # f
      BY <1>1, <1>3 DEF Extended
  <2>2. sub'[s] = sub[s] /\ edits = 0 /\ ~crossed
      BY <1>0, <1>3, <1>5, <2>1
  <2> QED
      BY <1>0, <2>2 DEF IInv, ExpiredIsOver
<1>13. NoneLost'
  <2> SUFFICES ASSUME edits' = 0, ~overlapped', ~crossed'
               PROVE  /\ \E s \in Rows' : sub'[s].end >= due'
                      /\ \A h \in Gates : gate'[h].pc = "commit" => gate'[h].stale
      BY DEF NoneLost
  <2>1. edits = 0 /\ ~overlapped /\ ~crossed /\ ~gate[g].stale
      BY <1>0, <1>3
  <2>2. CASE gate[g].found # Nil
    <3>1. gate[g].end >= due /\ gate[g].end > gate[g].at
        BY <1>0, <2>1, <2>2 DEF IInv, NoneLost
    <3>2. sub'[f].end = gate[g].end + Year
        BY <1>1, <2>2 DEF Extended
    <3>3. sub'[f].end >= due'
        BY <1>2, <1>3, <1>4, <3>1, <3>2
    <3> QED
        BY <1>6, <1>7, <3>3
  <2>3. CASE gate[g].found = Nil
    <3>1. gate[g].at >= due
        BY <1>0, <2>1, <2>3 DEF IInv, NoneLost
    <3>2. sub'[f].end = gate[g].at + Year
        BY <1>1, <2>3, BillingAssumption DEF Extended
    <3>3. sub'[f].end >= due'
        BY <1>2, <1>3, <1>4, <3>1, <3>2
    <3> QED
        BY <1>6, <1>7, <3>3
  <2> QED
      BY <2>2, <2>3
<1>14. Sweeping' /\ EngineFollows'
    BY <1>0 DEF IInv, Sweeping, EngineFollows, Connected
<1> QED
    BY <1>9, <1>10, <1>11, <1>12, <1>13, <1>14 DEF IInv

LEMMA GateFailsInv == ASSUME IInv, NEW g \in Gates, GateFails(g) PROVE IInv'
<1> USE DEF GateFails, rows, others, ledger, sweep, bounds
<1> USE BillingAssumption
<1>0. IdleGate \in GateRecs
    BY DEF IdleGate, GateRecs
<1>1. TypeOK'
    BY <1>0 DEF IInv, TypeOK
<1>2. Held'
    BY DEF IInv, TypeOK, Held, Rows, IdleGate
<1>3. NoneFree' /\ ExpiredIsOver' /\ NoneLost'
    BY DEF IInv, TypeOK, NoneFree, ExpiredIsOver, NoneLost, Rows, IdleGate
<1>4. Sweeping' /\ EngineFollows'
    BY DEF IInv, Sweeping, EngineFollows, Connected
<1> QED
    BY <1>1, <1>2, <1>3, <1>4 DEF IInv
-----------------------------------------------------------------------------
(* Steps of a session check *)

LEMMA LapsedInv == ASSUME IInv, NEW k \in Checks, Lapsed(k) PROVE IInv'
<1> USE DEF rows, others, ledger, sweep, bounds
<1>0. PICK s \in Latest(Rows) :
        /\ check[k].pc = "idle"
        /\ check' = [check EXCEPT ![k].pc = "expire", ![k].row = s]
        /\ UNCHANGED <<now, rows, gate, others, ledger, sweep, bounds>>
    BY DEF Lapsed
<1>1. s \in Rows /\ s \in Subs
    BY DEF Latest, Rows
<1>2. TypeOK'
    BY <1>0, <1>1 DEF IInv, TypeOK, CheckRecs
<1>3. Held'
    BY <1>0, <1>1 DEF IInv, TypeOK, CheckRecs, Held, Rows
<1>4. NoneFree' /\ ExpiredIsOver' /\ NoneLost'
    BY <1>0 DEF IInv, NoneFree, ExpiredIsOver, NoneLost, Rows
<1>5. Sweeping' /\ EngineFollows'
    BY <1>0 DEF IInv, TypeOK, CheckRecs, Sweeping, EngineFollows, Connected
<1> QED
    BY <1>2, <1>3, <1>4, <1>5 DEF IInv

LEMMA ExpireInv == ASSUME IInv, NEW k \in Checks, Expire(k) PROVE IInv'
<1> USE DEF others, bounds
<1>0. /\ check[k].pc = "expire"
      /\ sub' = [sub EXCEPT ![check[k].row].status = "EXPIRED"]
      /\ crossed' = (crossed \/ sub[check[k].row].end >= now)
      /\ check' = [check EXCEPT ![k].pc = "list"]
      /\ recent' = {}
      /\ UNCHANGED <<now, pay, gate, others, credited, due, repeated, overlapped, unswept,
                     astray, bounds>>
    BY DEF Expire
<1>1. PICK r \in Subs : r = check[k].row /\ r \in Rows
    BY <1>0 DEF IInv, Held, Rows
<1>2. /\ sub'[r] = [sub[r] EXCEPT !.status = "EXPIRED"]
      /\ \A s \in Subs \ {r} : sub'[s] = sub[s]
      /\ sub[r] \in [status : {"none", "ACTIVE", "EXPIRED", "CANCELLED"}, end : Nat]
    BY <1>0, <1>1 DEF IInv, TypeOK
<1>3. /\ sub'[r].status = "EXPIRED"
      /\ \A s \in Subs : sub'[s].end = sub[s].end
    BY <1>2
<1>4. Rows' = Rows
    BY <1>1, <1>2, <1>3 DEF Rows
<1>5. TypeOK'
  <2>1. check' \in [Checks -> CheckRecs]
      BY <1>0 DEF IInv, TypeOK, CheckRecs
  <2>2. crossed' \in BOOLEAN
    <3>1. (sub[check[k].row].end >= now) \in BOOLEAN /\ crossed \in BOOLEAN
        BY <1>1, <1>2 DEF IInv, TypeOK
    <3> QED
        BY <1>0, <3>1
  <2>3. sub' \in [Subs -> [status : {"none", "ACTIVE", "EXPIRED", "CANCELLED"}, end : Nat]]
      BY <1>0, <1>1, <1>2 DEF IInv, TypeOK
  <2> QED
      BY <1>0, <2>1, <2>2, <2>3 DEF IInv, TypeOK
<1>6. Held'
    BY <1>0, <1>2, <1>3, <1>4 DEF IInv, TypeOK, CheckRecs, Held
<1>7. NoneFree'
    BY <1>0, <1>3, <1>4 DEF IInv, NoneFree, Rows
<1>8. ExpiredIsOver'
  <2> SUFFICES ASSUME edits = 0, ~crossed', NEW s \in Subs, sub'[s].status = "EXPIRED"
               PROVE  sub'[s].end < now
      BY <1>0 DEF ExpiredIsOver
  <2>3. crossed' = (crossed \/ sub[r].end >= now)
      BY <1>0, <1>1
  <2>4. ~(sub[r].end >= now)
      BY <2>3
  <2>5. sub[r].end \in Nat /\ now \in Nat
      BY <1>2, BillingAssumption DEF IInv, TypeOK
  <2>0. sub[r].end < now
      BY <2>4, <2>5
  <2>1. CASE s = r
      BY <1>3, <2>0, <2>1
  <2>2. CASE s # r
      BY <1>0, <1>2, <2>2 DEF IInv, ExpiredIsOver
  <2> QED
      BY <2>1, <2>2
<1>9. NoneLost'
    BY <1>0, <1>3, <1>4 DEF IInv, NoneLost, Rows
<1>10. Sweeping' /\ EngineFollows'
  <2>1. check'[k].pc = "list"
      BY <1>0 DEF IInv, TypeOK, CheckRecs
  <2>2. \A j \in Checks : check'[j].pc = "logout" => check[j].pc = "logout" /\ check'[j] = check[j]
      BY <1>0, <2>1 DEF IInv, TypeOK
  <2> QED
      BY <1>0, <2>1, <2>2 DEF IInv, Sweeping, EngineFollows
<1> QED
    BY <1>5, <1>6, <1>7, <1>8, <1>9, <1>10 DEF IInv

LEMMA ListConnectedInv == ASSUME IInv, NEW k \in Checks, ListConnected(k) PROVE IInv'
<1> USE DEF rows, others, ledger, sweep, bounds
<1>0. /\ check[k].pc = "list"
      /\ check' = [check EXCEPT ![k].pc = "logout", ![k].todo = Connected]
      /\ UNCHANGED <<now, rows, gate, others, ledger, sweep, bounds>>
    BY DEF ListConnected
<1>1. TypeOK'
    BY <1>0 DEF IInv, TypeOK, CheckRecs, Connected
<1>2. Held'
    BY <1>0 DEF IInv, TypeOK, CheckRecs, Held, Rows
<1>3. NoneFree' /\ ExpiredIsOver' /\ NoneLost'
    BY <1>0 DEF IInv, NoneFree, ExpiredIsOver, NoneLost, Rows
<1>4. EngineFollows'
    BY <1>0 DEF IInv, EngineFollows
<1>5. check'[k].pc = "logout" /\ check'[k].todo = Connected /\ \A j \in Checks \ {k} : check'[j] = check[j]
    BY <1>0 DEF IInv, TypeOK, CheckRecs
<1>6. \A i \in Insts : engine[i] => i \in Connected \cup astray
    BY DEF IInv, TypeOK, EngineFollows, Connected
<1>7. Sweeping'
    BY <1>0, <1>5, <1>6 DEF IInv, Sweeping
<1> QED
    BY <1>1, <1>2, <1>3, <1>4, <1>7 DEF IInv

LEMMA LogoutInv == ASSUME IInv, NEW k \in Checks, Logout(k) PROVE IInv'
<1> USE DEF rows, ledger, bounds
<1>0. PICK i \in check[k].todo :
        /\ check[k].pc = "logout"
        /\ check' = [check EXCEPT ![k].todo = @ \ {i}]
        /\ \/ engine' = [engine EXCEPT ![i] = FALSE] /\ astray' = astray \ {i}
           \/ UNCHANGED engine /\ astray' = astray \cup {i}
        /\ UNCHANGED <<now, rows, gate, admin, inst, ledger, recent, unswept, bounds>>
    BY DEF Logout
<1>1. i \in Insts
    BY <1>0 DEF IInv, TypeOK, CheckRecs
<1>2. TypeOK'
  <2>1. engine' \in [Insts -> BOOLEAN]
      BY <1>0 DEF IInv, TypeOK
  <2>2. check' \in [Checks -> CheckRecs]
      BY <1>0 DEF IInv, TypeOK, CheckRecs
  <2>3. astray' \subseteq Insts
      BY <1>0, <1>1 DEF IInv, TypeOK
  <2> QED
      BY <1>0, <2>1, <2>2, <2>3 DEF IInv, TypeOK
<1>3. Held'
    BY <1>0 DEF IInv, TypeOK, CheckRecs, Held, Rows
<1>4. NoneFree' /\ ExpiredIsOver' /\ NoneLost'
    BY <1>0 DEF IInv, NoneFree, ExpiredIsOver, NoneLost, Rows
<1>5. \A j \in Checks : /\ check'[j].pc = check[j].pc
                        /\ check[j].todo \subseteq check'[j].todo \cup {i}
    BY <1>0 DEF IInv, TypeOK, CheckRecs
<1>6. \A x \in Insts : /\ engine'[x] => engine[x]
                       /\ engine'[x] /\ x = i => i \in astray'
                       /\ x # i /\ x \in astray => x \in astray'
    BY <1>0, <1>1 DEF IInv, TypeOK
<1>7. EngineFollows'
    BY <1>0, <1>6 DEF IInv, EngineFollows
<1>8. Sweeping'
  <2>1. (\A j \in Checks : check'[j].pc \notin {"list", "logout"})
            => Connected' \subseteq recent' \cup unswept'
      BY <1>0, <1>5 DEF IInv, Sweeping, Connected
  <2>2. \A j \in Checks : check'[j].pc = "logout" =>
            \A x \in Insts : engine'[x] => x \in check'[j].todo \cup astray'
      BY <1>5, <1>6 DEF IInv, Sweeping
  <2> QED
      BY <2>1, <2>2 DEF Sweeping
<1> QED
    BY <1>2, <1>3, <1>4, <1>7, <1>8 DEF IInv

LEMMA ClearInv == ASSUME IInv, NEW k \in Checks, Clear(k) PROVE IInv'
<1> USE DEF rows, ledger, sweep, bounds
<1>0. /\ check[k].pc = "logout" /\ check[k].todo = {}
      /\ inst' = [i \in Insts |-> "DISCONNECTED"]
      /\ check' = [check EXCEPT ![k] = IdleCheck]
      /\ UNCHANGED <<now, rows, gate, admin, engine, ledger, sweep, bounds>>
    BY DEF Clear
<1>1. IdleCheck \in CheckRecs
    BY DEF IdleCheck, CheckRecs
<1>2. TypeOK'
    BY <1>0, <1>1 DEF IInv, TypeOK
<1>3. \A j \in Checks : check'[j] = check[j] \/ check'[j] = IdleCheck
    BY <1>0 DEF IInv, TypeOK
<1>4. Held'
    BY <1>0, <1>3 DEF IInv, Held, Rows, IdleCheck
<1>5. NoneFree' /\ ExpiredIsOver' /\ NoneLost'
    BY <1>0 DEF IInv, NoneFree, ExpiredIsOver, NoneLost, Rows
<1>6. EngineFollows'
    BY <1>0 DEF IInv, Sweeping, EngineFollows
<1>7. Connected' = {}
    BY <1>0 DEF Connected
<1>8. Sweeping'
    BY <1>0, <1>3, <1>7 DEF IInv, Sweeping, IdleCheck
<1> QED
    BY <1>2, <1>4, <1>5, <1>6, <1>8 DEF IInv

LEMMA CheckFailsInv == ASSUME IInv, NEW k \in Checks, CheckFails(k) PROVE IInv'
<1> USE DEF rows, others, ledger, bounds
<1>0. /\ check[k].pc # "idle"
      /\ check' = [check EXCEPT ![k] = IdleCheck]
      /\ unswept' = IF check[k].pc = "expire" THEN unswept ELSE unswept \cup Connected
      /\ UNCHANGED <<now, rows, gate, others, ledger, recent, astray, bounds>>
    BY DEF CheckFails
<1>1. IdleCheck \in CheckRecs
    BY DEF IdleCheck, CheckRecs
<1>2. TypeOK'
    BY <1>0, <1>1 DEF IInv, TypeOK, Connected
<1>3. /\ check'[k] = IdleCheck
      /\ \A j \in Checks \ {k} : check'[j] = check[j]
    BY <1>0 DEF IInv, TypeOK
<1>4. Held'
    BY <1>0, <1>3 DEF IInv, Held, Rows, IdleCheck
<1>5. NoneFree' /\ ExpiredIsOver' /\ NoneLost'
    BY <1>0 DEF IInv, NoneFree, ExpiredIsOver, NoneLost, Rows
<1>6. EngineFollows'
    BY <1>0 DEF IInv, EngineFollows
<1>7. Sweeping'
    BY <1>0, <1>3 DEF IInv, Sweeping, IdleCheck, Connected
<1> QED
    BY <1>2, <1>4, <1>5, <1>6, <1>7 DEF IInv

-----------------------------------------------------------------------------
(* Steps of the surroundings *)

LEMMA ConnectInv == ASSUME IInv, NEW i \in Insts, Connect(i) PROVE IInv'
<1> USE DEF rows, ledger, bounds
<1>0. /\ inst[i] = "DISCONNECTED"
      /\ inst' = [inst EXCEPT ![i] = "CONNECTED"]
      /\ engine' = [engine EXCEPT ![i] = TRUE]
      /\ recent' = recent \cup {i}
      /\ astray' = IF \E k \in Checks : check[k].pc = "logout"
                   THEN astray \cup {i} ELSE astray \ {i}
      /\ UNCHANGED <<now, rows, gate, check, admin, ledger, unswept, bounds>>
    BY DEF Connect
<1>1. TypeOK'
  <2>1. engine' \in [Insts -> BOOLEAN]
      BY <1>0 DEF IInv, TypeOK
  <2> QED
      BY <1>0, <2>1 DEF IInv, TypeOK
<1>2. Held'
    BY <1>0 DEF IInv, Held, Rows
<1>3. NoneFree' /\ ExpiredIsOver' /\ NoneLost'
    BY <1>0 DEF IInv, NoneFree, ExpiredIsOver, NoneLost, Rows
<1>4. /\ inst'[i] = "CONNECTED"
      /\ \A x \in Insts \ {i} : /\ inst'[x] = inst[x] /\ engine'[x] = engine[x]
                                /\ x \in astray' <=> x \in astray
    BY <1>0 DEF IInv, TypeOK
<1>5. EngineFollows'
    BY <1>4 DEF IInv, EngineFollows
<1>6. Connected' = Connected \cup {i}
    BY <1>0, <1>4 DEF Connected
<1>7. Sweeping'
  <2>1. (\A k \in Checks : check'[k].pc \notin {"list", "logout"})
            => Connected' \subseteq recent' \cup unswept'
      BY <1>0, <1>6 DEF IInv, Sweeping
  <2>2. ASSUME NEW k \in Checks, check'[k].pc = "logout", NEW x \in Insts, engine'[x]
        PROVE  x \in check'[k].todo \cup astray'
    <3>1. CASE x = i
        BY <1>0, <2>2, <3>1
    <3>2. CASE x # i
        BY <1>0, <1>4, <2>2, <3>2 DEF IInv, Sweeping
    <3> QED
        BY <3>1, <3>2
  <2> QED
      BY <2>1, <2>2 DEF Sweeping
<1> QED
    BY <1>1, <1>2, <1>3, <1>5, <1>7 DEF IInv

LEMMA AdminReadsInv == ASSUME IInv, AdminReads PROVE IInv'
<1> USE DEF rows, ledger, sweep
<1>0. /\ edits < MaxEdits /\ edits' = edits + 1
      /\ UNCHANGED <<now, rows, gate, check, inst, engine, ledger, sweep, crashes>>
    BY DEF AdminReads
<1>1. edits' \in 0..MaxEdits /\ edits' # 0
    BY <1>0, BillingAssumption DEF IInv, TypeOK
<1>2. admin' \in [row : Subs, status : {"ACTIVE", "EXPIRED", "CANCELLED"}, end : Nat]
  <2>1. PICK s \in Latest(Rows) :
          \E t \in {sub[s].status, "ACTIVE", "EXPIRED", "CANCELLED"}, e \in {sub[s].end, now + Year} :
            admin' = [row |-> s, status |-> t, end |-> e]
      BY DEF AdminReads
  <2>2. s \in Subs /\ sub[s].status # "none"
      BY DEF Latest, Rows
  <2>3. sub[s].status \in {"ACTIVE", "EXPIRED", "CANCELLED"} /\ sub[s].end \in Nat /\ now + Year \in Nat
      BY <2>2, BillingAssumption DEF IInv, TypeOK
  <2> QED
      BY <2>1, <2>2, <2>3
<1>3. TypeOK'
    BY <1>0, <1>1, <1>2 DEF IInv, TypeOK
<1>4. Held' /\ NoneFree' /\ ExpiredIsOver' /\ NoneLost'
    BY <1>0, <1>1 DEF IInv, Held, NoneFree, ExpiredIsOver, NoneLost, Rows
<1>5. Sweeping' /\ EngineFollows'
    BY <1>0 DEF IInv, Sweeping, EngineFollows, Connected
<1> QED
    BY <1>3, <1>4, <1>5 DEF IInv

LEMMA AdminWritesInv == ASSUME IInv, AdminWrites PROVE IInv'
<1> USE DEF ledger, bounds
<1>0. /\ admin # Nil
      /\ sub' = [sub EXCEPT ![admin.row] = [status |-> admin.status, end |-> admin.end]]
      /\ admin' = Nil
      /\ unswept' = unswept \cup Connected
      /\ UNCHANGED <<now, pay, gate, check, inst, engine, ledger, recent, astray, bounds>>
    BY DEF AdminWrites
<1>1. admin \in [row : Subs, status : {"ACTIVE", "EXPIRED", "CANCELLED"}, end : Nat]
    BY <1>0 DEF IInv, TypeOK
<1>2. edits # 0 /\ edits' # 0
    BY <1>0 DEF IInv, Held
<1>3. TypeOK'
    BY <1>0, <1>1 DEF IInv, TypeOK, Connected
<1>4. Rows' = Rows \cup {admin.row}
    BY <1>0, <1>1 DEF IInv, TypeOK, Rows
<1>5. Held'
    BY <1>0, <1>2, <1>4 DEF IInv, Held
<1>6. NoneFree' /\ ExpiredIsOver' /\ NoneLost'
    BY <1>2 DEF NoneFree, ExpiredIsOver, NoneLost
<1>7. Sweeping' /\ EngineFollows'
    BY <1>0 DEF IInv, Sweeping, EngineFollows, Connected
<1> QED
    BY <1>3, <1>5, <1>6, <1>7 DEF IInv

LEMMA TickInv == ASSUME IInv, Tick PROVE IInv'
<1> USE DEF Tick, rows, others, ledger, sweep, bounds
<1>0. now' \in 0..MaxNow /\ now' \in Nat /\ now \in Nat /\ now < now'
    BY BillingAssumption DEF IInv, TypeOK
<1>1. TypeOK'
    BY <1>0 DEF IInv, TypeOK
<1>2. Held' /\ NoneFree' /\ NoneLost'
    BY DEF IInv, Held, NoneFree, NoneLost, Rows
<1>3. ExpiredIsOver'
    BY <1>0 DEF IInv, TypeOK, ExpiredIsOver
<1>4. Sweeping' /\ EngineFollows'
    BY DEF IInv, Sweeping, EngineFollows, Connected
<1> QED
    BY <1>1, <1>2, <1>3, <1>4 DEF IInv

LEMMA CrashInv == ASSUME IInv, Crash PROVE IInv'
<1> USE DEF rows, ledger
<1>0. /\ crashes < MaxCrashes /\ crashes' = crashes + 1
      /\ gate' = [g \in Gates |-> IdleGate]
      /\ check' = [k \in Checks |-> IdleCheck]
      /\ admin' = Nil
      /\ unswept' = IF \E k \in Checks : check[k].pc \in {"list", "logout"}
                    THEN unswept \cup Connected ELSE unswept
      /\ UNCHANGED <<now, rows, inst, engine, ledger, recent, astray, edits>>
    BY DEF Crash
<1>1. IdleGate \in GateRecs /\ IdleCheck \in CheckRecs
    BY BillingAssumption DEF IdleGate, IdleCheck, GateRecs, CheckRecs
<1>2. crashes' \in 0..MaxCrashes
    BY <1>0, BillingAssumption DEF IInv, TypeOK
<1>3. TypeOK'
    BY <1>0, <1>1, <1>2 DEF IInv, TypeOK, Connected
<1>4. Held' /\ NoneFree' /\ ExpiredIsOver' /\ NoneLost'
    BY <1>0 DEF IInv, Held, NoneFree, ExpiredIsOver, NoneLost, Rows, IdleGate, IdleCheck
<1>5. EngineFollows'
    BY <1>0 DEF IInv, EngineFollows
<1>6. Connected \subseteq recent' \cup unswept'
    BY <1>0 DEF IInv, Sweeping
<1>7. Sweeping'
    BY <1>0, <1>6 DEF Sweeping, IdleCheck, Connected
<1> QED
    BY <1>3, <1>4, <1>5, <1>7 DEF IInv

-----------------------------------------------------------------------------
LEMMA NextInv == IInv /\ [Next]_vars => IInv'
<1> SUFFICES ASSUME IInv, [Next]_vars PROVE IInv'
    OBVIOUS
<1>1. CASE \E t \in Pays : Checkout(t)
    BY <1>1, CheckoutInv
<1>2. CASE \E g \in Gates : Match(g) \/ FindSubscription(g) \/ Commit(g) \/ GateFails(g)
    BY <1>2, MatchInv, FindSubscriptionInv, CommitInv, GateFailsInv
<1>3. CASE \E k \in Checks : \/ Lapsed(k) \/ Expire(k) \/ ListConnected(k) \/ Logout(k)
                             \/ Clear(k) \/ CheckFails(k)
    BY <1>3, LapsedInv, ExpireInv, ListConnectedInv, LogoutInv, ClearInv, CheckFailsInv
<1>4. CASE \E i \in Insts : Connect(i)
    BY <1>4, ConnectInv
<1>5. CASE AdminReads \/ AdminWrites \/ Tick \/ Crash
    BY <1>5, AdminReadsInv, AdminWritesInv, TickInv, CrashInv
<1>6. CASE UNCHANGED vars
    BY <1>6, StutterInv
<1> QED
    BY <1>1, <1>2, <1>3, <1>4, <1>5, <1>6 DEF Next

\* The inductive invariant holds in every reachable state.
THEOREM Invariance == Spec => []IInv
<1>1. Init => IInv
    BY InitInv
<1>2. IInv /\ [Next]_vars => IInv'
    BY NextInv
<1> QED
    BY <1>1, <1>2, PTL DEF Spec

\* Type correctness of the tables, deliveries, checks and edits.
THEOREM TypeCorrect == Spec => []TypeOK
<1>1. IInv => TypeOK
    BY DEF IInv
<1> QED
    BY <1>1, Invariance, PTL

\* A paid year is lost only when two confirmations overlap or a confirmation
\* crosses an expiry (sms-gateway/route.ts:75-125).
THEOREM NoYearLostAlways == Spec => []NoYearLost
<1>1. IInv => NoYearLost
    BY DEF IInv, NoneLost, NoYearLost
<1> QED
    BY <1>1, Invariance, PTL

\* A year is given for nothing only when two deliveries confirm one payment.
THEOREM NoYearFreeAlways == Spec => []NoYearFree
<1>1. IInv => NoYearFree
    BY DEF IInv, NoneFree, NoYearFree
<1> QED
    BY <1>1, Invariance, PTL

\* Outside those crossings the account has a plan for as long as it has paid for:
\* the row that reaches the date paid for has not ended, so nothing expired it.
THEOREM PaidMeansPlanAlways == Spec => []PaidMeansPlan
<1>1. IInv => PaidMeansPlan
  <2> SUFFICES ASSUME IInv, edits = 0, ~overlapped, ~crossed, now < due PROVE HasPlan
      BY DEF PaidMeansPlan
  <2>1. PICK s \in Rows : sub[s].end >= due
      BY DEF IInv, NoneLost
  <2>2. s \in Subs /\ sub[s].end \in Nat /\ now \in Nat /\ due \in Nat
      BY DEF Rows, IInv, TypeOK
  <2>3. sub[s].end > now
      BY <2>1, <2>2
  <2>4. sub[s].status # "EXPIRED"
      BY <2>2, <2>3 DEF IInv, ExpiredIsOver
  <2>5. sub[s].status = "ACTIVE"
      BY <2>2, <2>4 DEF IInv, Held, TypeOK, Rows
  <2> QED
      BY <2>2, <2>3, <2>5 DEF HasPlan, ActiveRows
<1> QED
    BY <1>1, Invariance, PTL

\* Nothing stays CONNECTED behind a session check that found the plan lapsed, but
\* what connected after it or was left by a check that was cut off.
THEOREM LapsedAreSweptAlways == Spec => []LapsedAreSwept
<1>1. IInv => LapsedAreSwept
    BY DEF IInv, Sweeping, LapsedAreSwept
<1> QED
    BY <1>1, Invariance, PTL

\* An instance that is DISCONNECTED in the table is logged out at the engine,
\* unless its logout failed or it connected under a check.
THEOREM EngineFollowsAlways == Spec => []EngineFollows
<1>1. IInv => EngineFollows
    BY DEF IInv
<1> QED
    BY <1>1, Invariance, PTL
=============================================================================
