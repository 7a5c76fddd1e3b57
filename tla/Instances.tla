----------------------------- MODULE Instances -----------------------------
(***************************************************************************)
(* The WhatsApp instances of the portal's accounts: creation, pairing,     *)
(* status polls, connection events, logout and deletion                    *)
(* (app/api/instances, app/api/webhooks/whatsapp/route.ts), and the rule   *)
(* that a phone number is connected for one account (checkConflict in      *)
(* lib/whatsapp.ts).                                                       *)
(*                                                                         *)
(* One action per await of a request or webhook.  The engine is external:  *)
(* it keeps a client for every instance it was asked to create, and the    *)
(* phone number that is logged in on it.  Its events arrive late, repeated *)
(* and out of order, so an event is anything that happened to a client.    *)
(***************************************************************************)
EXTENDS Integers, FiniteSets

CONSTANTS
    Accounts,     \* accounts of the portal
    Insts,        \* instance ids that may ever be created
    OwnerOf,      \* the account that creates an instance
    Phones,       \* phone numbers
    Reqs,         \* requests and webhooks that may be in progress together
    Limit,        \* instances an account's plan allows
    MaxCrashes,   \* bound: restarts of the Node process
    Nil

ASSUME InstancesAssumption ==
    /\ OwnerOf \in [Insts -> Accounts]
    /\ IsFiniteSet(Insts)
    /\ Nil \notin Insts \cup Phones
    /\ Limit \in Nat /\ MaxCrashes \in Nat

VARIABLES
    status,      \* WhatsAppInstance.status; "none" before creation, "gone" after deletion
    jid,         \* WhatsAppInstance.jid
    client,      \* the engine's client of an instance: exists, and the number logged in
    happened,    \* the numbers a client has been logged in with
    req,         \* requests and webhooks in progress
    (* observers: they never guard a step of the program *)
    crossed,     \* numbers written as connected after a check that another connection
                 \* overtook, or by the QR request (it does not check) when taken
    crowded,     \* accounts with two creations that overlapped
    strays,      \* instances whose creation or deletion got no further than half-way
    astray,      \* instances whose forced logout failed, or that were paired after it
    crashes

vars == <<status, jid, client, happened, req, crossed, crowded, strays, astray, crashes>>

Registered == {"DISCONNECTED", "CONNECTED", "CONFLICT"}

\* seen, known: the status and the number a poll read in the row.  live: the
\* number of the event, or of the engine's answer.  stale: another connection of
\* the number (creation of the account) was written since this request checked.
IdleReq == [pc |-> "idle", inst |-> Nil, seen |-> "none", known |-> Nil, live |-> Nil,
            stale |-> FALSE]

ReqPcs == {"idle", "poll", "check", "kick", "conflict", "write", "clear", "reset", "pair",
           "answer", "writeQr", "logout", "engineDelete", "rowDelete", "engineCreate",
           "rowCreate"}

ReqRecs == [pc : ReqPcs, inst : Insts \cup {Nil}, seen : Registered \cup {"none"},
            known : Phones \cup {Nil}, live : Phones \cup {Nil}, stale : BOOLEAN]

TypeOK ==
    /\ status \in [Insts -> Registered \cup {"none", "gone"}]
    /\ jid \in [Insts -> Phones \cup {Nil}]
    /\ client \in [Insts -> [exists : BOOLEAN, phone : Phones \cup {Nil}]]
    /\ happened \in [Insts -> SUBSET Phones]
    /\ req \in [Reqs -> ReqRecs]
    /\ crossed \subseteq Phones
    /\ crowded \subseteq Accounts
    /\ strays \subseteq Insts /\ astray \subseteq Insts
    /\ crashes \in 0..MaxCrashes

NoClient == [exists |-> FALSE, phone |-> Nil]

Init ==
    /\ status = [i \in Insts |-> "none"]
    /\ jid = [i \in Insts |-> Nil]
    /\ client = [i \in Insts |-> NoClient]
    /\ happened = [i \in Insts |-> {}]
    /\ req = [q \in Reqs |-> IdleReq]
    /\ crossed = {} /\ crowded = {} /\ strays = {} /\ astray = {}
    /\ crashes = 0

-----------------------------------------------------------------------------
(* Helpers *)

Exists(i) == status[i] \in Registered
RowsOf(u) == {i \in Insts : Exists(i) /\ OwnerOf[i] = u}
\* What checkConflict looks for: the number, connected for another account.
Taken(i, p) ==
    \E j \in Insts : OwnerOf[j] # OwnerOf[i] /\ status[j] = "CONNECTED" /\ jid[j] = p

row == <<status, jid>>
engine == <<client, happened>>
observers == <<crossed, crowded, strays, astray, crashes>>

EndReq(q) == req' = [req EXCEPT ![q] = IdleReq]
Goto(q, pc) == req' = [req EXCEPT ![q].pc = pc]
\* A request writes p as connected: requests that checked p before are stale now.
Overtakes(q, p) ==
    req' = [r \in Reqs |->
              IF r = q THEN IdleReq
              ELSE [req[r] EXCEPT !.stale = @ \/ (req[r].pc = "write" /\ req[r].live = p)]]

-----------------------------------------------------------------------------
(* Status polls and connection events *)

\* GET status: the row as it is; a CONFLICT is answered at once.
Poll(q) ==
    /\ req[q].pc = "idle"
    /\ \E i \in Insts :
        /\ Exists(i) /\ status[i] # "CONFLICT"
        /\ req' = [req EXCEPT ![q] = [IdleReq EXCEPT !.pc = "poll", !.inst = i,
                                                !.seen = status[i], !.known = jid[i]]]
    /\ UNCHANGED <<row, engine, observers>>

\* The engine's answer: the number logged in, or none.
PollAnswered(q) ==
    LET i == req[q].inst
        p == client[i].phone
    IN
    /\ req[q].pc = "poll"
    /\ IF p # Nil
       THEN req' = [req EXCEPT ![q].pc = "check", ![q].live = p]
       ELSE IF req[q].seen = "DISCONNECTED" THEN EndReq(q) ELSE Goto(q, "clear")
    /\ UNCHANGED <<row, engine, observers>>

\* Nothing is logged in: update DISCONNECTED, the number stays in the row.
PollClears(q) ==
    LET i == req[q].inst IN
    /\ req[q].pc = "clear" /\ Exists(i)
    /\ status' = [status EXCEPT ![i] = "DISCONNECTED"]
    /\ EndReq(q)
    /\ UNCHANGED <<jid, engine, observers>>

\* The webhook of Connected and PairSuccess: the number the event carries.
ConnectedEvent(q) ==
    /\ req[q].pc = "idle"
    /\ \E i \in Insts : \E p \in happened[i] :
        /\ Exists(i)
        /\ req' = [req EXCEPT ![q] = [IdleReq EXCEPT !.pc = "check", !.inst = i, !.live = p]]
    /\ UNCHANGED <<row, engine, observers>>

\* Slip: only the account's own instances are searched.
CheckOwn(q) ==
    LET i == req[q].inst
        p == req[q].live
    IN
    /\ req[q].pc = "check"
    /\ IF \E j \in RowsOf(OwnerOf[i]) \ {i} : status[j] = "CONNECTED" /\ jid[j] = p
       THEN Goto(q, "kick") ELSE Goto(q, "write")
    /\ UNCHANGED <<row, engine, observers>>

\* checkConflict's findMany.  A poll that agrees with the row it read is done.
Check(q) ==
    /\ req[q].pc = "check"
    /\ CASE Taken(req[q].inst, req[q].live) -> Goto(q, "kick")
         [] req[q].seen = "CONNECTED" /\ req[q].known = req[q].live -> EndReq(q)
         [] OTHER -> Goto(q, "write")
    /\ UNCHANGED <<row, engine, observers>>

\* Slip: no logout.
KickSkipped(q) ==
    /\ req[q].pc = "kick"
    /\ Goto(q, "conflict")
    /\ UNCHANGED <<row, engine, observers>>

\* The number belongs to another account: this instance is logged out, or the
\* engine's error is passed over ...
Kick(q) ==
    LET i == req[q].inst IN
    /\ req[q].pc = "kick"
    /\ \/ client' = [client EXCEPT ![i].phone = Nil] /\ astray' = astray \ {i}
       \/ client[i].phone # Nil /\ UNCHANGED client /\ astray' = astray \cup {i}
    /\ Goto(q, "conflict")
    /\ UNCHANGED <<row, happened, crossed, crowded, strays, crashes>>

\* ... and marked CONFLICT without a number.
MarkConflict(q) ==
    LET i == req[q].inst IN
    /\ req[q].pc = "conflict" /\ Exists(i)
    /\ status' = [status EXCEPT ![i] = "CONFLICT"]
    /\ jid' = [jid EXCEPT ![i] = Nil]
    /\ EndReq(q)
    /\ UNCHANGED <<engine, observers>>

\* update CONNECTED with the number, some awaits after the check.
Write(q) ==
    LET i == req[q].inst
        p == req[q].live
    IN
    /\ req[q].pc = "write" /\ Exists(i)
    /\ status' = [status EXCEPT ![i] = "CONNECTED"]
    /\ jid' = [jid EXCEPT ![i] = p]
    /\ crossed' = IF req[q].stale THEN crossed \cup {p} ELSE crossed
    /\ Overtakes(q, p)
    /\ UNCHANGED <<engine, crowded, strays, astray, crashes>>

\* The poll of the whole list updates the number alone where the row it read was
\* CONNECTED.
ListWrites(q) ==
    LET i == req[q].inst
        p == req[q].live
        connected == status[i] = "CONNECTED"
    IN
    /\ req[q].pc = "write" /\ req[q].seen = "CONNECTED" /\ Exists(i)
    /\ jid' = [jid EXCEPT ![i] = p]
    /\ crossed' = IF req[q].stale /\ connected THEN crossed \cup {p} ELSE crossed
    /\ IF connected THEN Overtakes(q, p) ELSE EndReq(q)
    /\ UNCHANGED <<status, engine, crowded, strays, astray, crashes>>

\* The webhook of Disconnected, LoggedOut, ConnectFailure and QRTimeout.
DisconnectedEvent(q) ==
    /\ req[q].pc = "idle"
    /\ \E i \in Insts :
        /\ Exists(i)
        /\ req' = [req EXCEPT ![q] = [IdleReq EXCEPT !.pc = "clear", !.inst = i]]
    /\ UNCHANGED <<row, engine, observers>>

-----------------------------------------------------------------------------
(* Pairing and logout *)

\* GET qr, the account's plan being ACTIVE.
Qr(q) ==
    /\ req[q].pc = "idle"
    /\ \E i \in Insts :
        /\ Exists(i)
        /\ req' = [req EXCEPT ![q] = [IdleReq EXCEPT !.inst = i,
                      !.pc = IF status[i] = "CONFLICT" THEN "reset" ELSE "pair"]]
    /\ UNCHANGED <<row, engine, observers>>

\* A CONFLICT is lifted.
QrResets(q) ==
    LET i == req[q].inst IN
    /\ req[q].pc = "reset" /\ Exists(i)
    /\ status' = [status EXCEPT ![i] = "DISCONNECTED"]
    /\ Goto(q, "pair")
    /\ UNCHANGED <<jid, engine, observers>>

\* The engine shows a code, which ends the request, or is logged in already.
QrShown(q) ==
    /\ req[q].pc = "pair"
    /\ IF client[req[q].inst].phone = Nil THEN EndReq(q) ELSE Goto(q, "answer")
    /\ UNCHANGED <<row, engine, observers>>

\* getStatus, by when the client may be logged out again.
QrAnswered(q) ==
    /\ req[q].pc = "answer"
    /\ req' = [req EXCEPT ![q].pc = "writeQr", ![q].live = client[req[q].inst].phone]
    /\ UNCHANGED <<row, engine, observers>>

\* update CONNECTED, without checkConflict; a number the engine did not name is
\* left as it was.
QrWrites(q) ==
    LET i == req[q].inst
        p == IF req[q].live # Nil THEN req[q].live ELSE jid[i]
    IN
    /\ req[q].pc = "writeQr" /\ Exists(i)
    /\ status' = [status EXCEPT ![i] = "CONNECTED"]
    /\ jid' = [jid EXCEPT ![i] = p]
    /\ crossed' = IF p # Nil /\ Taken(i, p) THEN crossed \cup {p} ELSE crossed
    /\ Overtakes(q, p)
    /\ UNCHANGED <<engine, crowded, strays, astray, crashes>>

\* POST logout; the engine's error is passed over, the number stays in the row.
Logout(q) ==
    /\ req[q].pc = "idle"
    /\ \E i \in Insts :
        /\ Exists(i)
        /\ req' = [req EXCEPT ![q] = [IdleReq EXCEPT !.pc = "logout", !.inst = i]]
    /\ UNCHANGED <<row, engine, observers>>

LogoutAnswered(q) ==
    /\ req[q].pc = "logout"
    /\ \/ client' = [client EXCEPT ![req[q].inst].phone = Nil]
       \/ UNCHANGED client
    /\ Goto(q, "clear")
    /\ UNCHANGED <<row, happened, observers>>

-----------------------------------------------------------------------------
(* Creation and deletion *)

\* Slip: one too many.
CreateAtLimit(q) ==
    /\ req[q].pc = "idle"
    /\ \E i \in Insts :
        /\ status[i] = "none" /\ ~client[i].exists
        /\ \A r \in Reqs : req[r].inst # i
        /\ Cardinality(RowsOf(OwnerOf[i])) <= Limit
        /\ req' = [req EXCEPT ![q] = [IdleReq EXCEPT !.pc = "engineCreate", !.inst = i]]
    /\ UNCHANGED <<row, engine, observers>>

\* POST instances: the plan has room.  The id is new.
Create(q) ==
    /\ req[q].pc = "idle"
    /\ \E i \in Insts :
        /\ status[i] = "none" /\ ~client[i].exists
        /\ \A r \in Reqs : req[r].inst # i
        /\ Cardinality(RowsOf(OwnerOf[i])) < Limit
        /\ req' = [req EXCEPT ![q] = [IdleReq EXCEPT !.pc = "engineCreate", !.inst = i]]
    /\ UNCHANGED <<row, engine, observers>>

\* The engine creates the client; its answer may be lost.
EngineCreates(q) ==
    LET i == req[q].inst IN
    /\ req[q].pc = "engineCreate"
    /\ client' = [client EXCEPT ![i].exists = TRUE]
    /\ \/ Goto(q, "rowCreate") /\ UNCHANGED strays
       \/ EndReq(q) /\ strays' = strays \cup {i}
    /\ UNCHANGED <<row, happened, crossed, crowded, astray, crashes>>

\* The row is inserted; creations of the account that counted before are stale.
RowCreated(q) ==
    LET i == req[q].inst
        u == OwnerOf[i]
    IN
    /\ req[q].pc = "rowCreate"
    /\ status' = [status EXCEPT ![i] = "DISCONNECTED"]
    /\ crowded' = IF req[q].stale THEN crowded \cup {u} ELSE crowded
    /\ req' = [r \in Reqs |->
                 IF r = q THEN IdleReq
                 ELSE [req[r] EXCEPT !.stale =
                        @ \/ (req[r].pc \in {"engineCreate", "rowCreate"}
                              /\ OwnerOf[req[r].inst] = u)]]
    /\ UNCHANGED <<jid, engine, crossed, strays, astray, crashes>>

\* Slip: the engine is not asked.
DeleteRowOnly(q) ==
    /\ req[q].pc = "idle"
    /\ \E i \in Insts :
        /\ Exists(i)
        /\ req' = [req EXCEPT ![q] = [IdleReq EXCEPT !.pc = "rowDelete", !.inst = i]]
    /\ UNCHANGED <<row, engine, observers>>

\* DELETE instances.
Delete(q) ==
    /\ req[q].pc = "idle"
    /\ \E i \in Insts :
        /\ Exists(i)
        /\ req' = [req EXCEPT ![q] = [IdleReq EXCEPT !.pc = "engineDelete", !.inst = i]]
    /\ UNCHANGED <<row, engine, observers>>

\* The engine deletes the client, or its error is passed over.
EngineDeletes(q) ==
    LET i == req[q].inst IN
    /\ req[q].pc = "engineDelete"
    /\ \/ client' = [client EXCEPT ![i] = NoClient] /\ UNCHANGED strays
       \/ UNCHANGED client /\ strays' = IF client[i].exists THEN strays \cup {i} ELSE strays
    /\ Goto(q, "rowDelete")
    /\ UNCHANGED <<row, happened, crossed, crowded, astray, crashes>>

\* deleteInstanceData: the row goes, with everything that refers to it.  Events of
\* an instance that is not in the table are passed over from here on.
RowDeleted(q) ==
    LET i == req[q].inst IN
    /\ req[q].pc = "rowDelete" /\ Exists(i)
    /\ status' = [status EXCEPT ![i] = "gone"]
    /\ jid' = [jid EXCEPT ![i] = Nil]
    /\ happened' = [happened EXCEPT ![i] = {}]
    /\ astray' = astray \ {i}
    /\ EndReq(q)
    /\ UNCHANGED <<client, crossed, crowded, strays, crashes>>

HalfWay(q) ==
    {i \in Insts : req[q].inst = i /\ req[q].pc \in {"rowCreate", "rowDelete"}}

\* A database access throws (also on a row that is gone), or the engine does.
ReqFails(q) ==
    /\ req[q].pc # "idle"
    /\ strays' = strays \cup HalfWay(q)
    /\ EndReq(q)
    /\ UNCHANGED <<row, engine, crossed, crowded, astray, crashes>>

ReqStep(q) ==
    \/ Poll(q) \/ PollAnswered(q) \/ PollClears(q) \/ ConnectedEvent(q) \/ Check(q)
    \/ Kick(q) \/ MarkConflict(q) \/ Write(q) \/ ListWrites(q) \/ DisconnectedEvent(q)
    \/ Qr(q) \/ QrResets(q) \/ QrShown(q) \/ QrAnswered(q) \/ QrWrites(q)
    \/ Logout(q) \/ LogoutAnswered(q)
    \/ Create(q) \/ EngineCreates(q) \/ RowCreated(q)
    \/ Delete(q) \/ EngineDeletes(q) \/ RowDeleted(q) \/ ReqFails(q)

-----------------------------------------------------------------------------
(* The engine and the rest of the portal *)

\* The owner scans the code, which the portal shows for its instances only: the
\* client is logged in with a number.
Scan(i, p) ==
    /\ Exists(i) /\ client[i].exists /\ client[i].phone = Nil
    /\ client' = [client EXCEPT ![i].phone = p]
    /\ happened' = [happened EXCEPT ![i] = @ \cup {p}]
    /\ astray' = IF status[i] = "CONFLICT"
                    \/ \E q \in Reqs : req[q].inst = i /\ req[q].pc = "conflict"
                 THEN astray \cup {i} ELSE astray
    /\ UNCHANGED <<row, req, crossed, crowded, strays, crashes>>

\* The phone unlinks the client, or the engine loses its session.
EngineDrops(i) ==
    /\ client[i].phone # Nil
    /\ client' = [client EXCEPT ![i].phone = Nil]
    /\ UNCHANGED <<row, happened, req, observers>>

\* Slip: the instances of all accounts.
ExpirySweepAll(u) ==
    /\ \E i \in RowsOf(u) : status[i] = "CONNECTED"
    /\ status' = [i \in Insts |-> IF status[i] = "CONNECTED" THEN "DISCONNECTED" ELSE status[i]]
    /\ jid' = [i \in Insts |-> IF status[i] = "CONNECTED" THEN Nil ELSE jid[i]]
    /\ UNCHANGED <<engine, req, observers>>

\* The session check of an account whose plan lapsed (module Billing).
ExpirySweep(u) ==
    /\ \E i \in RowsOf(u) : status[i] = "CONNECTED"
    /\ status' = [i \in Insts |-> IF i \in RowsOf(u) /\ status[i] = "CONNECTED"
                                  THEN "DISCONNECTED" ELSE status[i]]
    /\ jid' = [i \in Insts |-> IF i \in RowsOf(u) /\ status[i] = "CONNECTED"
                               THEN Nil ELSE jid[i]]
    /\ UNCHANGED <<engine, req, observers>>

Crash ==
    /\ crashes < MaxCrashes
    /\ crashes' = crashes + 1
    /\ strays' = strays \cup UNION {HalfWay(q) : q \in Reqs}
    /\ req' = [q \in Reqs |-> IdleReq]
    /\ UNCHANGED <<row, engine, crossed, crowded, astray>>

Next ==
    \/ \E q \in Reqs : ReqStep(q)
    \/ \E i \in Insts : EngineDrops(i) \/ \E p \in Phones : Scan(i, p)
    \/ \E u \in Accounts : ExpirySweep(u)
    \/ Crash

Spec == Init /\ [][Next]_vars

-----------------------------------------------------------------------------
(* Properties *)

Shared(p) ==
    \E i, j \in Insts :
        /\ OwnerOf[i] # OwnerOf[j]
        /\ status[i] = "CONNECTED" /\ status[j] = "CONNECTED"
        /\ jid[i] = p /\ jid[j] = p

\* A number is connected for one account, unless two connections of it crossed
\* between check and update, or the QR request connected a taken number.
SharedOnlyByCrossing == \A p \in Phones : Shared(p) => p \in crossed

\* An instance marked CONFLICT is logged out at the engine, so that it neither
\* sends nor receives for the number, unless its logout failed or it was paired
\* after it.
ConflictIsLoggedOut ==
    \A i \in Insts : (status[i] = "CONFLICT" /\ client[i].phone # Nil) => i \in astray

\* No account has more instances than its plan allows, unless two creations
\* overlapped between the count and the insert.
WithinPlan == \A u \in Accounts : Cardinality(RowsOf(u)) > Limit => u \in crowded

\* The engine has a client for exactly the instances of the table, once the
\* requests about them are done, unless one got no further than half-way.
ClientsMatchRows ==
    \A i \in Insts \ strays :
        (\A q \in Reqs : req[q].inst # i) => (client[i].exists <=> Exists(i))

-----------------------------------------------------------------------------
(* The refinement *)

\* The table as a registry of numbers (module NumberRegistry): an instance has
\* the number of its row while that is CONNECTED.
Registry == INSTANCE NumberRegistry WITH
    place  <- [i \in Insts |-> CASE status[i] = "none"     -> "new"
                                 [] status[i] = "CONFLICT" -> "refused"
                                 [] status[i] = "gone"     -> "removed"
                                 [] OTHER                  -> "listed"],
    number <- [i \in Insts |-> IF status[i] = "CONNECTED" THEN jid[i] ELSE Nil]

\* Every step of the requests and webhooks (status/route.ts, qr/route.ts,
\* checkConflict in whatsapp.ts:176-215) and of the session check
\* (session/route.ts:55-85) keeps the registry: a step that connects a number
\* another account has marks it as crossed, one that releases numbers is about
\* one account, and an instance that was removed never has one again.
KeepsTheRegistry == Registry!Spec
=============================================================================
