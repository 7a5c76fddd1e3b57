-------------------------- MODULE InstancesProofs --------------------------
(***************************************************************************)
(* Proofs about Instances, for every set of accounts, instances, numbers   *)
(* and requests and every limit.                                           *)
(***************************************************************************)
EXTENDS Instances, FiniteSetTheorems, TLAPS

Creating == {"engineCreate", "rowCreate"}

\* What a request x has in hand: an instance that has or had a row, but for a
\* creation; a number that was free when it was checked; a client that is logged
\* out; room in the plan; a client made or removed.
ReqOK(x) ==
    /\ x.pc = "idle" => x.inst = Nil
    /\ x.pc # "idle" => x.inst \in Insts
    /\ x.pc \in Creating => status[x.inst] = "none"
    /\ x.pc \notin Creating \cup {"idle"} => status[x.inst] # "none"
    /\ x.pc \in {"check", "write"} => x.live \in Phones
    /\ x.pc = "write" /\ ~x.stale => ~Taken(x.inst, x.live)
    /\ x.pc = "conflict" /\ Exists(x.inst) => client[x.inst].phone = Nil \/ x.inst \in astray
    /\ x.pc \in Creating /\ ~x.stale => Cardinality(RowsOf(OwnerOf[x.inst])) < Limit
    /\ x.pc = "engineCreate" => ~client[x.inst].exists
    /\ x.pc = "rowCreate" => client[x.inst].exists
    /\ x.pc = "rowDelete" /\ x.inst \notin strays => ~client[x.inst].exists
Held == \A q \in Reqs : ReqOK(req[q])

\* An instance is created by one request, and nothing else knows it meanwhile.
OneCreator ==
    \A q, r \in Reqs : req[q].pc \in Creating /\ req[r].inst = req[q].inst => r = q

\* A client and its row agree, or a request half-way makes up the difference.
Matched ==
    \A i \in Insts \ strays :
        /\ status[i] = "none" /\ client[i].exists =>
              \E q \in Reqs : req[q].inst = i /\ req[q].pc = "rowCreate"
        /\ Exists(i) /\ ~client[i].exists =>
              \E q \in Reqs : req[q].inst = i /\ req[q].pc = "rowDelete"
        /\ status[i] = "gone" => ~client[i].exists

IInv ==
    TypeOK /\ Held /\ OneCreator /\ Matched /\ SharedOnlyByCrossing /\ ConflictIsLoggedOut
        /\ WithinPlan

-----------------------------------------------------------------------------
LEMMA IdleTyped == IdleReq \in ReqRecs
BY DEF IdleReq, ReqRecs, ReqPcs

LEMMA InitInv == Init => IInv
<1> SUFFICES ASSUME Init PROVE IInv
    OBVIOUS
<1> USE InstancesAssumption
<1>1. TypeOK
  <2>1. NoClient \in [exists : BOOLEAN, phone : Phones \cup {Nil}]
      BY DEF NoClient
  <2>2. client \in [Insts -> [exists : BOOLEAN, phone : Phones \cup {Nil}]]
      BY <2>1 DEF Init
  <2> QED
      BY <2>2, IdleTyped DEF Init, TypeOK, Registered
<1>2. \A i \in Insts : status[i] = "none" /\ ~Exists(i) /\ ~client[i].exists
    BY DEF Init, Exists, Registered, NoClient
<1>3. \A q \in Reqs : req[q].pc = "idle" /\ req[q].inst = Nil
    BY DEF Init, IdleReq
<1>4. Held /\ OneCreator /\ Matched
    BY <1>2, <1>3 DEF Held, ReqOK, OneCreator, Matched, Creating
<1>5. SharedOnlyByCrossing /\ ConflictIsLoggedOut
    BY <1>2 DEF SharedOnlyByCrossing, Shared, ConflictIsLoggedOut
<1>6. WithinPlan
  <2> SUFFICES ASSUME NEW u \in Accounts PROVE ~(Cardinality(RowsOf(u)) > Limit)
      BY DEF WithinPlan
  <2>1. RowsOf(u) = {}
      BY <1>2 DEF RowsOf
  <2> QED
      BY <2>1, FS_EmptySet
<1> QED
    BY <1>1, <1>4, <1>5, <1>6 DEF IInv

LEMMA StutterInv == IInv /\ UNCHANGED vars => IInv'
<1> SUFFICES ASSUME IInv, UNCHANGED vars PROVE IInv'
    OBVIOUS
<1>1. TypeOK' /\ OneCreator'
    BY DEF IInv, vars, TypeOK, OneCreator
<1>2. Held'
    BY DEF IInv, vars, Held, ReqOK, Taken, Exists, RowsOf
<1>3. Matched' /\ SharedOnlyByCrossing' /\ ConflictIsLoggedOut' /\ WithinPlan'
    BY DEF IInv, vars, Matched, SharedOnlyByCrossing, Shared, ConflictIsLoggedOut, WithinPlan, RowsOf, Exists
<1> QED
    BY <1>1, <1>2, <1>3 DEF IInv

-----------------------------------------------------------------------------
(* Steps of a request that change nothing but what it has in hand *)

\* The step leaves no creation or deletion half-way, and takes up an instance that
\* no creation is about.
LEMMA ReqOnly ==
    ASSUME IInv, NEW q \in Reqs, NEW r \in ReqRecs, req' = [req EXCEPT ![q] = r],
           UNCHANGED <<row, engine, observers>>,
           req[q].pc \notin {"rowCreate", "rowDelete"},
           ReqOK(r),
           r.pc \in Creating => \A s \in Reqs : req[s].inst # r.inst,
           r.inst = Nil \/ r.inst = req[q].inst \/ status[r.inst] # "none"
               \/ \A s \in Reqs : req[s].inst # r.inst
    PROVE  IInv'
<1> USE DEF row, engine, observers
<1>1. TypeOK'
    BY DEF IInv, TypeOK
<1>2. req'[q] = r /\ \A s \in Reqs \ {q} : req'[s] = req[s]
    BY DEF IInv, TypeOK
<1>3. \A s \in Reqs : ReqOK(req[s])
    BY DEF IInv, Held
<1>4. Held'
  <2> SUFFICES ASSUME NEW s \in Reqs PROVE ReqOK(req[s])'
      BY DEF Held
  <2>1. CASE s = q
    <3>1. req'[s] = r
        BY <1>2, <2>1
    <3>2. ReqOK(r)'
        BY DEF ReqOK, Taken, Exists, RowsOf
    <3> QED
        BY <3>1, <3>2 DEF ReqOK
  <2>2. CASE s # q
    <3>1. PICK x : x = req[s]
        OBVIOUS
    <3>2. ReqOK(x) /\ req'[s] = x
        BY <1>2, <1>3, <2>2, <3>1
    <3>3. ReqOK(x)'
        BY <3>2 DEF ReqOK, Taken, Exists, RowsOf
    <3> QED
        BY <3>2, <3>3 DEF ReqOK
  <2> QED
      BY <2>1, <2>2
<1>5. OneCreator'
  <2> SUFFICES ASSUME NEW s \in Reqs, NEW t \in Reqs, req'[s].pc \in Creating,
                      req'[t].inst = req'[s].inst, s # t
               PROVE  FALSE
      BY DEF OneCreator
  <2>1. CASE s # q /\ t # q
      BY <1>2, <2>1 DEF IInv, OneCreator
  <2>2. CASE s = q
      BY <1>2, <2>2
  <2>3. CASE t = q
    <3>1. req[s].pc \in Creating /\ req[s].inst = r.inst /\ s # q
        BY <1>2, <2>3
    <3>2. status[r.inst] = "none" /\ r.inst \in Insts /\ r.inst # Nil
        BY <1>3, <3>1, InstancesAssumption DEF ReqOK, Creating
    <3>3. r.inst = req[q].inst
        BY <3>1, <3>2
    <3> QED
        BY <3>1, <3>3 DEF IInv, OneCreator
  <2> QED
      BY <2>1, <2>2, <2>3
<1>6. Matched'
    BY <1>2 DEF IInv, Matched, Exists
<1>7. SharedOnlyByCrossing' /\ ConflictIsLoggedOut' /\ WithinPlan'
    BY DEF IInv, SharedOnlyByCrossing, Shared, ConflictIsLoggedOut, WithinPlan, RowsOf, Exists
<1> QED
    BY <1>1, <1>4, <1>5, <1>6, <1>7 DEF IInv

\* A request or webhook begins, about an instance of the table.
LEMMA BeginInv ==
    ASSUME IInv, NEW q \in Reqs, req[q].pc = "idle", NEW r \in ReqRecs,
           r.inst \in Insts, Exists(r.inst),
           r.pc \in {"poll", "check", "clear", "reset", "pair", "logout", "engineDelete"},
           r.pc = "check" => r.live \in Phones,
           req' = [req EXCEPT ![q] = r], UNCHANGED <<row, engine, observers>>
    PROVE  IInv'
<1>1. status[r.inst] # "none"
    BY DEF Exists, Registered
<1>2. ReqOK(r) /\ r.pc \notin Creating
    BY <1>1 DEF ReqOK, Creating
<1> QED
    BY <1>1, <1>2, ReqOnly

\* A request or webhook ends, not half-way.
LEMMA EndInv ==
    ASSUME IInv, NEW q \in Reqs, EndReq(q), req[q].pc \notin {"rowCreate", "rowDelete"},
           UNCHANGED <<row, engine, observers>>
    PROVE  IInv'
<1>1. ReqOK(IdleReq) /\ IdleReq.pc \notin Creating /\ IdleReq.inst = Nil
    BY DEF ReqOK, IdleReq, Creating
<1>2. req' = [req EXCEPT ![q] = IdleReq]
    BY DEF EndReq
<1> QED
    BY <1>1, <1>2, IdleTyped, ReqOnly

\* A request goes on about the same instance.
LEMMA GoInv ==
    ASSUME IInv, NEW q \in Reqs, NEW pc \in ReqPcs, NEW live \in Phones \cup {Nil},
           req' = [req EXCEPT ![q] = [req[q] EXCEPT !.pc = pc, !.live = live]],
           req[q].pc \notin Creating \cup {"idle", "rowDelete"},
           pc \notin Creating \cup {"idle", "conflict", "rowDelete"},
           pc \in {"check", "write"} => live \in Phones,
           pc = "write" => ~Taken(req[q].inst, live),
           UNCHANGED <<row, engine, observers>>
    PROVE  IInv'
<1>1. PICK r : r = [req[q] EXCEPT !.pc = pc, !.live = live]
    OBVIOUS
<1>2. req[q] \in ReqRecs /\ ReqOK(req[q])
    BY DEF IInv, TypeOK, Held
<1>3. /\ r \in ReqRecs
      /\ r.pc = pc /\ r.live = live /\ r.inst = req[q].inst
    BY <1>1, <1>2 DEF ReqRecs
<1>4. ReqOK(r)
    BY <1>2, <1>3 DEF ReqOK, Creating
<1> QED
    BY <1>1, <1>3, <1>4, ReqOnly DEF Creating

LEMMA PollInv == ASSUME IInv, NEW q \in Reqs, Poll(q) PROVE IInv'
<1>1. PICK i \in Insts :
        /\ Exists(i)
        /\ req' = [req EXCEPT ![q] = [IdleReq EXCEPT !.pc = "poll", !.inst = i,
                                                !.seen = status[i], !.known = jid[i]]]
    BY DEF Poll
<1>2. PICK r : r = [IdleReq EXCEPT !.pc = "poll", !.inst = i, !.seen = status[i], !.known = jid[i]]
    OBVIOUS
<1>3. status[i] \in Registered /\ jid[i] \in Phones \cup {Nil}
    BY <1>1 DEF Exists, IInv, TypeOK
<1>4. r \in ReqRecs /\ r.pc = "poll" /\ r.inst = i
    BY <1>2, <1>3 DEF IdleReq, ReqRecs, ReqPcs
<1>5. req' = [req EXCEPT ![q] = r]
    BY <1>1, <1>2
<1> QED
    BY <1>1, <1>4, <1>5, BeginInv DEF Poll

LEMMA ConnectedEventInv == ASSUME IInv, NEW q \in Reqs, ConnectedEvent(q) PROVE IInv'
<1>1. PICK i \in Insts : \E p \in happened[i] :
        /\ Exists(i)
        /\ req' = [req EXCEPT ![q] = [IdleReq EXCEPT !.pc = "check", !.inst = i, !.live = p]]
    BY DEF ConnectedEvent
<1>2. happened[i] \subseteq Phones
    BY DEF IInv, TypeOK
<1>3. PICK p \in Phones :
        /\ Exists(i)
        /\ req' = [req EXCEPT ![q] = [IdleReq EXCEPT !.pc = "check", !.inst = i, !.live = p]]
    BY <1>1, <1>2
<1>4. PICK r : r = [IdleReq EXCEPT !.pc = "check", !.inst = i, !.live = p]
    OBVIOUS
<1>5. r \in ReqRecs /\ r.pc = "check" /\ r.inst = i /\ r.live = p
    BY <1>4 DEF IdleReq, ReqRecs, ReqPcs
<1>6. req' = [req EXCEPT ![q] = r]
    BY <1>3, <1>4
<1> QED
    BY <1>3, <1>5, <1>6, BeginInv DEF ConnectedEvent

\* The requests that begin with nothing but the instance.
LEMMA PlainBeginInv ==
    ASSUME IInv, NEW q \in Reqs, DisconnectedEvent(q) \/ Qr(q) \/ Logout(q) \/ Delete(q)
    PROVE  IInv'
<1> DEFINE Begun(i, pc) ==
        /\ Exists(i)
        /\ req' = [req EXCEPT ![q] = [IdleReq EXCEPT !.pc = pc, !.inst = i]]
<1>1. PICK i \in Insts, pc \in {"clear", "reset", "pair", "logout", "engineDelete"} : Begun(i, pc)
  <2>1. CASE DisconnectedEvent(q)
      BY <2>1 DEF DisconnectedEvent
  <2>2. CASE Qr(q)
    <3>1. PICK i \in Insts :
            /\ Exists(i)
            /\ req' = [req EXCEPT ![q] = [IdleReq EXCEPT !.inst = i,
                          !.pc = IF status[i] = "CONFLICT" THEN "reset" ELSE "pair"]]
        BY <2>2 DEF Qr
    <3>2. PICK pc \in {"reset", "pair"} : pc = IF status[i] = "CONFLICT" THEN "reset" ELSE "pair"
        OBVIOUS
    <3>3. [IdleReq EXCEPT !.inst = i, !.pc = pc] = [IdleReq EXCEPT !.pc = pc, !.inst = i]
        BY DEF IdleReq
    <3> QED
        BY <3>1, <3>2, <3>3
  <2>3. CASE Logout(q)
      BY <2>3 DEF Logout
  <2>4. CASE Delete(q)
      BY <2>4 DEF Delete
  <2> QED
      BY <2>1, <2>2, <2>3, <2>4
<1>2. PICK r : r = [IdleReq EXCEPT !.pc = pc, !.inst = i]
    OBVIOUS
<1>3. r \in ReqRecs /\ r.pc = pc /\ r.inst = i
    BY <1>2 DEF IdleReq, ReqRecs, ReqPcs
<1>4. req' = [req EXCEPT ![q] = r]
    BY <1>1, <1>2
<1>5. req[q].pc = "idle" /\ UNCHANGED <<row, engine, observers>>
    BY DEF DisconnectedEvent, Qr, Logout, Delete
<1> QED
    BY <1>1, <1>3, <1>4, <1>5, BeginInv
LEMMA PollAnsweredInv == ASSUME IInv, NEW q \in Reqs, PollAnswered(q) PROVE IInv'
<1>1. req[q].pc = "poll" /\ req[q] \in ReqRecs /\ req[q].inst \in Insts
    BY DEF PollAnswered, IInv, TypeOK, Held, ReqOK
<1>2. CASE client[req[q].inst].phone # Nil
  <2>1. PICK p \in Phones : p = client[req[q].inst].phone
      BY <1>1, <1>2 DEF IInv, TypeOK
  <2>2. req' = [req EXCEPT ![q] = [req[q] EXCEPT !.pc = "check", !.live = p]]
      BY <1>2, <2>1 DEF PollAnswered
  <2> QED
      BY <1>1, <2>2, GoInv DEF PollAnswered, Creating, ReqPcs
<1>3. CASE client[req[q].inst].phone = Nil /\ req[q].seen = "DISCONNECTED"
    BY <1>1, <1>3, EndInv DEF PollAnswered
<1>4. CASE client[req[q].inst].phone = Nil /\ req[q].seen # "DISCONNECTED"
  <2>1. PICK p \in Phones \cup {Nil} : p = req[q].live
      BY <1>1 DEF ReqRecs
  <2>2. [req[q] EXCEPT !.pc = "clear"] = [req[q] EXCEPT !.pc = "clear", !.live = p]
      BY <1>1, <2>1 DEF ReqRecs
  <2>3. req' = [req EXCEPT ![q] = [req[q] EXCEPT !.pc = "clear", !.live = p]]
      BY <1>4, <2>2 DEF PollAnswered, Goto
  <2> QED
      BY <1>1, <2>3, GoInv DEF PollAnswered, Creating, ReqPcs
<1> QED
    BY <1>2, <1>3, <1>4

\* A request goes on with what it has in hand.
LEMMA GotoInv ==
    ASSUME IInv, NEW q \in Reqs, NEW pc \in ReqPcs, Goto(q, pc),
           req[q].pc \notin Creating \cup {"idle", "rowDelete"},
           pc \notin Creating \cup {"idle", "conflict", "rowDelete"},
           pc \in {"check", "write"} => req[q].live \in Phones,
           pc = "write" => ~Taken(req[q].inst, req[q].live),
           UNCHANGED <<row, engine, observers>>
    PROVE  IInv'
<1>1. req[q] \in ReqRecs
    BY DEF IInv, TypeOK
<1>2. PICK p \in Phones \cup {Nil} : p = req[q].live
    BY <1>1 DEF ReqRecs
<1>3. [req[q] EXCEPT !.pc = pc] = [req[q] EXCEPT !.pc = pc, !.live = p]
    BY <1>1, <1>2 DEF ReqRecs
<1>4. req' = [req EXCEPT ![q] = [req[q] EXCEPT !.pc = pc, !.live = p]]
    BY <1>3 DEF Goto
<1> QED
    BY <1>2, <1>4, GoInv

LEMMA CheckInv == ASSUME IInv, NEW q \in Reqs, Check(q) PROVE IInv'
<1>1. req[q].pc = "check" /\ UNCHANGED <<row, engine, observers>>
    BY DEF Check
<1>2. \/ Goto(q, "kick")
      \/ EndReq(q)
      \/ Goto(q, "write") /\ ~Taken(req[q].inst, req[q].live)
    BY DEF Check
<1>3. "kick" \in ReqPcs /\ "write" \in ReqPcs
    BY DEF ReqPcs
<1>4. CASE Goto(q, "kick")
    BY <1>1, <1>3, <1>4, GotoInv DEF Creating
<1>5. CASE EndReq(q)
    BY <1>1, <1>5, EndInv
<1>6. CASE Goto(q, "write") /\ ~Taken(req[q].inst, req[q].live)
  <2>1. req[q].live \in Phones
      BY <1>1 DEF IInv, Held, ReqOK
  <2> QED
      BY <1>1, <1>3, <1>6, <2>1, GotoInv DEF Creating
<1> QED
    BY <1>2, <1>4, <1>5, <1>6

LEMMA QrShownInv == ASSUME IInv, NEW q \in Reqs, QrShown(q) PROVE IInv'
<1>1. req[q].pc = "pair" /\ UNCHANGED <<row, engine, observers>>
    BY DEF QrShown
<1>2. CASE EndReq(q)
    BY <1>1, <1>2, EndInv
<1>3. CASE Goto(q, "answer")
    BY <1>1, <1>3, GotoInv DEF Creating, ReqPcs
<1> QED
    BY <1>2, <1>3 DEF QrShown

LEMMA QrAnsweredInv == ASSUME IInv, NEW q \in Reqs, QrAnswered(q) PROVE IInv'
<1>1. req[q].pc = "answer" /\ UNCHANGED <<row, engine, observers>> /\ req[q].inst \in Insts
    BY DEF QrAnswered, IInv, Held, ReqOK
<1>2. PICK p \in Phones \cup {Nil} : p = client[req[q].inst].phone
    BY <1>1 DEF IInv, TypeOK
<1>3. req' = [req EXCEPT ![q] = [req[q] EXCEPT !.pc = "writeQr", !.live = p]]
    BY <1>2 DEF QrAnswered
<1> QED
    BY <1>1, <1>3, GoInv DEF Creating, ReqPcs

LEMMA CreateInv == ASSUME IInv, NEW q \in Reqs, Create(q) PROVE IInv'
<1>1. PICK i \in Insts :
        /\ status[i] = "none" /\ ~client[i].exists
        /\ \A r \in Reqs : req[r].inst # i
        /\ Cardinality(RowsOf(OwnerOf[i])) < Limit
        /\ req' = [req EXCEPT ![q] = [IdleReq EXCEPT !.pc = "engineCreate", !.inst = i]]
    BY DEF Create
<1>2. PICK r : r = [IdleReq EXCEPT !.pc = "engineCreate", !.inst = i]
    OBVIOUS
<1>3. r \in ReqRecs /\ r.pc = "engineCreate" /\ r.inst = i
    BY <1>2 DEF IdleReq, ReqRecs, ReqPcs
<1>4. req' = [req EXCEPT ![q] = r]
    BY <1>1, <1>2
<1>5. ReqOK(r)
    BY <1>1, <1>3 DEF ReqOK, Creating
<1>6. req[q].pc = "idle" /\ UNCHANGED <<row, engine, observers>>
    BY DEF Create
<1> QED
    BY <1>1, <1>3, <1>4, <1>5, <1>6, ReqOnly

-----------------------------------------------------------------------------
(* Steps that write rows of the table *)

\* Rows stay in the table, clients and observers but crossed stay as they are, and
\* requests end, go on from "reset" to "pair", or become stale.
LEMMA RowStep ==
    ASSUME IInv, status' \in [Insts -> Registered \cup {"none", "gone"}],
           jid' \in [Insts -> Phones \cup {Nil}], req' \in [Reqs -> ReqRecs],
           crossed' \subseteq Phones,
           UNCHANGED <<engine, crowded, strays, astray, crashes>>,
           \A i \in Insts : status'[i] = status[i] \/ (Exists(i) /\ status'[i] \in Registered),
           \A i \in Insts : status'[i] = "CONFLICT" =>
               status[i] = "CONFLICT" \/ client[i].phone = Nil \/ i \in astray,
           \A q \in Reqs :
               \/ req'[q] = IdleReq /\ req[q].pc \notin {"rowCreate", "rowDelete"}
               \/ /\ req'[q].pc = req[q].pc \/ (req[q].pc = "reset" /\ req'[q].pc = "pair")
                  /\ req'[q].inst = req[q].inst /\ req'[q].live = req[q].live
                  /\ req[q].stale => req'[q].stale,
           \A q \in Reqs : req'[q].pc = "write" /\ ~req'[q].stale =>
               ~Taken(req[q].inst, req[q].live)',
           SharedOnlyByCrossing'
    PROVE  IInv'
<1> USE DEF engine
<1>1. TypeOK'
    BY DEF IInv, TypeOK
<1>2. \A i \in Insts : /\ Exists(i)' <=> Exists(i)
                       /\ status'[i] = "none" <=> status[i] = "none"
                       /\ status'[i] = "gone" <=> status[i] = "gone"
    BY DEF Exists, Registered
<1>3. \A u : RowsOf(u)' = RowsOf(u)
    BY <1>2 DEF RowsOf
<1>4. Held'
  <2> SUFFICES ASSUME NEW q \in Reqs PROVE ReqOK(req[q])'
      BY DEF Held
  <2>1. ReqOK(req[q]) /\ Nil \notin Insts
      BY InstancesAssumption DEF IInv, Held
  <2>2. CASE req'[q] = IdleReq
      BY <2>2 DEF ReqOK, IdleReq, Creating
  <2>3. CASE req'[q] # IdleReq
    <3>1. /\ req'[q].pc = req[q].pc \/ (req[q].pc = "reset" /\ req'[q].pc = "pair")
          /\ req'[q].inst = req[q].inst /\ req'[q].live = req[q].live
          /\ req[q].stale => req'[q].stale
        BY <2>3
    <3>2. req'[q].pc = "write" /\ ~req'[q].stale => ~Taken(req[q].inst, req[q].live)'
        OBVIOUS
    <3>3. RowsOf(OwnerOf[req[q].inst])' = RowsOf(OwnerOf[req[q].inst])
        BY <1>3, <3>1 DEF RowsOf
    <3> QED
        BY <1>2, <2>1, <3>1, <3>2, <3>3 DEF ReqOK, Creating, Exists
  <2> QED
      BY <2>2, <2>3
<1>5. OneCreator'
  <2> SUFFICES ASSUME NEW q \in Reqs, NEW r \in Reqs, req'[q].pc \in Creating,
                      req'[r].inst = req'[q].inst
               PROVE  r = q
      BY DEF OneCreator
  <2>1. req[q].pc \in Creating /\ req[q].inst = req'[q].inst
      BY DEF IdleReq, Creating
  <2>2. req[q].inst \in Insts /\ Nil \notin Insts
      BY <2>1, InstancesAssumption DEF IInv, Held, ReqOK, Creating
  <2>3. req[r].inst = req'[r].inst
      BY <2>1, <2>2 DEF IdleReq
  <2> QED
      BY <2>1, <2>3 DEF IInv, OneCreator
<1>6. Matched'
  <2>1. \A q \in Reqs : req[q].pc \in {"rowCreate", "rowDelete"} =>
            req'[q].pc = req[q].pc /\ req'[q].inst = req[q].inst
      OBVIOUS
  <2> QED
      BY <1>2, <2>1 DEF IInv, Matched
<1>7. ConflictIsLoggedOut'
    BY DEF IInv, ConflictIsLoggedOut
<1>8. WithinPlan'
    BY <1>3 DEF IInv, WithinPlan
<1> QED
    BY <1>1, <1>4, <1>5, <1>6, <1>7, <1>8 DEF IInv
\* The request ends, or goes on with the pairing of an instance whose CONFLICT it
\* lifted.
LEMMA RequestStep ==
    ASSUME IInv, NEW q \in Reqs, req[q].pc \notin {"rowCreate", "rowDelete"},
           EndReq(q) \/ (req[q].pc = "reset" /\ Goto(q, "pair"))
    PROVE  /\ req' \in [Reqs -> ReqRecs]
           /\ \A r \in Reqs :
               \/ req'[r] = IdleReq /\ req[r].pc \notin {"rowCreate", "rowDelete"}
               \/ /\ req'[r].pc = req[r].pc \/ (req[r].pc = "reset" /\ req'[r].pc = "pair")
                  /\ req'[r].inst = req[r].inst /\ req'[r].live = req[r].live
                  /\ req[r].stale => req'[r].stale
           /\ \A r \in Reqs : req'[r].pc = "write" => req'[r] = req[r]
<1>0. req \in [Reqs -> ReqRecs]
    BY DEF IInv, TypeOK
<1>1. CASE EndReq(q)
  <2>1. req' = [req EXCEPT ![q] = IdleReq]
      BY <1>1 DEF EndReq
  <2>2. req' \in [Reqs -> ReqRecs] /\ req'[q] = IdleReq /\ \A r \in Reqs \ {q} : req'[r] = req[r]
      BY <1>0, <2>1, IdleTyped
  <2>3. IdleReq.pc # "write"
      BY DEF IdleReq
  <2> QED
      BY <2>2, <2>3
<1>2. CASE req[q].pc = "reset" /\ Goto(q, "pair")
  <2>1. PICK x : x = [req[q] EXCEPT !.pc = "pair"]
      OBVIOUS
  <2>2. /\ x \in ReqRecs /\ x.pc = "pair" /\ x.inst = req[q].inst
        /\ x.live = req[q].live /\ x.stale = req[q].stale
      BY <1>0, <2>1 DEF ReqRecs, ReqPcs
  <2>3. req' = [req EXCEPT ![q] = x]
      BY <1>2, <2>1 DEF Goto
  <2>4. req' \in [Reqs -> ReqRecs] /\ req'[q] = x /\ \A r \in Reqs \ {q} : req'[r] = req[r]
      BY <1>0, <2>2, <2>3
  <2> QED
      BY <1>2, <2>2, <2>4
<1> QED
    BY <1>1, <1>2

\* Rows that the step leaves CONNECTED were so before, with the same number.
LEMMA NothingConnects ==
    ASSUME IInv, \A i \in Insts : status'[i] = "CONNECTED" =>
                     status[i] = "CONNECTED" /\ jid'[i] = jid[i]
    PROVE  /\ \A i, p : Taken(i, p)' => Taken(i, p)
           /\ UNCHANGED crossed => SharedOnlyByCrossing'
<1>1. \A i, p : Taken(i, p)' => Taken(i, p)
    BY DEF Taken
<1>2. \A p \in Phones : Shared(p)' => Shared(p)
    BY DEF Shared
<1> QED
    BY <1>1, <1>2 DEF IInv, SharedOnlyByCrossing

\* A step of a request that connects nothing.
LEMMA LoseStep ==
    ASSUME IInv, NEW q \in Reqs, req[q].pc \notin {"rowCreate", "rowDelete"},
           EndReq(q) \/ (req[q].pc = "reset" /\ Goto(q, "pair")),
           status' \in [Insts -> Registered \cup {"none", "gone"}],
           jid' \in [Insts -> Phones \cup {Nil}],
           UNCHANGED <<engine, observers>>,
           \A i \in Insts : status'[i] = status[i] \/ (Exists(i) /\ status'[i] \in Registered),
           \A i \in Insts : status'[i] = "CONFLICT" =>
               status[i] = "CONFLICT" \/ client[i].phone = Nil \/ i \in astray,
           \A i \in Insts : status'[i] = "CONNECTED" =>
               status[i] = "CONNECTED" /\ jid'[i] = jid[i]
    PROVE  IInv'
<1>1. UNCHANGED <<engine, crowded, strays, astray, crashes>> /\ UNCHANGED crossed
    BY DEF observers
<1>2. crossed' \subseteq Phones
    BY <1>1 DEF IInv, TypeOK
<1>3. \A r \in Reqs : req[r].pc = "write" /\ ~req[r].stale => ~Taken(req[r].inst, req[r].live)
    BY DEF IInv, Held, ReqOK
<1>4. \A r \in Reqs : req'[r].pc = "write" => req'[r] = req[r]
    BY RequestStep
<1>5. \A r \in Reqs : req'[r].pc = "write" /\ ~req'[r].stale => ~Taken(req[r].inst, req[r].live)'
  <2> SUFFICES ASSUME NEW r \in Reqs, req'[r].pc = "write", ~req'[r].stale
               PROVE  ~Taken(req[r].inst, req[r].live)'
      OBVIOUS
  <2>1. PICK i, p : i = req[r].inst /\ p = req[r].live
      OBVIOUS
  <2>2. req'[r].inst = i /\ req'[r].live = p /\ ~Taken(i, p)
      BY <1>3, <1>4, <2>1
  <2>3. ~Taken(i, p)'
      BY <2>2, NothingConnects
  <2> QED
      BY <2>2, <2>3 DEF Taken
<1>6. SharedOnlyByCrossing'
    BY <1>1, NothingConnects
<1>7. /\ req' \in [Reqs -> ReqRecs]
      /\ \A r \in Reqs :
               \/ req'[r] = IdleReq /\ req[r].pc \notin {"rowCreate", "rowDelete"}
               \/ /\ req'[r].pc = req[r].pc \/ (req[r].pc = "reset" /\ req'[r].pc = "pair")
                  /\ req'[r].inst = req[r].inst /\ req'[r].live = req[r].live
                  /\ req[r].stale => req'[r].stale
    BY RequestStep
<1> QED
    BY <1>1, <1>2, <1>5, <1>6, <1>7, RowStep

LEMMA PollClearsInv == ASSUME IInv, NEW q \in Reqs, PollClears(q) PROVE IInv'
<1>1. PICK i \in Insts : i = req[q].inst
    BY DEF PollClears, IInv, Held, ReqOK
<1>2. /\ req[q].pc = "clear" /\ Exists(i) /\ EndReq(q)
      /\ status' = [status EXCEPT ![i] = "DISCONNECTED"]
      /\ UNCHANGED <<jid, engine, observers>>
    BY <1>1 DEF PollClears
<1>3. status' \in [Insts -> Registered \cup {"none", "gone"}]
    BY <1>2 DEF IInv, TypeOK, Registered
<1>4. /\ status'[i] = "DISCONNECTED"
      /\ \A j \in Insts \ {i} : status'[j] = status[j]
      /\ jid' = jid /\ jid' \in [Insts -> Phones \cup {Nil}]
    BY <1>2 DEF IInv, TypeOK
<1> QED
    BY <1>2, <1>3, <1>4, LoseStep DEF Registered

LEMMA MarkConflictInv == ASSUME IInv, NEW q \in Reqs, MarkConflict(q) PROVE IInv'
<1>1. PICK i \in Insts : i = req[q].inst
    BY DEF MarkConflict, IInv, Held, ReqOK
<1>2. /\ req[q].pc = "conflict" /\ Exists(i) /\ EndReq(q)
      /\ status' = [status EXCEPT ![i] = "CONFLICT"]
      /\ jid' = [jid EXCEPT ![i] = Nil]
      /\ UNCHANGED <<engine, observers>>
    BY <1>1 DEF MarkConflict
<1>3. client[i].phone = Nil \/ i \in astray
    BY <1>1, <1>2 DEF IInv, Held, ReqOK
<1>4. /\ status' \in [Insts -> Registered \cup {"none", "gone"}]
      /\ jid' \in [Insts -> Phones \cup {Nil}]
    BY <1>2 DEF IInv, TypeOK, Registered
<1>5. /\ status'[i] = "CONFLICT"
      /\ \A j \in Insts \ {i} : status'[j] = status[j] /\ jid'[j] = jid[j]
    BY <1>2 DEF IInv, TypeOK
<1> QED
    BY <1>2, <1>3, <1>4, <1>5, LoseStep DEF Registered

LEMMA QrResetsInv == ASSUME IInv, NEW q \in Reqs, QrResets(q) PROVE IInv'
<1>1. PICK i \in Insts : i = req[q].inst
    BY DEF QrResets, IInv, Held, ReqOK
<1>2. /\ req[q].pc = "reset" /\ Exists(i) /\ Goto(q, "pair")
      /\ status' = [status EXCEPT ![i] = "DISCONNECTED"]
      /\ UNCHANGED <<jid, engine, observers>>
    BY <1>1 DEF QrResets
<1>3. status' \in [Insts -> Registered \cup {"none", "gone"}]
    BY <1>2 DEF IInv, TypeOK, Registered
<1>4. /\ status'[i] = "DISCONNECTED"
      /\ \A j \in Insts \ {i} : status'[j] = status[j]
      /\ jid' = jid /\ jid' \in [Insts -> Phones \cup {Nil}]
    BY <1>2 DEF IInv, TypeOK
<1> QED
    BY <1>2, <1>3, <1>4, LoseStep DEF Registered

LEMMA ExpirySweepInv == ASSUME IInv, NEW u \in Accounts, ExpirySweep(u) PROVE IInv'
<1> DEFINE swept == {i \in RowsOf(u) : status[i] = "CONNECTED"}
<1>1. /\ status' = [i \in Insts |-> IF i \in swept THEN "DISCONNECTED" ELSE status[i]]
      /\ jid' = [i \in Insts |-> IF i \in swept THEN Nil ELSE jid[i]]
      /\ UNCHANGED <<engine, req, observers>>
    BY DEF ExpirySweep
<1>2. \A i \in swept : i \in Insts /\ Exists(i) /\ status[i] = "CONNECTED"
    BY DEF RowsOf
<1> HIDE DEF swept
<1>3. /\ status' \in [Insts -> Registered \cup {"none", "gone"}]
      /\ jid' \in [Insts -> Phones \cup {Nil}]
    BY <1>1 DEF IInv, TypeOK, Registered
<1>4. \A i \in Insts : /\ status'[i] = status[i] \/ (Exists(i) /\ status'[i] \in Registered)
                       /\ status'[i] = "CONFLICT" => status[i] = "CONFLICT"
                       /\ status'[i] = "CONNECTED" => status[i] = "CONNECTED" /\ jid'[i] = jid[i]
    BY <1>1, <1>2 DEF Registered
<1>5. UNCHANGED <<engine, crowded, strays, astray, crashes>> /\ UNCHANGED crossed /\ UNCHANGED req
    BY <1>1 DEF observers
<1>6. crossed' \subseteq Phones /\ req' \in [Reqs -> ReqRecs]
    BY <1>5 DEF IInv, TypeOK
<1>7. \A r \in Reqs : req'[r].pc = "write" /\ ~req'[r].stale => ~Taken(req[r].inst, req[r].live)'
  <2> SUFFICES ASSUME NEW r \in Reqs, req'[r].pc = "write", ~req'[r].stale
               PROVE  ~Taken(req[r].inst, req[r].live)'
      OBVIOUS
  <2>1. PICK i, p : i = req[r].inst /\ p = req[r].live
      OBVIOUS
  <2>2. req'[r].inst = i /\ req'[r].live = p /\ ~Taken(i, p)
      BY <1>5, <2>1 DEF IInv, Held, ReqOK
  <2>3. ~Taken(i, p)'
      BY <1>4, <2>2, NothingConnects
  <2> QED
      BY <2>2, <2>3 DEF Taken
<1>8. SharedOnlyByCrossing'
    BY <1>4, <1>5, NothingConnects
<1> QED
    BY <1>3, <1>4, <1>5, <1>6, <1>7, <1>8, RowStep
\* A row is set CONNECTED with number p, and requests that checked p are stale.
LEMMA ConnectStep ==
    ASSUME IInv, NEW q \in Reqs, NEW i \in Insts, NEW p \in Phones \cup {Nil},
           req[q].pc \in {"write", "writeQr"}, Exists(i),
           status' = [status EXCEPT ![i] = "CONNECTED"], jid' = [jid EXCEPT ![i] = p],
           Overtakes(q, p), crossed \subseteq crossed', crossed' \subseteq Phones,
           p \in Phones /\ Taken(i, p) => p \in crossed',
           UNCHANGED <<engine, crowded, strays, astray, crashes>>
    PROVE  IInv'
<1>1. /\ status' \in [Insts -> Registered \cup {"none", "gone"}]
      /\ jid' \in [Insts -> Phones \cup {Nil}]
    BY DEF IInv, TypeOK, Registered
<1>2. /\ status'[i] = "CONNECTED" /\ jid'[i] = p
      /\ \A j \in Insts \ {i} : status'[j] = status[j] /\ jid'[j] = jid[j]
    BY DEF IInv, TypeOK
<1>3. \A r \in Reqs : IF r = q THEN req'[r] = IdleReq
                      ELSE /\ req'[r] \in ReqRecs
                           /\ req'[r].pc = req[r].pc /\ req'[r].inst = req[r].inst
                           /\ req'[r].live = req[r].live
                           /\ req[r].stale => req'[r].stale
                           /\ req[r].pc = "write" /\ req[r].live = p => req'[r].stale
  <2> SUFFICES ASSUME NEW r \in Reqs, r # q
               PROVE  /\ req'[r] \in ReqRecs
                      /\ req'[r].pc = req[r].pc /\ req'[r].inst = req[r].inst
                      /\ req'[r].live = req[r].live
                      /\ req[r].stale => req'[r].stale
                      /\ req[r].pc = "write" /\ req[r].live = p => req'[r].stale
      BY DEF Overtakes
  <2>1. req[r] \in ReqRecs
      BY DEF IInv, TypeOK
  <2>2. PICK b \in BOOLEAN : b = (req[r].stale \/ (req[r].pc = "write" /\ req[r].live = p))
      OBVIOUS
  <2>3. req'[r] = [req[r] EXCEPT !.stale = b]
      BY <2>2 DEF Overtakes
  <2> QED
      BY <2>1, <2>2, <2>3 DEF ReqRecs
<1>4. req' \in [Reqs -> ReqRecs]
    BY <1>3, IdleTyped DEF Overtakes
<1>5. \A r \in Reqs : req'[r].pc = "write" /\ ~req'[r].stale => ~Taken(req[r].inst, req[r].live)'
  <2> SUFFICES ASSUME NEW r \in Reqs, req'[r].pc = "write", ~req'[r].stale
               PROVE  ~Taken(req[r].inst, req[r].live)'
      OBVIOUS
  <2>1. r # q
      BY <1>3 DEF IdleReq
  <2>2. req[r].pc = "write" /\ ~req[r].stale /\ req[r].live # p
      BY <1>3, <2>1
  <2>3. ~Taken(req[r].inst, req[r].live) /\ req'[r].inst = req[r].inst /\ req'[r].live = req[r].live
      BY <1>3, <2>1, <2>2 DEF IInv, Held, ReqOK
  <2> QED
      BY <1>2, <2>2, <2>3 DEF Taken
<1>6. SharedOnlyByCrossing'
  <2> SUFFICES ASSUME NEW n \in Phones, Shared(n)' PROVE n \in crossed'
      BY DEF SharedOnlyByCrossing
  <2>1. PICK a \in Insts, b \in Insts :
            /\ OwnerOf[a] # OwnerOf[b]
            /\ status'[a] = "CONNECTED" /\ status'[b] = "CONNECTED"
            /\ jid'[a] = n /\ jid'[b] = n
      BY DEF Shared
  <2>2. CASE a # i /\ b # i
    <3>1. Shared(n)
        BY <1>2, <2>1, <2>2 DEF Shared
    <3> QED
        BY <3>1 DEF IInv, SharedOnlyByCrossing
  <2>3. CASE a = i
    <3>1. Taken(i, n) /\ n = p
        BY <1>2, <2>1, <2>3 DEF Taken
    <3> QED
        BY <3>1
  <2>4. CASE b = i
    <3>1. Taken(i, n) /\ n = p
        BY <1>2, <2>1, <2>4 DEF Taken
    <3> QED
        BY <3>1
  <2> QED
      BY <2>2, <2>3, <2>4
<1>7. \A r \in Reqs :
        \/ req'[r] = IdleReq /\ req[r].pc \notin {"rowCreate", "rowDelete"}
        \/ /\ req'[r].pc = req[r].pc \/ (req[r].pc = "reset" /\ req'[r].pc = "pair")
           /\ req'[r].inst = req[r].inst /\ req'[r].live = req[r].live
           /\ req[r].stale => req'[r].stale
    BY <1>3
<1> QED
    BY <1>1, <1>2, <1>4, <1>5, <1>6, <1>7, RowStep DEF Registered

LEMMA WriteInv == ASSUME IInv, NEW q \in Reqs, Write(q) PROVE IInv'
<1>1. req[q].pc = "write" /\ req[q].inst \in Insts /\ req[q].live \in Phones
    BY DEF Write, IInv, Held, ReqOK
<1>2. PICK i \in Insts, p \in Phones : i = req[q].inst /\ p = req[q].live
    BY <1>1
<1>3. /\ Exists(i) /\ Overtakes(q, p)
      /\ status' = [status EXCEPT ![i] = "CONNECTED"] /\ jid' = [jid EXCEPT ![i] = p]
      /\ crossed' = IF req[q].stale THEN crossed \cup {p} ELSE crossed
      /\ UNCHANGED <<engine, crowded, strays, astray, crashes>>
    BY <1>2 DEF Write
<1>4. Taken(i, p) => req[q].stale
    BY <1>1, <1>2 DEF IInv, Held, ReqOK
<1>5. crossed \subseteq crossed' /\ crossed' \subseteq Phones /\ (Taken(i, p) => p \in crossed')
    BY <1>3, <1>4 DEF IInv, TypeOK
<1> QED
    BY <1>1, <1>3, <1>5, ConnectStep

LEMMA ListWritesInv == ASSUME IInv, NEW q \in Reqs, ListWrites(q) PROVE IInv'
<1>1. req[q].pc = "write" /\ req[q].inst \in Insts /\ req[q].live \in Phones
    BY DEF ListWrites, IInv, Held, ReqOK
<1>2. PICK i \in Insts, p \in Phones : i = req[q].inst /\ p = req[q].live
    BY <1>1
<1>3. /\ Exists(i) /\ jid' = [jid EXCEPT ![i] = p]
      /\ crossed' = IF req[q].stale /\ status[i] = "CONNECTED" THEN crossed \cup {p} ELSE crossed
      /\ IF status[i] = "CONNECTED" THEN Overtakes(q, p) ELSE EndReq(q)
      /\ UNCHANGED <<status, engine, crowded, strays, astray, crashes>>
    BY <1>2 DEF ListWrites
<1>4. CASE status[i] = "CONNECTED"
  <2>1. status' = [status EXCEPT ![i] = "CONNECTED"]
      BY <1>3, <1>4 DEF IInv, TypeOK
  <2>2. Taken(i, p) => req[q].stale
      BY <1>1, <1>2 DEF IInv, Held, ReqOK
  <2>3. crossed \subseteq crossed' /\ crossed' \subseteq Phones /\ (Taken(i, p) => p \in crossed')
      BY <1>3, <1>4, <2>2 DEF IInv, TypeOK
  <2>4. Overtakes(q, p) /\ UNCHANGED <<engine, crowded, strays, astray, crashes>>
      BY <1>3, <1>4
  <2> QED
      BY <1>1, <1>3, <2>1, <2>3, <2>4, ConnectStep
<1>5. CASE status[i] # "CONNECTED"
  <2>1. EndReq(q) /\ UNCHANGED <<engine, observers>>
      BY <1>3, <1>5 DEF observers
  <2>2. /\ status' \in [Insts -> Registered \cup {"none", "gone"}]
        /\ jid' \in [Insts -> Phones \cup {Nil}]
      BY <1>3 DEF IInv, TypeOK
  <2>3. \A j \in Insts : status'[j] = "CONNECTED" => status[j] = "CONNECTED" /\ jid'[j] = jid[j]
      BY <1>3, <1>5 DEF IInv, TypeOK
  <2>4. \A j \in Insts : status'[j] = status[j]
      BY <1>3
  <2> QED
      BY <1>1, <2>1, <2>2, <2>3, <2>4, LoseStep
<1> QED
    BY <1>4, <1>5

LEMMA QrWritesInv == ASSUME IInv, NEW q \in Reqs, QrWrites(q) PROVE IInv'
<1>1. req[q].pc = "writeQr" /\ req[q].inst \in Insts /\ req[q] \in ReqRecs
    BY DEF QrWrites, IInv, TypeOK, Held, ReqOK
<1>2. PICK i \in Insts : i = req[q].inst
    BY <1>1
<1>3. PICK p \in Phones \cup {Nil} : p = IF req[q].live # Nil THEN req[q].live ELSE jid[i]
    BY <1>1 DEF IInv, TypeOK, ReqRecs
<1>4. /\ Exists(i) /\ Overtakes(q, p)
      /\ status' = [status EXCEPT ![i] = "CONNECTED"] /\ jid' = [jid EXCEPT ![i] = p]
      /\ crossed' = IF p # Nil /\ Taken(i, p) THEN crossed \cup {p} ELSE crossed
      /\ UNCHANGED <<engine, crowded, strays, astray, crashes>>
    BY <1>2, <1>3 DEF QrWrites
<1>5. /\ crossed \subseteq crossed' /\ crossed' \subseteq Phones
      /\ p \in Phones /\ Taken(i, p) => p \in crossed'
    BY <1>4, InstancesAssumption DEF IInv, TypeOK
<1> QED
    BY <1>1, <1>4, <1>5, ConnectStep
-----------------------------------------------------------------------------
(* Steps that log clients in or out *)

LEMMA PhoneStep ==
    ASSUME IInv, client' \in [Insts -> [exists : BOOLEAN, phone : Phones \cup {Nil}]],
           happened' \in [Insts -> SUBSET Phones], req' \in [Reqs -> ReqRecs],
           astray' \subseteq Insts, UNCHANGED <<row, crossed, crowded, strays, crashes>>,
           \A i \in Insts : client'[i].exists = client[i].exists,
           \A r \in Reqs :
               \/ req'[r] = req[r]
               \/ /\ req'[r].inst = req[r].inst
                  /\ \/ req[r].pc = "kick" /\ req'[r].pc = "conflict"
                     \/ req[r].pc = "logout" /\ req'[r].pc = "clear",
           \A r \in Reqs : req'[r].pc = "conflict" /\ Exists(req[r].inst) =>
               client'[req[r].inst].phone = Nil \/ req[r].inst \in astray',
           \A i \in Insts : status[i] = "CONFLICT" => client'[i].phone = Nil \/ i \in astray'
    PROVE  IInv'
<1> USE DEF row
<1>1. TypeOK'
    BY DEF IInv, TypeOK
<1>2. Held'
  <2> SUFFICES ASSUME NEW r \in Reqs PROVE ReqOK(req[r])'
      BY DEF Held
  <2>1. PICK x : x = req'[r]
      OBVIOUS
  <2>2. ReqOK(req[r])
      BY DEF IInv, Held
  <2>3. CASE req'[r] = req[r]
    <3>1. ReqOK(x) /\ (x.pc = "conflict" /\ Exists(x.inst) => client'[x.inst].phone = Nil \/ x.inst \in astray')
        BY <2>1, <2>2, <2>3
    <3>2. ReqOK(x)'
        BY <3>1 DEF ReqOK, Taken, Exists, RowsOf, Creating
    <3> QED
        BY <2>1, <3>2 DEF ReqOK
  <2>4. CASE req'[r] # req[r]
      BY <2>2, <2>4 DEF ReqOK, Exists, Creating
  <2> QED
      BY <2>3, <2>4
<1>3. \A r \in Reqs : /\ req'[r].inst = req[r].inst
                      /\ req'[r].pc \in Creating <=> req[r].pc \in Creating
                      /\ req[r].pc \in {"rowCreate", "rowDelete"} => req'[r].pc = req[r].pc
    BY DEF Creating
<1>4. OneCreator'
    BY <1>3 DEF IInv, OneCreator
<1>5. Matched'
    BY <1>3 DEF IInv, Matched, Exists
<1>6. SharedOnlyByCrossing' /\ ConflictIsLoggedOut' /\ WithinPlan'
    BY DEF IInv, SharedOnlyByCrossing, Shared, ConflictIsLoggedOut, WithinPlan, RowsOf, Exists
<1> QED
    BY <1>1, <1>2, <1>4, <1>5, <1>6 DEF IInv

\* What a client in state c becomes.
LEMMA ClientChange ==
    ASSUME IInv, NEW i \in Insts, NEW p \in Phones \cup {Nil},
           client' = [client EXCEPT ![i].phone = p]
    PROVE  /\ client' \in [Insts -> [exists : BOOLEAN, phone : Phones \cup {Nil}]]
           /\ client'[i].phone = p
           /\ \A j \in Insts : client'[j].exists = client[j].exists
           /\ \A j \in Insts \ {i} : client'[j] = client[j]
<1>1. client[i] \in [exists : BOOLEAN, phone : Phones \cup {Nil}]
    BY DEF IInv, TypeOK
<1>2. PICK c : c = [client[i] EXCEPT !.phone = p]
    OBVIOUS
<1>3. c \in [exists : BOOLEAN, phone : Phones \cup {Nil}] /\ c.phone = p /\ c.exists = client[i].exists
    BY <1>1, <1>2
<1>4. client' = [client EXCEPT ![i] = c]
    BY <1>2
<1> QED
    BY <1>3, <1>4 DEF IInv, TypeOK

\* What a request becomes that goes on.
LEMMA GotoChange ==
    ASSUME IInv, NEW q \in Reqs, NEW pc \in ReqPcs, Goto(q, pc)
    PROVE  /\ req' \in [Reqs -> ReqRecs]
           /\ req'[q].pc = pc /\ req'[q].inst = req[q].inst
           /\ req'[q].stale = req[q].stale
           /\ \A r \in Reqs \ {q} : req'[r] = req[r]
<1>1. req[q] \in ReqRecs
    BY DEF IInv, TypeOK
<1>2. PICK x : x = [req[q] EXCEPT !.pc = pc]
    OBVIOUS
<1>3. x \in ReqRecs /\ x.pc = pc /\ x.inst = req[q].inst /\ x.stale = req[q].stale
    BY <1>1, <1>2 DEF ReqRecs
<1>4. req' = [req EXCEPT ![q] = x]
    BY <1>2 DEF Goto
<1> QED
    BY <1>3, <1>4 DEF IInv, TypeOK

\* What requests become when one ends.
LEMMA EndChange ==
    ASSUME IInv, NEW q \in Reqs, EndReq(q)
    PROVE  /\ req' \in [Reqs -> ReqRecs] /\ req'[q] = IdleReq
           /\ \A r \in Reqs \ {q} : req'[r] = req[r]
BY IdleTyped DEF EndReq, IInv, TypeOK

\* An instance that is in CONFLICT, or about to be, is logged out or astray.
LEMMA LoggedOut ==
    ASSUME IInv
    PROVE  /\ \A i \in Insts : status[i] = "CONFLICT" => client[i].phone = Nil \/ i \in astray
           /\ \A r \in Reqs : req[r].pc = "conflict" /\ Exists(req[r].inst) =>
                 req[r].inst \in Insts /\ (client[req[r].inst].phone = Nil \/ req[r].inst \in astray)
BY DEF IInv, ConflictIsLoggedOut, Held, ReqOK

LEMMA KickInv == ASSUME IInv, NEW q \in Reqs, Kick(q) PROVE IInv'
<1>1. PICK i \in Insts : i = req[q].inst
    BY DEF Kick, IInv, Held, ReqOK
<1>2. /\ req[q].pc = "kick" /\ Goto(q, "conflict")
      /\ \/ client' = [client EXCEPT ![i].phone = Nil] /\ astray' = astray \ {i}
         \/ UNCHANGED client /\ astray' = astray \cup {i}
      /\ UNCHANGED <<row, happened, crossed, crowded, strays, crashes>>
    BY <1>1 DEF Kick
<1>3. /\ client' \in [Insts -> [exists : BOOLEAN, phone : Phones \cup {Nil}]]
      /\ \A j \in Insts : client'[j].exists = client[j].exists
      /\ \A j \in Insts \ {i} : client'[j] = client[j] /\ (j \in astray => j \in astray')
      /\ client'[i].phone = Nil \/ i \in astray'
      /\ astray' \subseteq Insts
    BY <1>2, ClientChange DEF IInv, TypeOK
<1>4. /\ req' \in [Reqs -> ReqRecs] /\ req'[q].pc = "conflict" /\ req'[q].inst = i
      /\ \A r \in Reqs \ {q} : req'[r] = req[r]
    BY <1>1, <1>2, GotoChange DEF ReqPcs
<1>5. \A r \in Reqs : req'[r].pc = "conflict" /\ Exists(req[r].inst) =>
          client'[req[r].inst].phone = Nil \/ req[r].inst \in astray'
  <2> SUFFICES ASSUME NEW r \in Reqs, req'[r].pc = "conflict", Exists(req[r].inst), req[r].inst # i
               PROVE  client'[req[r].inst].phone = Nil \/ req[r].inst \in astray'
      BY <1>3
  <2>1. r # q /\ req[r].pc = "conflict"
      BY <1>1, <1>4
  <2> QED
      BY <1>3, <2>1, LoggedOut
<1>6. \A j \in Insts : status[j] = "CONFLICT" => client'[j].phone = Nil \/ j \in astray'
    BY <1>3, LoggedOut
<1>7. happened' \in [Insts -> SUBSET Phones]
    BY <1>2 DEF IInv, TypeOK
<1>8. \A r \in Reqs :
        \/ req'[r] = req[r]
        \/ req'[r].inst = req[r].inst /\ req[r].pc = "kick" /\ req'[r].pc = "conflict"
    BY <1>1, <1>2, <1>4
<1> QED
    BY <1>2, <1>3, <1>4, <1>5, <1>6, <1>7, <1>8, PhoneStep

LEMMA LogoutAnsweredInv == ASSUME IInv, NEW q \in Reqs, LogoutAnswered(q) PROVE IInv'
<1>1. PICK i \in Insts : i = req[q].inst
    BY DEF LogoutAnswered, IInv, Held, ReqOK
<1>2. /\ req[q].pc = "logout" /\ Goto(q, "clear")
      /\ client' = [client EXCEPT ![i].phone = Nil] \/ UNCHANGED client
      /\ UNCHANGED <<row, happened, observers>>
    BY <1>1 DEF LogoutAnswered
<1>3. /\ client' \in [Insts -> [exists : BOOLEAN, phone : Phones \cup {Nil}]]
      /\ \A j \in Insts : client'[j].exists = client[j].exists
      /\ \A j \in Insts : client'[j] = client[j] \/ client'[j].phone = Nil
    BY <1>2, ClientChange DEF IInv, TypeOK
<1>4. /\ req' \in [Reqs -> ReqRecs] /\ req'[q].pc = "clear" /\ req'[q].inst = i
      /\ \A r \in Reqs \ {q} : req'[r] = req[r]
    BY <1>1, <1>2, GotoChange DEF ReqPcs
<1>5. \A r \in Reqs : req'[r].pc = "conflict" /\ Exists(req[r].inst) =>
          client'[req[r].inst].phone = Nil \/ req[r].inst \in astray'
  <2> SUFFICES ASSUME NEW r \in Reqs, req'[r].pc = "conflict", Exists(req[r].inst)
               PROVE  client'[req[r].inst].phone = Nil \/ req[r].inst \in astray'
      OBVIOUS
  <2>1. r # q /\ req[r].pc = "conflict"
      BY <1>4
  <2> QED
      BY <1>2, <1>3, <2>1, LoggedOut DEF observers
<1>6. \A j \in Insts : status[j] = "CONFLICT" => client'[j].phone = Nil \/ j \in astray'
    BY <1>2, <1>3, LoggedOut DEF observers
<1>7. /\ happened' \in [Insts -> SUBSET Phones] /\ astray' \subseteq Insts
      /\ UNCHANGED <<row, crossed, crowded, strays, crashes>>
    BY <1>2 DEF IInv, TypeOK, observers
<1>8. \A r \in Reqs :
        \/ req'[r] = req[r]
        \/ req'[r].inst = req[r].inst /\ req[r].pc = "logout" /\ req'[r].pc = "clear"
    BY <1>1, <1>2, <1>4
<1> QED
    BY <1>3, <1>4, <1>5, <1>6, <1>7, <1>8, PhoneStep

LEMMA ScanInv == ASSUME IInv, NEW i \in Insts, NEW p \in Phones, Scan(i, p) PROVE IInv'
<1>1. /\ client' = [client EXCEPT ![i].phone = p]
      /\ happened' = [happened EXCEPT ![i] = @ \cup {p}]
      /\ astray' = IF status[i] = "CONFLICT" \/ \E q \in Reqs : req[q].inst = i /\ req[q].pc = "conflict"
                   THEN astray \cup {i} ELSE astray
      /\ UNCHANGED <<row, req, crossed, crowded, strays, crashes>>
    BY DEF Scan
<1>2. /\ client' \in [Insts -> [exists : BOOLEAN, phone : Phones \cup {Nil}]]
      /\ \A j \in Insts : client'[j].exists = client[j].exists
      /\ \A j \in Insts \ {i} : client'[j] = client[j]
    BY <1>1, ClientChange
<1>3. /\ happened' \in [Insts -> SUBSET Phones] /\ req' \in [Reqs -> ReqRecs]
      /\ astray' \subseteq Insts /\ astray \subseteq astray'
    BY <1>1 DEF IInv, TypeOK
<1>4. \A r \in Reqs : req'[r].pc = "conflict" /\ Exists(req[r].inst) =>
          client'[req[r].inst].phone = Nil \/ req[r].inst \in astray'
    BY <1>1, <1>2, <1>3, LoggedOut
<1>5. \A j \in Insts : status[j] = "CONFLICT" => client'[j].phone = Nil \/ j \in astray'
    BY <1>1, <1>2, <1>3, LoggedOut
<1> QED
    BY <1>1, <1>2, <1>3, <1>4, <1>5, PhoneStep

LEMMA EngineDropsInv == ASSUME IInv, NEW i \in Insts, EngineDrops(i) PROVE IInv'
<1>1. /\ client' = [client EXCEPT ![i].phone = Nil]
      /\ UNCHANGED <<row, happened, req, observers>>
    BY DEF EngineDrops
<1>2. /\ client' \in [Insts -> [exists : BOOLEAN, phone : Phones \cup {Nil}]]
      /\ \A j \in Insts : client'[j].exists = client[j].exists
      /\ \A j \in Insts : client'[j] = client[j] \/ client'[j].phone = Nil
    BY <1>1, ClientChange
<1>3. /\ happened' \in [Insts -> SUBSET Phones] /\ req' \in [Reqs -> ReqRecs]
      /\ astray' \subseteq Insts /\ UNCHANGED astray
      /\ UNCHANGED <<row, crossed, crowded, strays, crashes>>
    BY <1>1 DEF IInv, TypeOK, observers
<1>4. \A r \in Reqs : req'[r].pc = "conflict" /\ Exists(req[r].inst) =>
          client'[req[r].inst].phone = Nil \/ req[r].inst \in astray'
    BY <1>1, <1>2, <1>3, LoggedOut
<1>5. \A j \in Insts : status[j] = "CONFLICT" => client'[j].phone = Nil \/ j \in astray'
    BY <1>2, <1>3, LoggedOut
<1> QED
    BY <1>1, <1>2, <1>3, <1>4, <1>5, PhoneStep
-----------------------------------------------------------------------------
(* Creation and deletion *)

\* A request that ends or goes on leaves at most one instance to one creator.
LEMMA OneCreatorStep ==
    ASSUME IInv, NEW q \in Reqs,
           \A r \in Reqs \ {q} : /\ req'[r].inst = req[r].inst \/ req'[r] = IdleReq
                                 /\ req'[r].pc \in Creating =>
                                       req[r].pc \in Creating /\ req'[r].inst = req[r].inst,
           \/ req'[q] = IdleReq
           \/ /\ req'[q].inst = req[q].inst
              /\ req'[q].pc \in Creating => req[q].pc \in Creating
    PROVE  OneCreator'
<1> SUFFICES ASSUME NEW s \in Reqs, NEW t \in Reqs, req'[s].pc \in Creating,
                    req'[t].inst = req'[s].inst
             PROVE  t = s
    BY DEF OneCreator
<1>1. req[s].pc \in Creating /\ req[s].inst = req'[s].inst
    BY DEF IdleReq, Creating
<1>2. req[s].inst \in Insts /\ Nil \notin Insts
    BY <1>1, InstancesAssumption DEF IInv, Held, ReqOK, Creating
<1>3. req[t].inst = req'[t].inst
    BY <1>1, <1>2 DEF IdleReq
<1> QED
    BY <1>1, <1>3 DEF IInv, OneCreator

\* While a request creates an instance, no other is about it.
LEMMA CreatorAlone ==
    ASSUME IInv, NEW q \in Reqs, req[q].pc \in Creating, NEW r \in Reqs, r # q
    PROVE  req[r].inst # req[q].inst
BY DEF IInv, OneCreator

LEMMA EngineCreatesInv == ASSUME IInv, NEW q \in Reqs, EngineCreates(q) PROVE IInv'
<1>1. PICK i \in Insts : i = req[q].inst
    BY DEF EngineCreates, IInv, Held, ReqOK
<1>2. /\ req[q].pc = "engineCreate"
      /\ client' = [client EXCEPT ![i].exists = TRUE]
      /\ \/ Goto(q, "rowCreate") /\ UNCHANGED strays
         \/ EndReq(q) /\ strays' = strays \cup {i}
      /\ UNCHANGED <<row, happened, crossed, crowded, astray, crashes>>
    BY <1>1 DEF EngineCreates
<1>3. /\ client' \in [Insts -> [exists : BOOLEAN, phone : Phones \cup {Nil}]]
      /\ client'[i].exists /\ client'[i].phone = client[i].phone
      /\ \A j \in Insts \ {i} : client'[j] = client[j]
  <2>1. PICK c : c = [client[i] EXCEPT !.exists = TRUE]
      OBVIOUS
  <2>2. client[i] \in [exists : BOOLEAN, phone : Phones \cup {Nil}]
      BY DEF IInv, TypeOK
  <2>3. c \in [exists : BOOLEAN, phone : Phones \cup {Nil}] /\ c.exists /\ c.phone = client[i].phone
      BY <2>1, <2>2
  <2>4. client' = [client EXCEPT ![i] = c]
      BY <1>2, <2>1
  <2> QED
      BY <2>3, <2>4 DEF IInv, TypeOK
<1>4. /\ req' \in [Reqs -> ReqRecs]
      /\ \A r \in Reqs \ {q} : req'[r] = req[r]
      /\ \/ /\ req'[q].pc = "rowCreate" /\ req'[q].inst = i /\ req'[q].stale = req[q].stale
            /\ strays' = strays
         \/ req'[q] = IdleReq /\ strays' = strays \cup {i}
    BY <1>1, <1>2, GotoChange, EndChange DEF ReqPcs
<1>5. TypeOK'
    BY <1>2, <1>3, <1>4 DEF IInv, TypeOK, row
<1>6. Held'
  <2> SUFFICES ASSUME NEW r \in Reqs PROVE ReqOK(req[r])'
      BY DEF Held
  <2>1. CASE r = q
    <3>1. ReqOK(req[q])
        BY DEF IInv, Held
    <3>2. CASE req'[q] = IdleReq
        BY <2>1, <3>2 DEF ReqOK, IdleReq, Creating
    <3>3. CASE req'[q].pc = "rowCreate" /\ req'[q].inst = i /\ req'[q].stale = req[q].stale
      <4>1. status[i] = "none" /\ (~req[q].stale => Cardinality(RowsOf(OwnerOf[i])) < Limit)
          BY <1>1, <1>2, <3>1 DEF ReqOK, Creating
      <4>2. RowsOf(OwnerOf[i])' = RowsOf(OwnerOf[i])
          BY <1>2 DEF RowsOf, Exists, row
      <4> QED
          BY <1>2, <1>3, <2>1, <3>3, <4>1, <4>2 DEF ReqOK, Creating, row
    <3> QED
        BY <1>4, <3>2, <3>3
  <2>2. CASE r # q
    <3>1. PICK x : x = req[r]
        OBVIOUS
    <3>2. ReqOK(x) /\ req'[r] = x
        BY <1>4, <2>2, <3>1 DEF IInv, Held
    <3>3. x.inst # i
        BY <1>1, <1>2, <2>2, <3>1, CreatorAlone DEF Creating
    <3>4. x.inst \in Insts => client'[x.inst] = client[x.inst]
        BY <1>3, <3>3
    <3>5. x.inst \in strays => x.inst \in strays'
        BY <1>4
    <3>6. ReqOK(x)'
        BY <1>2, <3>2, <3>4, <3>5 DEF ReqOK, Taken, Exists, RowsOf, Creating, row
    <3> QED
        BY <3>2, <3>6 DEF ReqOK
  <2> QED
      BY <2>1, <2>2
<1>7. OneCreator'
    BY <1>1, <1>2, <1>4, OneCreatorStep DEF Creating
<1>8. Matched'
  <2>1. status[i] = "none"
      BY <1>1, <1>2 DEF IInv, Held, ReqOK, Creating
  <2>2. \A r \in Reqs : req[r].pc \in {"rowCreate", "rowDelete"} => req'[r] = req[r]
      BY <1>2, <1>4
  <2> QED
      BY <1>2, <1>3, <1>4, <2>1, <2>2 DEF IInv, Matched, Exists, Registered, row
<1>9. SharedOnlyByCrossing' /\ ConflictIsLoggedOut' /\ WithinPlan'
    BY <1>2, <1>3 DEF IInv, SharedOnlyByCrossing, Shared, ConflictIsLoggedOut, WithinPlan, RowsOf, Exists, row
<1> QED
    BY <1>5, <1>6, <1>7, <1>8, <1>9 DEF IInv

LEMMA EngineDeletesInv == ASSUME IInv, NEW q \in Reqs, EngineDeletes(q) PROVE IInv'
<1>1. PICK i \in Insts : i = req[q].inst
    BY DEF EngineDeletes, IInv, Held, ReqOK
<1>2. /\ req[q].pc = "engineDelete" /\ Goto(q, "rowDelete")
      /\ \/ client' = [client EXCEPT ![i] = NoClient] /\ UNCHANGED strays
         \/ UNCHANGED client /\ strays' = IF client[i].exists THEN strays \cup {i} ELSE strays
      /\ UNCHANGED <<row, happened, crossed, crowded, astray, crashes>>
    BY <1>1 DEF EngineDeletes
<1>3. /\ client' \in [Insts -> [exists : BOOLEAN, phone : Phones \cup {Nil}]]
      /\ \A j \in Insts \ {i} : client'[j] = client[j]
      /\ client'[i] = client[i] \/ (~client'[i].exists /\ client'[i].phone = Nil)
      /\ i \notin strays' => ~client'[i].exists
      /\ strays \subseteq strays' /\ strays' \subseteq strays \cup {i}
  <2>1. NoClient \in [exists : BOOLEAN, phone : Phones \cup {Nil}] /\ ~NoClient.exists /\ NoClient.phone = Nil
      BY DEF NoClient
  <2> QED
      BY <1>2, <2>1 DEF IInv, TypeOK
<1>4. /\ req' \in [Reqs -> ReqRecs]
      /\ \A r \in Reqs \ {q} : req'[r] = req[r]
      /\ req'[q].pc = "rowDelete" /\ req'[q].inst = i
    BY <1>1, <1>2, GotoChange DEF ReqPcs
<1>5. status[i] # "none"
    BY <1>1, <1>2 DEF IInv, Held, ReqOK, Creating
<1>6. TypeOK'
    BY <1>2, <1>3, <1>4 DEF IInv, TypeOK, row
<1>7. Held'
  <2> SUFFICES ASSUME NEW r \in Reqs PROVE ReqOK(req[r])'
      BY DEF Held
  <2>1. CASE r = q
      BY <1>2, <1>3, <1>4, <1>5, <2>1 DEF ReqOK, Creating, row
  <2>2. CASE r # q
    <3>1. PICK x : x = req[r]
        OBVIOUS
    <3>2. ReqOK(x) /\ req'[r] = x
        BY <1>4, <2>2, <3>1 DEF IInv, Held
    <3>3. x.pc \in Creating => x.inst # i
        BY <1>5, <3>2 DEF ReqOK
    <3>4. /\ x.inst \in Insts /\ x.inst # i => client'[x.inst] = client[x.inst]
          /\ x.inst = i => client'[x.inst] = client[x.inst] \/ (~client'[x.inst].exists /\ client'[x.inst].phone = Nil)
        BY <1>3
    <3>5. ReqOK(x)'
        BY <1>2, <1>3, <3>2, <3>3, <3>4 DEF ReqOK, Taken, Exists, RowsOf, Creating, row
    <3> QED
        BY <3>2, <3>5 DEF ReqOK
  <2> QED
      BY <2>1, <2>2
<1>8. OneCreator'
    BY <1>1, <1>4, OneCreatorStep DEF Creating
<1>9. Matched'
  <2>1. \A r \in Reqs : req[r].pc \in {"rowCreate", "rowDelete"} => req'[r] = req[r]
      BY <1>2, <1>4
  <2> QED
      BY <1>2, <1>3, <1>4, <1>5, <2>1 DEF IInv, Matched, Exists, row
<1>10. SharedOnlyByCrossing' /\ ConflictIsLoggedOut' /\ WithinPlan'
    BY <1>2, <1>3 DEF IInv, SharedOnlyByCrossing, Shared, ConflictIsLoggedOut, WithinPlan, RowsOf, Exists, row
<1> QED
    BY <1>6, <1>7, <1>8, <1>9, <1>10 DEF IInv

LEMMA RowCreatedInv == ASSUME IInv, NEW q \in Reqs, RowCreated(q) PROVE IInv'
<1>1. PICK i \in Insts : i = req[q].inst
    BY DEF RowCreated, IInv, Held, ReqOK
<1>2. PICK u \in Accounts : u = OwnerOf[i]
    BY InstancesAssumption
<1>3. /\ req[q].pc = "rowCreate"
      /\ status' = [status EXCEPT ![i] = "DISCONNECTED"]
      /\ crowded' = IF req[q].stale THEN crowded \cup {u} ELSE crowded
      /\ UNCHANGED <<jid, engine, crossed, strays, astray, crashes>>
    BY <1>1, <1>2 DEF RowCreated
<1>4. status[i] = "none" /\ client[i].exists /\ (~req[q].stale => Cardinality(RowsOf(u)) < Limit)
    BY <1>1, <1>2, <1>3 DEF IInv, Held, ReqOK, Creating
<1>5. /\ status'[i] = "DISCONNECTED"
      /\ \A j \in Insts \ {i} : status'[j] = status[j]
      /\ status' \in [Insts -> Registered \cup {"none", "gone"}]
    BY <1>3 DEF IInv, TypeOK, Registered
<1>6. req'[q] = IdleReq
    BY DEF RowCreated
<1>7. \A r \in Reqs \ {q} : /\ req'[r] \in ReqRecs
                            /\ req'[r].pc = req[r].pc /\ req'[r].inst = req[r].inst
                            /\ req'[r].live = req[r].live
                            /\ req[r].stale => req'[r].stale
                            /\ req[r].pc \in Creating /\ OwnerOf[req[r].inst] = u => req'[r].stale
  <2> SUFFICES ASSUME NEW r \in Reqs, r # q
               PROVE  /\ req'[r] \in ReqRecs
                      /\ req'[r].pc = req[r].pc /\ req'[r].inst = req[r].inst
                      /\ req'[r].live = req[r].live
                      /\ req[r].stale => req'[r].stale
                      /\ req[r].pc \in Creating /\ OwnerOf[req[r].inst] = u => req'[r].stale
      OBVIOUS
  <2>1. req[r] \in ReqRecs
      BY DEF IInv, TypeOK
  <2>2. PICK b \in BOOLEAN : b = (req[r].stale \/ (req[r].pc \in Creating /\ OwnerOf[req[r].inst] = u))
      OBVIOUS
  <2>3. req'[r] = [req[r] EXCEPT !.stale = b]
      BY <1>1, <1>2, <2>2 DEF RowCreated, Creating
  <2> QED
      BY <2>1, <2>2, <2>3 DEF ReqRecs
<1>8. req' \in [Reqs -> ReqRecs]
    BY <1>6, <1>7, IdleTyped DEF RowCreated
<1>9. TypeOK'
    BY <1>3, <1>5, <1>8 DEF IInv, TypeOK, engine
<1>10. /\ RowsOf(u)' = RowsOf(u) \cup {i} /\ i \notin RowsOf(u)
       /\ \A v \in Accounts \ {u} : RowsOf(v)' = RowsOf(v)
    BY <1>2, <1>4, <1>5 DEF RowsOf, Exists, Registered
<1>11. IsFiniteSet(RowsOf(u)) /\ Cardinality(RowsOf(u)) \in Nat
    BY FS_Subset, FS_CardinalityType, InstancesAssumption DEF RowsOf
<1>12. Cardinality(RowsOf(u)') = Cardinality(RowsOf(u)) + 1
    BY <1>10, <1>11, FS_AddElement
<1>13. Held'
  <2> SUFFICES ASSUME NEW r \in Reqs PROVE ReqOK(req[r])'
      BY DEF Held
  <2>1. CASE r = q
      BY <1>6, <2>1 DEF ReqOK, IdleReq, Creating
  <2>2. CASE r # q
    <3>1. PICK x : x = req'[r]
        OBVIOUS
    <3>2. ReqOK(req[r]) /\ x.pc = req[r].pc /\ x.inst = req[r].inst /\ x.live = req[r].live
        BY <1>7, <2>2, <3>1 DEF IInv, Held
    <3>3. x.inst # i
        BY <1>1, <1>3, <2>2, <3>2, CreatorAlone DEF Creating
    <3>4. x.inst \in Insts => status'[x.inst] = status[x.inst]
        BY <1>5, <3>3
    <3>5. Taken(x.inst, x.live)' => Taken(x.inst, x.live)
        BY <1>3, <1>5 DEF Taken
    <3>6. x.pc = "write" /\ ~x.stale => ~Taken(x.inst, x.live)
        BY <1>7, <2>2, <3>1, <3>2 DEF ReqOK
    <3>7. x.pc \in Creating /\ ~x.stale => Cardinality(RowsOf(OwnerOf[x.inst])') < Limit
      <4> SUFFICES ASSUME x.pc \in Creating, ~x.stale PROVE Cardinality(RowsOf(OwnerOf[x.inst])') < Limit
          OBVIOUS
      <4>1. OwnerOf[x.inst] # u /\ ~req[r].stale
          BY <1>7, <2>2, <3>1, <3>2
      <4>2. x.inst \in Insts /\ OwnerOf[x.inst] \in Accounts
          BY <3>2, InstancesAssumption DEF ReqOK, Creating
      <4>3. Cardinality(RowsOf(OwnerOf[x.inst])) < Limit
          BY <3>2, <4>1 DEF ReqOK
      <4> QED
          BY <1>10, <4>1, <4>2, <4>3
    <3>8. ReqOK(x)'
        BY <1>3, <3>2, <3>4, <3>5, <3>6, <3>7 DEF ReqOK, Exists, Creating, engine
    <3> QED
        BY <3>1, <3>8 DEF ReqOK
  <2> QED
      BY <2>1, <2>2
<1>14. OneCreator'
    BY <1>6, <1>7, OneCreatorStep
<1>15. Matched'
  <2> SUFFICES ASSUME NEW j \in Insts \ strays
               PROVE  /\ status'[j] = "none" /\ client[j].exists =>
                            \E r \in Reqs : req'[r].inst = j /\ req'[r].pc = "rowCreate"
                      /\ Exists(j)' /\ ~client[j].exists =>
                            \E r \in Reqs : req'[r].inst = j /\ req'[r].pc = "rowDelete"
                      /\ status'[j] = "gone" => ~client[j].exists
      BY <1>3 DEF Matched, engine
  <2>1. CASE j = i
      BY <1>4, <1>5, <2>1
  <2>2. CASE j # i
    <3>1. \A r \in Reqs : req[r].inst = j => req'[r].inst = j /\ req'[r].pc = req[r].pc
        BY <1>1, <1>7, <2>2
    <3> QED
        BY <1>5, <2>2, <3>1 DEF IInv, Matched, Exists
  <2> QED
      BY <2>1, <2>2
<1>16. SharedOnlyByCrossing' /\ ConflictIsLoggedOut'
  <2>1. \A p \in Phones : Shared(p)' => Shared(p)
      BY <1>3, <1>5 DEF Shared
  <2> QED
      BY <1>3, <1>5, <2>1 DEF IInv, SharedOnlyByCrossing, ConflictIsLoggedOut, engine
<1>17. WithinPlan'
  <2> SUFFICES ASSUME NEW v \in Accounts, Cardinality(RowsOf(v)') > Limit PROVE v \in crowded'
      BY DEF WithinPlan
  <2>1. CASE v = u
    <3>1. req[q].stale
        BY <1>4, <1>11, <1>12, <2>1, InstancesAssumption
    <3> QED
        BY <1>3, <2>1, <3>1
  <2>2. CASE v # u
      BY <1>3, <1>10, <2>2 DEF IInv, WithinPlan
  <2> QED
      BY <2>1, <2>2
<1> QED
    BY <1>9, <1>13, <1>14, <1>15, <1>16, <1>17 DEF IInv
LEMMA RowDeletedInv == ASSUME IInv, NEW q \in Reqs, RowDeleted(q) PROVE IInv'
<1>1. PICK i \in Insts : i = req[q].inst
    BY DEF RowDeleted, IInv, Held, ReqOK
<1>2. /\ req[q].pc = "rowDelete" /\ Exists(i) /\ EndReq(q)
      /\ status' = [status EXCEPT ![i] = "gone"]
      /\ jid' = [jid EXCEPT ![i] = Nil]
      /\ happened' = [happened EXCEPT ![i] = {}]
      /\ astray' = astray \ {i}
      /\ UNCHANGED <<client, crossed, crowded, strays, crashes>>
    BY <1>1 DEF RowDeleted
<1>3. /\ status'[i] = "gone" /\ ~Exists(i)'
      /\ \A j \in Insts \ {i} : status'[j] = status[j] /\ jid'[j] = jid[j]
      /\ i \notin strays => ~client[i].exists
    BY <1>1, <1>2 DEF IInv, TypeOK, Held, ReqOK, Exists, Registered
<1>4. /\ req' \in [Reqs -> ReqRecs] /\ req'[q] = IdleReq
      /\ \A r \in Reqs \ {q} : req'[r] = req[r]
    BY <1>2, EndChange
<1>5. TypeOK'
    BY <1>2, <1>4 DEF IInv, TypeOK
<1>6. \A v : RowsOf(v)' = RowsOf(v) \ {i}
    BY <1>3 DEF RowsOf, Exists
<1>7. \A v : /\ IsFiniteSet(RowsOf(v)) /\ Cardinality(RowsOf(v)) \in Nat
             /\ Cardinality(RowsOf(v) \ {i}) \in Nat
             /\ Cardinality(RowsOf(v) \ {i}) <= Cardinality(RowsOf(v))
  <2> SUFFICES ASSUME NEW v
               PROVE  /\ IsFiniteSet(RowsOf(v)) /\ Cardinality(RowsOf(v)) \in Nat
                      /\ Cardinality(RowsOf(v) \ {i}) \in Nat
                      /\ Cardinality(RowsOf(v) \ {i}) <= Cardinality(RowsOf(v))
      OBVIOUS
  <2>1. IsFiniteSet(RowsOf(v))
      BY FS_Subset, InstancesAssumption DEF RowsOf
  <2>2. IsFiniteSet(RowsOf(v) \ {i}) /\ Cardinality(RowsOf(v) \ {i}) <= Cardinality(RowsOf(v))
      BY <2>1, FS_Subset
  <2> QED
      BY <2>1, <2>2, FS_CardinalityType
<1>8. Held'
  <2> SUFFICES ASSUME NEW r \in Reqs PROVE ReqOK(req[r])'
      BY DEF Held
  <2>1. CASE r = q
      BY <1>4, <2>1 DEF ReqOK, IdleReq, Creating
  <2>2. CASE r # q
    <3>1. PICK x : x = req[r]
        OBVIOUS
    <3>2. ReqOK(x) /\ req'[r] = x
        BY <1>4, <2>2, <3>1 DEF IInv, Held
    <3>3. x.pc \in Creating => x.inst # i
        BY <1>2, <3>2 DEF ReqOK, Exists, Registered
    <3>4. Taken(x.inst, x.live)' => Taken(x.inst, x.live)
        BY <1>3 DEF Taken
    <3>5. x.pc \in Creating /\ ~x.stale => Cardinality(RowsOf(OwnerOf[x.inst])') < Limit
      <4> SUFFICES ASSUME x.pc \in Creating, ~x.stale PROVE Cardinality(RowsOf(OwnerOf[x.inst])') < Limit
          OBVIOUS
      <4>1. Cardinality(RowsOf(OwnerOf[x.inst])) < Limit
          BY <3>2 DEF ReqOK
      <4> QED
          BY <1>6, <1>7, <4>1, InstancesAssumption
    <3>6. /\ x.inst \in Insts => status'[x.inst] = "none" <=> status[x.inst] = "none"
          /\ x.pc = "conflict" /\ Exists(x.inst)' => client[x.inst].phone = Nil \/ x.inst \in astray'
      <4>1. CASE x.inst = i
          BY <1>2, <1>3, <4>1 DEF Exists, Registered
      <4>2. CASE x.inst # i
          BY <1>2, <1>3, <3>2, <4>2 DEF ReqOK, Exists
      <4> QED
          BY <4>1, <4>2
    <3>7. ReqOK(x)'
        BY <1>2, <3>2, <3>4, <3>5, <3>6 DEF ReqOK, Creating
    <3> QED
        BY <3>2, <3>7 DEF ReqOK
  <2> QED
      BY <2>1, <2>2
<1>9. OneCreator'
    BY <1>4, OneCreatorStep
<1>10. Matched'
  <2>1. \A j \in Insts, r \in Reqs : j # i /\ req[r].inst = j => req'[r] = req[r]
      BY <1>1, <1>4
  <2> QED
      BY <1>2, <1>3, <2>1 DEF IInv, Matched, Exists
<1>11. SharedOnlyByCrossing' /\ ConflictIsLoggedOut'
  <2>1. \A p \in Phones : Shared(p)' => Shared(p)
      BY <1>3 DEF Shared
  <2> QED
      BY <1>2, <1>3, <2>1 DEF IInv, SharedOnlyByCrossing, ConflictIsLoggedOut
<1>12. WithinPlan'
  <2> SUFFICES ASSUME NEW v \in Accounts, Cardinality(RowsOf(v)') > Limit PROVE v \in crowded
      BY <1>2 DEF WithinPlan
  <2>1. Cardinality(RowsOf(v)) > Limit
      BY <1>6, <1>7, InstancesAssumption
  <2> QED
      BY <2>1 DEF IInv, WithinPlan
<1> QED
    BY <1>5, <1>8, <1>9, <1>10, <1>11, <1>12 DEF IInv

\* Requests end, and what they leave half-way is astray from its row.
LEMMA RequestsEnd ==
    ASSUME IInv, NEW E \in SUBSET Reqs,
           req' = [r \in Reqs |-> IF r \in E THEN IdleReq ELSE req[r]],
           strays' = strays \cup UNION {HalfWay(r) : r \in E},
           crashes' \in 0..MaxCrashes, UNCHANGED <<row, engine, crossed, crowded, astray>>
    PROVE  IInv'
<1> USE DEF row, engine
<1>1. /\ strays \subseteq strays' /\ strays' \subseteq Insts
      /\ \A r \in E, i \in Insts : req[r].inst = i /\ req[r].pc \in {"rowCreate", "rowDelete"} =>
             i \in strays'
    BY DEF HalfWay, IInv, TypeOK
<1>2. /\ \A r \in E : req'[r] = IdleReq
      /\ \A r \in Reqs \ E : req'[r] = req[r]
    OBVIOUS
<1>3. TypeOK'
    BY <1>1, IdleTyped DEF IInv, TypeOK
<1>4. Held'
  <2> SUFFICES ASSUME NEW r \in Reqs PROVE ReqOK(req[r])'
      BY DEF Held
  <2>1. CASE r \in E
      BY <1>2, <2>1 DEF ReqOK, IdleReq, Creating
  <2>2. CASE r \notin E
    <3>1. PICK x : x = req[r]
        OBVIOUS
    <3>2. ReqOK(x) /\ req'[r] = x
        BY <1>2, <2>2, <3>1 DEF IInv, Held
    <3>3. ReqOK(x)'
        BY <1>1, <3>2 DEF ReqOK, Taken, Exists, RowsOf, Creating
    <3> QED
        BY <3>2, <3>3 DEF ReqOK
  <2> QED
      BY <2>1, <2>2
<1>5. OneCreator'
  <2> SUFFICES ASSUME NEW s \in Reqs, NEW t \in Reqs, req'[s].pc \in Creating,
                      req'[t].inst = req'[s].inst
               PROVE  t = s
      BY DEF OneCreator
  <2>1. s \notin E /\ req'[s] = req[s]
      BY <1>2 DEF IdleReq, Creating
  <2>2. req[s].inst \in Insts /\ Nil \notin Insts
      BY <2>1, InstancesAssumption DEF IInv, Held, ReqOK, Creating
  <2>3. t \notin E
      BY <1>2, <2>1, <2>2 DEF IdleReq
  <2> QED
      BY <1>2, <2>1, <2>3 DEF IInv, OneCreator
<1>6. Matched'
    BY <1>1, <1>2 DEF IInv, Matched, Exists
<1>7. SharedOnlyByCrossing' /\ ConflictIsLoggedOut' /\ WithinPlan'
    BY DEF IInv, SharedOnlyByCrossing, Shared, ConflictIsLoggedOut, WithinPlan, RowsOf, Exists
<1> QED
    BY <1>3, <1>4, <1>5, <1>6, <1>7 DEF IInv

LEMMA ReqFailsInv == ASSUME IInv, NEW q \in Reqs, ReqFails(q) PROVE IInv'
<1>1. req' = [r \in Reqs |-> IF r \in {q} THEN IdleReq ELSE req[r]]
    BY DEF ReqFails, EndReq, IInv, TypeOK
<1>2. strays' = strays \cup UNION {HalfWay(r) : r \in {q}}
    BY DEF ReqFails
<1>3. crashes' \in 0..MaxCrashes /\ UNCHANGED <<row, engine, crossed, crowded, astray>>
    BY DEF ReqFails, IInv, TypeOK
<1> QED
    BY <1>1, <1>2, <1>3, RequestsEnd

LEMMA CrashInv == ASSUME IInv, Crash PROVE IInv'
<1>1. req' = [r \in Reqs |-> IF r \in Reqs THEN IdleReq ELSE req[r]]
    BY DEF Crash
<1>2. crashes' \in 0..MaxCrashes
    BY InstancesAssumption DEF Crash, IInv, TypeOK
<1> QED
    BY <1>1, <1>2, RequestsEnd DEF Crash

-----------------------------------------------------------------------------
LEMMA ReqStepInv == ASSUME IInv, NEW q \in Reqs, ReqStep(q) PROVE IInv'
<1>1. CASE Poll(q) \/ PollAnswered(q) \/ PollClears(q) \/ ConnectedEvent(q) \/ Check(q)
    BY <1>1, PollInv, PollAnsweredInv, PollClearsInv, ConnectedEventInv, CheckInv
<1>2. CASE Kick(q) \/ MarkConflict(q) \/ Write(q) \/ ListWrites(q)
    BY <1>2, KickInv, MarkConflictInv, WriteInv, ListWritesInv
<1>3. CASE DisconnectedEvent(q) \/ Qr(q) \/ Logout(q) \/ Delete(q)
    BY <1>3, PlainBeginInv
<1>4. CASE QrResets(q) \/ QrShown(q) \/ QrAnswered(q) \/ QrWrites(q) \/ LogoutAnswered(q)
    BY <1>4, QrResetsInv, QrShownInv, QrAnsweredInv, QrWritesInv, LogoutAnsweredInv
<1>5. CASE Create(q) \/ EngineCreates(q) \/ RowCreated(q)
    BY <1>5, CreateInv, EngineCreatesInv, RowCreatedInv
<1>6. CASE EngineDeletes(q) \/ RowDeleted(q) \/ ReqFails(q)
    BY <1>6, EngineDeletesInv, RowDeletedInv, ReqFailsInv
<1> QED
    BY <1>1, <1>2, <1>3, <1>4, <1>5, <1>6 DEF ReqStep

LEMMA NextInv == IInv /\ [Next]_vars => IInv'
<1> SUFFICES ASSUME IInv, [Next]_vars PROVE IInv'
    OBVIOUS
<1>1. CASE \E q \in Reqs : ReqStep(q)
    BY <1>1, ReqStepInv
<1>2. CASE \E i \in Insts : EngineDrops(i) \/ \E p \in Phones : Scan(i, p)
    BY <1>2, EngineDropsInv, ScanInv
<1>3. CASE \E u \in Accounts : ExpirySweep(u)
    BY <1>3, ExpirySweepInv
<1>4. CASE Crash
    BY <1>4, CrashInv
<1>5. CASE UNCHANGED vars
    BY <1>5, StutterInv
<1> QED
    BY <1>1, <1>2, <1>3, <1>4, <1>5 DEF Next

\* The inductive invariant holds in every reachable state.
THEOREM Invariance == Spec => []IInv
<1>1. Init => IInv
    BY InitInv
<1>2. IInv /\ [Next]_vars => IInv'
    BY NextInv
<1> QED
    BY <1>1, <1>2, PTL DEF Spec

\* Type correctness of the table, the clients and the requests.
THEOREM TypeCorrect == Spec => []TypeOK
<1>1. IInv => TypeOK
    BY DEF IInv
<1> QED
    BY <1>1, Invariance, PTL

\* A number is CONNECTED for one account but for the two crossings: another
\* connection of it between check and update, and the QR request, which does not
\* check (whatsapp.ts:176-215, qr/route.ts:93).
THEOREM SharedOnlyByCrossingAlways == Spec => []SharedOnlyByCrossing
<1>1. IInv => SharedOnlyByCrossing
    BY DEF IInv
<1> QED
    BY <1>1, Invariance, PTL

\* An instance marked CONFLICT is logged out at the engine, unless its logout failed
\* or it was paired after it (whatsapp.ts:198-215).
THEOREM ConflictIsLoggedOutAlways == Spec => []ConflictIsLoggedOut
<1>1. IInv => ConflictIsLoggedOut
    BY DEF IInv
<1> QED
    BY <1>1, Invariance, PTL

\* No account has more instances than its plan allows but by overlapping creations
\* (instances/route.ts:114-154), for every limit.
THEOREM WithinPlanAlways == Spec => []WithinPlan
<1>1. IInv => WithinPlan
    BY DEF IInv
<1> QED
    BY <1>1, Invariance, PTL

\* The engine's clients are those of the table, once the requests about an instance
\* are done, unless one got no further than half-way.
THEOREM ClientsMatchRowsAlways == Spec => []ClientsMatchRows
<1>1. IInv => ClientsMatchRows
  <2> SUFFICES ASSUME IInv, NEW i \in Insts \ strays, \A q \in Reqs : req[q].inst # i
               PROVE  client[i].exists <=> Exists(i)
      BY DEF ClientsMatchRows
  <2>1. status[i] \in Registered \cup {"none", "gone"}
      BY DEF IInv, TypeOK
  <2> QED
      BY <2>1 DEF IInv, Matched, Exists, Registered
<1> QED
    BY <1>1, Invariance, PTL

-----------------------------------------------------------------------------
(* The refinement of NumberRegistry *)

\* Where an instance is, and the number it is connected with: what the refinement
\* mapping substitutes for the variables of NumberRegistry.
placeOf == [i \in Insts |-> CASE status[i] = "none"     -> "new"
                              [] status[i] = "CONFLICT" -> "refused"
                              [] status[i] = "gone"     -> "removed"
                              [] OTHER                  -> "listed"]
numberOf == [i \in Insts |-> IF status[i] = "CONNECTED" THEN jid[i] ELSE Nil]

\* The steps of NumberRegistry, read through the mapping.
LEMMA Mapping ==
    /\ UNCHANGED <<placeOf, numberOf, crossed>> => UNCHANGED Registry!vars
    /\ \A i \in Insts :
        /\ placeOf[i] = "new" /\ placeOf' = [placeOf EXCEPT ![i] = "listed"]
        /\ UNCHANGED <<numberOf, crossed>>
        => Registry!Next
    /\ \A i \in Insts, p \in Phones :
        /\ placeOf[i] \in {"listed", "refused"}
        /\ crossed' \in {crossed, crossed \cup {p}}
        /\ (\E j \in Insts : OwnerOf[j] # OwnerOf[i] /\ numberOf[j] = p) => p \in crossed'
        /\ placeOf' = [placeOf EXCEPT ![i] = "listed"]
        /\ numberOf' = [numberOf EXCEPT ![i] = p]
        => Registry!Next
    /\ \A I \in SUBSET Insts :
        /\ \E u \in Accounts : \A i \in I : OwnerOf[i] = u
        /\ numberOf' = [i \in Insts |-> IF i \in I THEN Nil ELSE numberOf[i]]
        /\ UNCHANGED <<placeOf, crossed>>
        => Registry!Next
    /\ \A i \in Insts :
        /\ placeOf[i] \in {"listed", "refused"}
        /\ placeOf' = [placeOf EXCEPT ![i] = "refused"]
        /\ numberOf' = [numberOf EXCEPT ![i] = Nil]
        /\ UNCHANGED crossed
        => Registry!Next
    /\ \A i \in Insts :
        /\ placeOf[i] = "refused" /\ placeOf' = [placeOf EXCEPT ![i] = "listed"]
        /\ UNCHANGED <<numberOf, crossed>>
        => Registry!Next
    /\ \A i \in Insts :
        /\ placeOf[i] \in {"listed", "refused"}
        /\ placeOf' = [placeOf EXCEPT ![i] = "removed"]
        /\ numberOf' = [numberOf EXCEPT ![i] = Nil]
        /\ UNCHANGED crossed
        => Registry!Next
<1> USE DEF placeOf, numberOf
<1>1. UNCHANGED <<placeOf, numberOf, crossed>> => UNCHANGED Registry!vars
    BY DEF Registry!vars
<1>2. ASSUME NEW i \in Insts, placeOf[i] = "new", placeOf' = [placeOf EXCEPT ![i] = "listed"],
             UNCHANGED <<numberOf, crossed>>
      PROVE  Registry!Enter(i)
    BY <1>2 DEF Registry!Enter
<1>3. ASSUME NEW i \in Insts, NEW p \in Phones, placeOf[i] \in {"listed", "refused"},
             crossed' \in {crossed, crossed \cup {p}},
             (\E j \in Insts : OwnerOf[j] # OwnerOf[i] /\ numberOf[j] = p) => p \in crossed',
             placeOf' = [placeOf EXCEPT ![i] = "listed"],
             numberOf' = [numberOf EXCEPT ![i] = p]
      PROVE  Registry!Connect(i, p)
    BY <1>3 DEF Registry!Connect, Registry!InTable, Registry!Elsewhere
<1>4. ASSUME NEW I \in SUBSET Insts, \E u \in Accounts : \A i \in I : OwnerOf[i] = u,
             numberOf' = [i \in Insts |-> IF i \in I THEN Nil ELSE numberOf[i]],
             UNCHANGED <<placeOf, crossed>>
      PROVE  Registry!Release(I)
    BY <1>4 DEF Registry!Release
<1>5. ASSUME NEW i \in Insts, placeOf[i] \in {"listed", "refused"},
             placeOf' = [placeOf EXCEPT ![i] = "refused"],
             numberOf' = [numberOf EXCEPT ![i] = Nil], UNCHANGED crossed
      PROVE  Registry!Refuse(i)
    BY <1>5 DEF Registry!Refuse, Registry!InTable
<1>6. ASSUME NEW i \in Insts, placeOf[i] = "refused", placeOf' = [placeOf EXCEPT ![i] = "listed"],
             UNCHANGED <<numberOf, crossed>>
      PROVE  Registry!Lift(i)
    BY <1>6 DEF Registry!Lift
<1>7. ASSUME NEW i \in Insts, placeOf[i] \in {"listed", "refused"},
             placeOf' = [placeOf EXCEPT ![i] = "removed"],
             numberOf' = [numberOf EXCEPT ![i] = Nil], UNCHANGED crossed
      PROVE  Registry!Remove(i)
    BY <1>7 DEF Registry!Remove, Registry!InTable
<1> HIDE DEF placeOf, numberOf
<1>8. /\ \A i \in Insts : Registry!Enter(i) \/ Registry!Refuse(i) \/ Registry!Lift(i)
                            \/ Registry!Remove(i) => Registry!Next
      /\ \A i \in Insts, p \in Phones : Registry!Connect(i, p) => Registry!Next
      /\ \A I \in SUBSET Insts : Registry!Release(I) => Registry!Next
    BY DEF Registry!Next
<1> QED
    BY <1>1, <1>2, <1>3, <1>4, <1>5, <1>6, <1>7, <1>8

\* The place and the number of a single instance, by its row.
LEMMA PlaceOfRow ==
    ASSUME TypeOK, NEW i \in Insts
    PROVE  /\ placeOf[i] = "new" <=> status[i] = "none"
           /\ placeOf[i] = "refused" <=> status[i] = "CONFLICT"
           /\ placeOf[i] = "removed" <=> status[i] = "gone"
           /\ placeOf[i] = "listed" <=> status[i] \in {"DISCONNECTED", "CONNECTED"}
           /\ Exists(i) => placeOf[i] \in {"listed", "refused"}
           /\ numberOf[i] = IF status[i] = "CONNECTED" THEN jid[i] ELSE Nil
           /\ \A p \in Phones : numberOf[i] = p <=> status[i] = "CONNECTED" /\ jid[i] = p
<1>1. status[i] \in Registered \cup {"none", "gone"} /\ Nil \notin Phones
    BY InstancesAssumption DEF TypeOK
<1> QED
    BY <1>1 DEF placeOf, numberOf, Exists, Registered

\* A step that changes no row but that of i changes no other place and number.
LEMMA OneRow ==
    ASSUME NEW i \in Insts,
           \A j \in Insts \ {i} : status'[j] = status[j] /\ jid'[j] = jid[j]
    PROVE  /\ placeOf' = [placeOf EXCEPT ![i] = placeOf'[i]]
           /\ numberOf' = [numberOf EXCEPT ![i] = numberOf'[i]]
           /\ placeOf'[i] = placeOf[i] => placeOf' = placeOf
           /\ numberOf'[i] = numberOf[i] => numberOf' = numberOf
    BY DEF placeOf, numberOf

\* A step that leaves the rows and the crossings alone.
LEMMA UnseenKept ==
    UNCHANGED <<status, jid, crossed>> => UNCHANGED Registry!vars
<1> SUFFICES ASSUME UNCHANGED <<status, jid, crossed>> PROVE UNCHANGED Registry!vars
    OBVIOUS
<1>1. UNCHANGED <<placeOf, numberOf, crossed>>
    BY DEF placeOf, numberOf
<1> QED
    BY <1>1, Mapping

\* A row becomes DISCONNECTED: its number is released, or a refusal is lifted.
LEMMA DisconnectKept ==
    ASSUME TypeOK, TypeOK', NEW i \in Insts, Exists(i),
           status' = [status EXCEPT ![i] = "DISCONNECTED"], UNCHANGED <<jid, crossed>>
    PROVE  Registry!Next
<1>1. /\ status'[i] = "DISCONNECTED"
      /\ \A j \in Insts \ {i} : status'[j] = status[j] /\ jid'[j] = jid[j]
    BY DEF TypeOK
<1>2. placeOf'[i] = "listed" /\ numberOf'[i] = Nil
    BY <1>1 DEF placeOf, numberOf
<1>3. /\ placeOf' = [placeOf EXCEPT ![i] = "listed"]
      /\ numberOf' = [numberOf EXCEPT ![i] = Nil]
    BY <1>1, <1>2, OneRow
<1>4. CASE status[i] = "CONFLICT"
  <2>1. placeOf[i] = "refused" /\ numberOf[i] = Nil
      BY <1>4, PlaceOfRow
  <2>2. numberOf' = numberOf
      BY <1>1, <1>2, <2>1, OneRow
  <2> QED
      BY <1>3, <2>1, <2>2, Mapping
<1>5. CASE status[i] # "CONFLICT"
  <2>1. placeOf[i] = "listed"
      BY <1>5, PlaceOfRow
  <2>2. placeOf' = placeOf
      BY <1>1, <1>2, <2>1, OneRow
  <2>3. PICK I \in SUBSET Insts : I = {i}
      OBVIOUS
  <2>4. numberOf' = [j \in Insts |-> IF j \in I THEN Nil ELSE numberOf[j]]
      BY <1>3, <2>3 DEF numberOf
  <2>5. \E u \in Accounts : \A j \in I : OwnerOf[j] = u
      BY <2>3, InstancesAssumption
  <2> QED
      BY <2>2, <2>4, <2>5, Mapping
<1> QED
    BY <1>4, <1>5

\* A row becomes, or stays, CONNECTED with number p.
LEMMA ConnectKept ==
    ASSUME TypeOK, TypeOK', NEW i \in Insts, NEW p \in Phones, Exists(i),
           status' = [status EXCEPT ![i] = "CONNECTED"], jid' = [jid EXCEPT ![i] = p],
           crossed' \in {crossed, crossed \cup {p}}, Taken(i, p) => p \in crossed'
    PROVE  Registry!Next
<1>1. /\ status'[i] = "CONNECTED" /\ jid'[i] = p
      /\ \A j \in Insts \ {i} : status'[j] = status[j] /\ jid'[j] = jid[j]
    BY DEF TypeOK
<1>2. placeOf'[i] = "listed" /\ numberOf'[i] = p
    BY <1>1 DEF placeOf, numberOf
<1>3. /\ placeOf' = [placeOf EXCEPT ![i] = "listed"]
      /\ numberOf' = [numberOf EXCEPT ![i] = p]
    BY <1>1, <1>2, OneRow
<1>4. (\E j \in Insts : OwnerOf[j] # OwnerOf[i] /\ numberOf[j] = p) => p \in crossed'
    BY PlaceOfRow DEF Taken
<1>5. placeOf[i] \in {"listed", "refused"}
    BY PlaceOfRow
<1> QED
    BY <1>3, <1>4, <1>5, Mapping

LEMMA WriteKept == ASSUME IInv, TypeOK', NEW q \in Reqs, Write(q) PROVE Registry!Next
<1>1. req[q].pc = "write" /\ req[q].inst \in Insts /\ req[q].live \in Phones
    BY DEF Write, IInv, Held, ReqOK
<1>2. PICK i \in Insts, p \in Phones : i = req[q].inst /\ p = req[q].live
    BY <1>1
<1>3. /\ Exists(i)
      /\ status' = [status EXCEPT ![i] = "CONNECTED"] /\ jid' = [jid EXCEPT ![i] = p]
      /\ crossed' = IF req[q].stale THEN crossed \cup {p} ELSE crossed
    BY <1>2 DEF Write
<1>4. Taken(i, p) => req[q].stale
    BY <1>1, <1>2 DEF IInv, Held, ReqOK
<1>5. crossed' \in {crossed, crossed \cup {p}} /\ (Taken(i, p) => p \in crossed')
    BY <1>3, <1>4
<1> QED
    BY <1>3, <1>5, ConnectKept DEF IInv

LEMMA ListWritesKept ==
    ASSUME IInv, TypeOK', NEW q \in Reqs, ListWrites(q)
    PROVE  Registry!Next \/ UNCHANGED Registry!vars
<1>1. req[q].pc = "write" /\ req[q].inst \in Insts /\ req[q].live \in Phones
    BY DEF ListWrites, IInv, Held, ReqOK
<1>2. PICK i \in Insts, p \in Phones : i = req[q].inst /\ p = req[q].live
    BY <1>1
<1>3. /\ Exists(i) /\ jid' = [jid EXCEPT ![i] = p] /\ UNCHANGED status
      /\ crossed' = IF req[q].stale /\ status[i] = "CONNECTED" THEN crossed \cup {p} ELSE crossed
    BY <1>2 DEF ListWrites
<1>4. CASE status[i] = "CONNECTED"
  <2>1. status' = [status EXCEPT ![i] = "CONNECTED"]
      BY <1>3, <1>4 DEF IInv, TypeOK
  <2>2. Taken(i, p) => req[q].stale
      BY <1>1, <1>2 DEF IInv, Held, ReqOK
  <2>3. crossed' \in {crossed, crossed \cup {p}} /\ (Taken(i, p) => p \in crossed')
      BY <1>3, <1>4, <2>2
  <2> QED
      BY <1>3, <2>1, <2>3, ConnectKept DEF IInv
<1>5. CASE status[i] # "CONNECTED"
  <2>1. \A j \in Insts \ {i} : jid'[j] = jid[j]
      BY <1>3 DEF IInv, TypeOK
  <2>2. UNCHANGED <<placeOf, numberOf, crossed>>
      BY <1>3, <1>5, <2>1 DEF placeOf, numberOf
  <2> QED
      BY <2>2, Mapping
<1> QED
    BY <1>4, <1>5

\* The QR request connects the number the engine named, or the one of the row; with
\* neither the instance is listed without a number.
LEMMA QrWritesKept ==
    ASSUME IInv, TypeOK', NEW q \in Reqs, QrWrites(q)
    PROVE  Registry!Next \/ UNCHANGED Registry!vars
<1>1. req[q].pc = "writeQr" /\ req[q].inst \in Insts /\ req[q] \in ReqRecs
    BY DEF QrWrites, IInv, TypeOK, Held, ReqOK
<1>2. PICK i \in Insts : i = req[q].inst
    BY <1>1
<1>3. PICK p \in Phones \cup {Nil} : p = IF req[q].live # Nil THEN req[q].live ELSE jid[i]
    BY <1>1 DEF IInv, TypeOK, ReqRecs
<1>4. /\ Exists(i)
      /\ status' = [status EXCEPT ![i] = "CONNECTED"] /\ jid' = [jid EXCEPT ![i] = p]
      /\ crossed' = IF p # Nil /\ Taken(i, p) THEN crossed \cup {p} ELSE crossed
    BY <1>2, <1>3 DEF QrWrites
<1>5. CASE p \in Phones
  <2>1. crossed' \in {crossed, crossed \cup {p}} /\ (Taken(i, p) => p \in crossed')
      BY <1>4, <1>5, InstancesAssumption
  <2> QED
      BY <1>4, <1>5, <2>1, ConnectKept DEF IInv
<1>6. CASE p = Nil
  <2>1. jid[i] = Nil /\ crossed' = crossed
      BY <1>3, <1>4, <1>6
  <2>2. /\ status'[i] = "CONNECTED" /\ jid'[i] = Nil
        /\ \A j \in Insts \ {i} : status'[j] = status[j] /\ jid'[j] = jid[j]
      BY <1>4, <1>6 DEF IInv, TypeOK
  <2>3. placeOf'[i] = "listed" /\ numberOf'[i] = numberOf[i]
      BY <2>1, <2>2 DEF placeOf, numberOf
  <2>4. numberOf' = numberOf /\ placeOf' = [placeOf EXCEPT ![i] = "listed"]
      BY <2>2, <2>3, OneRow
  <2>5. CASE placeOf[i] = "refused"
      BY <2>1, <2>4, <2>5, Mapping
  <2>6. CASE placeOf[i] = "listed"
    <3>1. placeOf' = placeOf
        BY <2>2, <2>3, <2>6, OneRow
    <3> QED
        BY <2>1, <2>4, <3>1, Mapping
  <2> QED
      BY <1>4, <2>5, <2>6, PlaceOfRow DEF IInv
<1> QED
    BY <1>5, <1>6

LEMMA MarkConflictKept == ASSUME IInv, TypeOK', NEW q \in Reqs, MarkConflict(q) PROVE Registry!Next
<1>1. PICK i \in Insts : i = req[q].inst
    BY DEF MarkConflict, IInv, Held, ReqOK
<1>2. /\ Exists(i) /\ UNCHANGED crossed
      /\ status' = [status EXCEPT ![i] = "CONFLICT"] /\ jid' = [jid EXCEPT ![i] = Nil]
    BY <1>1 DEF MarkConflict, observers
<1>3. /\ status'[i] = "CONFLICT"
      /\ \A j \in Insts \ {i} : status'[j] = status[j] /\ jid'[j] = jid[j]
    BY <1>2 DEF IInv, TypeOK
<1>4. placeOf'[i] = "refused" /\ numberOf'[i] = Nil
    BY <1>3 DEF placeOf, numberOf
<1>5. /\ placeOf' = [placeOf EXCEPT ![i] = "refused"]
      /\ numberOf' = [numberOf EXCEPT ![i] = Nil]
    BY <1>3, <1>4, OneRow
<1>6. placeOf[i] \in {"listed", "refused"}
    BY <1>2, PlaceOfRow DEF IInv
<1> QED
    BY <1>2, <1>5, <1>6, Mapping

LEMMA RowDeletedKept == ASSUME IInv, TypeOK', NEW q \in Reqs, RowDeleted(q) PROVE Registry!Next
<1>1. PICK i \in Insts : i = req[q].inst
    BY DEF RowDeleted, IInv, Held, ReqOK
<1>2. /\ Exists(i) /\ UNCHANGED crossed
      /\ status' = [status EXCEPT ![i] = "gone"] /\ jid' = [jid EXCEPT ![i] = Nil]
    BY <1>1 DEF RowDeleted
<1>3. /\ status'[i] = "gone"
      /\ \A j \in Insts \ {i} : status'[j] = status[j] /\ jid'[j] = jid[j]
    BY <1>2 DEF IInv, TypeOK
<1>4. placeOf'[i] = "removed" /\ numberOf'[i] = Nil
    BY <1>3 DEF placeOf, numberOf
<1>5. /\ placeOf' = [placeOf EXCEPT ![i] = "removed"]
      /\ numberOf' = [numberOf EXCEPT ![i] = Nil]
    BY <1>3, <1>4, OneRow
<1>6. placeOf[i] \in {"listed", "refused"}
    BY <1>2, PlaceOfRow DEF IInv
<1> QED
    BY <1>2, <1>5, <1>6, Mapping

\* A row is inserted once, since a single request creates an instance.
LEMMA RowCreatedKept == ASSUME IInv, TypeOK', NEW q \in Reqs, RowCreated(q) PROVE Registry!Next
<1>1. req[q].pc = "rowCreate" /\ req[q].inst \in Insts /\ status[req[q].inst] = "none"
    BY DEF RowCreated, IInv, Held, ReqOK, Creating
<1>2. PICK i \in Insts : i = req[q].inst
    BY <1>1
<1>3. UNCHANGED <<jid, crossed>> /\ status' = [status EXCEPT ![i] = "DISCONNECTED"]
    BY <1>2 DEF RowCreated
<1>4. /\ status[i] = "none" /\ status'[i] = "DISCONNECTED"
      /\ \A j \in Insts \ {i} : status'[j] = status[j] /\ jid'[j] = jid[j]
    BY <1>1, <1>2, <1>3 DEF IInv, TypeOK
<1>5. /\ placeOf[i] = "new" /\ placeOf'[i] = "listed"
      /\ numberOf'[i] = numberOf[i]
    BY <1>4 DEF placeOf, numberOf
<1>6. numberOf' = numberOf /\ placeOf' = [placeOf EXCEPT ![i] = "listed"]
    BY <1>4, <1>5, OneRow
<1> QED
    BY <1>3, <1>5, <1>6, Mapping

\* The session check takes the numbers of one account's instances.
LEMMA ExpirySweepKept == ASSUME IInv, TypeOK', NEW u \in Accounts, ExpirySweep(u) PROVE Registry!Next
<1>1. PICK I \in SUBSET Insts : I = {i \in RowsOf(u) : status[i] = "CONNECTED"}
    BY DEF RowsOf
<1>2. \A i \in I : OwnerOf[i] = u
    BY <1>1 DEF RowsOf
<1>3. /\ status' = [i \in Insts |-> IF i \in I THEN "DISCONNECTED" ELSE status[i]]
      /\ jid' = [i \in Insts |-> IF i \in I THEN Nil ELSE jid[i]]
      /\ UNCHANGED crossed
    BY <1>1 DEF ExpirySweep, observers
<1>4. numberOf' = [i \in Insts |-> IF i \in I THEN Nil ELSE numberOf[i]]
    BY <1>3 DEF numberOf
<1>5. placeOf' = placeOf
    BY <1>1, <1>3 DEF placeOf
<1> QED
    BY <1>2, <1>3, <1>4, <1>5, Mapping

\* The steps of a request are steps of NumberRegistry or not visible in it.
LEMMA ReqStepKept ==
    ASSUME IInv, TypeOK', NEW q \in Reqs, ReqStep(q)
    PROVE  Registry!Next \/ UNCHANGED Registry!vars
<1> USE DEF row, observers
<1>1. CASE \/ Poll(q) \/ PollAnswered(q) \/ ConnectedEvent(q) \/ Check(q) \/ DisconnectedEvent(q)
           \/ Qr(q) \/ QrShown(q) \/ QrAnswered(q) \/ Logout(q) \/ Create(q) \/ Delete(q)
  <2>1. UNCHANGED <<status, jid, crossed>>
      BY <1>1 DEF Poll, PollAnswered, ConnectedEvent, Check, DisconnectedEvent, Qr, QrShown,
                  QrAnswered, Logout, Create, Delete
  <2> QED
      BY <2>1, UnseenKept
<1>2. CASE \/ Kick(q) \/ LogoutAnswered(q) \/ EngineCreates(q) \/ EngineDeletes(q) \/ ReqFails(q)
  <2>1. UNCHANGED <<status, jid, crossed>>
      BY <1>2 DEF Kick, LogoutAnswered, EngineCreates, EngineDeletes, ReqFails
  <2> QED
      BY <2>1, UnseenKept
<1>3. CASE PollClears(q) \/ QrResets(q)
  <2>1. PICK i \in Insts : i = req[q].inst
      BY <1>3 DEF PollClears, QrResets, IInv, Held, ReqOK
  <2>2. Exists(i) /\ status' = [status EXCEPT ![i] = "DISCONNECTED"] /\ UNCHANGED <<jid, crossed>>
      BY <1>3, <2>1 DEF PollClears, QrResets
  <2> QED
      BY <2>2, DisconnectKept DEF IInv
<1>4. CASE Write(q) \/ ListWrites(q) \/ QrWrites(q)
    BY <1>4, WriteKept, ListWritesKept, QrWritesKept
<1>5. CASE MarkConflict(q) \/ RowCreated(q) \/ RowDeleted(q)
    BY <1>5, MarkConflictKept, RowCreatedKept, RowDeletedKept
<1> QED
    BY <1>1, <1>2, <1>3, <1>4, <1>5 DEF ReqStep

\* So is every step.
LEMMA StepKept == IInv /\ [Next]_vars => [Registry!Next]_(Registry!vars)
<1> SUFFICES ASSUME IInv, [Next]_vars PROVE Registry!Next \/ UNCHANGED Registry!vars
    OBVIOUS
<1>0. TypeOK'
    BY NextInv DEF IInv
<1>1. CASE \E q \in Reqs : ReqStep(q)
    BY <1>0, <1>1, ReqStepKept
<1>2. CASE \/ \E i \in Insts : EngineDrops(i) \/ \E p \in Phones : Scan(i, p)
           \/ Crash
           \/ UNCHANGED vars
  <2>1. UNCHANGED <<status, jid, crossed>>
      BY <1>2 DEF EngineDrops, Scan, Crash, vars, row, observers
  <2> QED
      BY <2>1, UnseenKept
<1>3. CASE \E u \in Accounts : ExpirySweep(u)
    BY <1>0, <1>3, ExpirySweepKept
<1> QED
    BY <1>1, <1>2, <1>3 DEF Next

LEMMA InitKept == Init => Registry!Init
    BY DEF Init, Registry!Init

\* The instances of the portal implement the registry of numbers
\* (whatsapp.ts:176-215, status/route.ts:44-73, qr/route.ts:51-110,
\* session/route.ts:55-85): for every set of accounts, instances, numbers and
\* requests, however they overlap.
THEOREM KeepsTheRegistryAlways == Spec => KeepsTheRegistry
    BY InitKept, StepKept, Invariance, PTL DEF Spec, KeepsTheRegistry, Registry!Spec
=============================================================================
