------------------------- MODULE EngineClientProofs -------------------------
(***************************************************************************)
(* Proofs about EngineClient, for every number of starts, channels,        *)
(* requests and presence goroutines, and with every order of accidents.    *)
(***************************************************************************)
EXTENDS EngineClient, FiniteSetTheorems, TLAPS

RowRecs == [exists : BOOLEAN, connected : BOOLEAN, jid : BOOLEAN]
RunRecs == [pc : RunPcs, jid : BOOLEAN, known : BOOLEAN, conn : BOOLEAN,
            hooked : BOOLEAN, ch : Chans \cup {Nil}]
ReqRecs == [pc : ReqPcs, kind : Kinds, cl : Runs \cup {Nil},
            ch : Chans \cup {Nil}, connected : BOOLEAN]

\* A client is connected only by its own run, which then waits for a signal or
\* has left its client to others.
UpLate ==
    \A g \in Runs : run[g].conn => run[g].pc \in {"qr", "loop", "done"}

\* What is up or coming up is the mapped client.
Sole == crossed \/ \A g \in Runs : Live(g) => g = ptr

\* Without a channel nothing is up, coming up or about to be.
Keyed ==
    unkeyed \/ kill # Nil \/ (~Starting /\ (ptr # Nil => ~Live(ptr)))

\* Once a deletion has taken the client down, nothing is up.
Down ==
    revived \/ crossed \/ (row.exists /\ ~Deleting) \/ \A g \in Runs : ~run[g].conn

RowTrue == misled \/ ~row.exists \/ ~row.connected \/ \E g \in Runs : run[g].conn

Facts == UpLate /\ MappedHasLoop /\ Sole /\ Keyed /\ Down /\ RowTrue

IInv == TypeOK /\ Facts

\* Run g begins, and no other run changes.
BeginsAt(g) ==
    /\ run'[g].pc = "check" /\ ~run'[g].conn
    /\ \A h \in Runs \ {g} : run'[h] = run[h]

-----------------------------------------------------------------------------
(* Types *)

LEMMA EndedTyped ==
    /\ Ended \in RunRecs
    /\ \A jid \in BOOLEAN : Started(jid) \in RunRecs
    /\ Idle \in ReqRecs
BY DEF Ended, Started, Idle, RunRecs, ReqRecs, RunPcs, ReqPcs, Kinds

LEMMA Types ==
    TypeOK <=> /\ row \in RowRecs /\ paired \in BOOLEAN
               /\ ptr \in Runs \cup {Nil} /\ myptr \in Runs \cup {Nil}
               /\ kill \in Chans \cup {Nil} /\ closed \subseteq Chans
               /\ run \in [Runs -> RunRecs] /\ req \in [Reqs -> ReqRecs]
               /\ pres \in [Pres -> Chans \cup {Nil, Off}]
               /\ crossed \in BOOLEAN /\ unkeyed \in BOOLEAN /\ misled \in BOOLEAN
               /\ revived \in BOOLEAN
BY DEF TypeOK, RowRecs, RunRecs, ReqRecs

\* The new values a step may give to a run or to a request.
LEMMA RunFields ==
    ASSUME NEW x \in RunRecs
    PROVE  /\ \A pc \in RunPcs : [x EXCEPT !.pc = pc] \in RunRecs
           /\ [x EXCEPT !.conn = FALSE] \in RunRecs
           /\ [x EXCEPT !.conn = FALSE, !.known = FALSE] \in RunRecs
           /\ [x EXCEPT !.known = TRUE] \in RunRecs
           /\ [x EXCEPT !.pc = "loop", !.ch = Nil] \in RunRecs
           /\ \A ch \in Chans \cup {Nil} :
                [x EXCEPT !.pc = "qrsend", !.ch = ch, !.conn = FALSE] \in RunRecs
BY DEF RunRecs, RunPcs

LEMMA ReqFields ==
    ASSUME NEW x \in ReqRecs
    PROVE  /\ \A pc \in ReqPcs : [x EXCEPT !.pc = pc] \in ReqRecs
           /\ [x EXCEPT !.pc = "sent", !.ch = Nil] \in ReqRecs
           /\ \A cl \in Runs \cup {Nil} : [x EXCEPT !.pc = "act", !.cl = cl] \in ReqRecs
           /\ \A ch \in Chans \cup {Nil} : 
                /\ [x EXCEPT !.pc = "send", !.ch = ch, !.cl = Nil] \in ReqRecs
                /\ [x EXCEPT !.pc = "timed", !.ch = ch, !.cl = Nil] \in ReqRecs
BY DEF ReqRecs, ReqPcs

\* A rendezvous: the receiver's own change to the runs is base; one sender goes on.
LEMMA ReceivedEffect ==
    ASSUME req \in [Reqs -> ReqRecs], NEW base \in [Runs -> RunRecs], NEW ch,
           Received(ch, base)
    PROVE  /\ run' \in [Runs -> RunRecs] /\ req' \in [Reqs -> ReqRecs]
           /\ \A h \in Runs :
                /\ run'[h].conn = base[h].conn /\ run'[h].known = base[h].known
                /\ \/ run'[h].pc = base[h].pc
                   \/ run[h].pc = "qrsend" /\ run'[h].pc = "loop"
           /\ \A q \in Reqs :
                \/ req'[q] = req[q]
                \/ /\ Sending(q) /\ req[q].ch = ch /\ ch \notin closed
                   /\ req'[q].pc \in {"idle", "sent"}
<1>1. CASE /\ run' = base /\ UNCHANGED req
    BY <1>1
<1>2. CASE \E q \in Reqs :
               /\ Sending(q) /\ req[q].ch = ch /\ ch \notin closed
               /\ req' = [req EXCEPT ![q] =
                    IF @.pc = "handler" THEN Idle
                    ELSE [@ EXCEPT !.pc = "sent", !.ch = Nil]]
               /\ run' = base
  <2>1. PICK q \in Reqs :
               /\ Sending(q) /\ req[q].ch = ch /\ ch \notin closed
               /\ req' = [req EXCEPT ![q] =
                    IF @.pc = "handler" THEN Idle
                    ELSE [@ EXCEPT !.pc = "sent", !.ch = Nil]]
               /\ run' = base
      BY <1>2
  <2>2. PICK x : x = IF req[q].pc = "handler" THEN Idle
                     ELSE [req[q] EXCEPT !.pc = "sent", !.ch = Nil]
      OBVIOUS
  <2>3. x \in ReqRecs /\ x.pc \in {"idle", "sent"}
      BY <2>2, EndedTyped, ReqFields DEF Idle, ReqRecs
  <2>4. req' = [req EXCEPT ![q] = x]
      BY <2>1, <2>2
  <2> QED
      BY <2>1, <2>3, <2>4
<1>3. CASE \E r \in Runs :
               /\ run[r].pc = "qrsend"
               /\ run' = [base EXCEPT ![r].pc = "loop", ![r].ch = Nil]
               /\ UNCHANGED req
  <2>1. PICK r \in Runs :
               /\ run[r].pc = "qrsend"
               /\ run' = [base EXCEPT ![r].pc = "loop", ![r].ch = Nil]
               /\ UNCHANGED req
      BY <1>3
  <2>2. PICK x : x = [base[r] EXCEPT !.pc = "loop", !.ch = Nil]
      OBVIOUS
  <2>3. /\ x \in RunRecs /\ x.pc = "loop" /\ x.conn = base[r].conn
        /\ x.known = base[r].known
      BY <2>2, RunFields DEF RunRecs
  <2>4. run' = [base EXCEPT ![r] = x]
      BY <2>1, <2>2
  <2> QED
      BY <2>1, <2>3, <2>4
<1> QED
    BY <1>1, <1>2, <1>3 DEF Received

LEMMA RowDownEffect ==
    ASSUME row \in RowRecs, RowDown
    PROVE  /\ row' \in RowRecs /\ row'.exists = row.exists
           /\ row.exists => ~row'.connected
           /\ misled' = FALSE
<1>1. PICK r : r = [row EXCEPT !.connected = FALSE]
    OBVIOUS
<1>2. r \in RowRecs /\ r.exists = row.exists /\ ~r.connected
    BY <1>1 DEF RowRecs
<1>3. row' = IF row.exists THEN r ELSE row
    BY <1>1 DEF RowDown, SetRow
<1> QED
    BY <1>2, <1>3 DEF RowDown

\* A start: one run that was free begins, with a channel of its own.
LEMMA StartEffect ==
    ASSUME run \in [Runs -> RunRecs], kill \in Chans \cup {Nil}, closed \subseteq Chans,
           row \in RowRecs, StartInstance
    PROVE  /\ row.exists
           /\ kill' \in Chans /\ closed' \subseteq closed
           /\ run' \in [Runs -> RunRecs]
           /\ \E g \in FreeRuns : BeginsAt(g)
<1>1. row.exists /\ kill' \in Chans /\ closed' \subseteq closed
    BY DEF StartInstance, MakeChan, FreeChans
<1>2. PICK g \in FreeRuns : run' = [run EXCEPT ![g] = Started(row.jid)]
    BY DEF StartInstance
<1>3. g \in Runs /\ Started(row.jid) \in RunRecs
    BY EndedTyped DEF FreeRuns, RowRecs
<1>4. Started(row.jid).pc = "check" /\ ~Started(row.jid).conn
    BY DEF Started, Ended
<1> QED
    BY <1>1, <1>2, <1>3, <1>4 DEF BeginsAt

\* Facts every step may use: the types one by one.
Typed ==
    /\ row \in RowRecs /\ paired \in BOOLEAN
    /\ ptr \in Runs \cup {Nil} /\ myptr \in Runs \cup {Nil}
    /\ kill \in Chans \cup {Nil} /\ closed \subseteq Chans
    /\ run \in [Runs -> RunRecs] /\ req \in [Reqs -> ReqRecs]
    /\ pres \in [Pres -> Chans \cup {Nil, Off}]

Flags ==
    /\ crossed \in BOOLEAN /\ unkeyed \in BOOLEAN /\ misled \in BOOLEAN
    /\ revived \in BOOLEAN

LEMMA TypedFlags == TypeOK <=> Typed /\ Flags
BY Types DEF Typed, Flags

LEMMA RunTypes ==
    ASSUME Typed, NEW g \in Runs, RunStep(g)
    PROVE  Typed'
<1> USE DEF Typed, maps, observers
<1>1. run[g] \in RunRecs /\ run[g].jid \in BOOLEAN /\ run[g].known \in BOOLEAN
    BY DEF RunRecs
<1>2. CASE Check(g)
    BY <1>1, <1>2, EndedTyped, RunFields DEF Check, RunPcs
<1>3. CASE Setup(g)
  <2>1. PICK x : x = [run[g] EXCEPT !.pc = "connect", !.known = run[g].jid /\ paired,
                                    !.hooked = TRUE]
      OBVIOUS
  <2>2. x \in RunRecs
      BY <1>1, <2>1 DEF RunRecs, RunPcs
  <2>3. run' = [run EXCEPT ![g] = x]
      BY <1>3, <2>1 DEF Setup
  <2>4. row' \in RowRecs
      BY <1>3, RowDownEffect DEF Setup
  <2> QED
      BY <1>3, <2>2, <2>3, <2>4 DEF Setup
<1>4. CASE SetupFails(g)
    BY <1>4, EndedTyped DEF SetupFails
<1>5. CASE ConnectOk(g)
  <2>1. PICK x : x = [run[g] EXCEPT !.conn = TRUE,
                          !.pc = IF run[g].known THEN "loop" ELSE "qr"]
      OBVIOUS
  <2>2. x \in RunRecs
      BY <1>1, <2>1 DEF RunRecs, RunPcs
  <2>3. run' = [run EXCEPT ![g] = x]
      BY <1>5, <2>1 DEF ConnectOk
  <2> QED
      BY <1>5, <2>2, <2>3 DEF ConnectOk
<1>6. CASE ConnectFails(g)
    BY <1>1, <1>6, RunFields DEF ConnectFails, RunPcs
<1>7. CASE QrLimit(g)
  <2>1. row' \in RowRecs
      BY <1>7, RowDownEffect DEF QrLimit
  <2>2. pres' \in [Pres -> Chans \cup {Nil, Off}]
      BY <1>7 DEF QrLimit, Nudge
  <2> QED
      BY <1>1, <1>7, <2>1, <2>2, RunFields DEF QrLimit, RunPcs
<1>8. CASE QrTimeout(g)
    BY <1>1, <1>8, RunFields DEF QrTimeout
<1>9. CASE QrEnds(g)
    BY <1>1, <1>9, RunFields DEF QrEnds, RunPcs
<1>10. CASE LoopKilled(g)
  <2>1. PICK h \in FreeRuns \ {g} :
               Received(kill, [run EXCEPT ![g] = Ended, ![h] = Started(run[g].jid)])
      BY <1>10 DEF LoopKilled
  <2>2. PICK base : base = [run EXCEPT ![g] = Ended, ![h] = Started(run[g].jid)]
      OBVIOUS
  <2>3. base \in [Runs -> RunRecs]
      BY <1>1, <2>1, <2>2, EndedTyped DEF FreeRuns
  <2>4. run' \in [Runs -> RunRecs] /\ req' \in [Reqs -> ReqRecs]
      BY <2>1, <2>2, <2>3, ReceivedEffect
  <2>5. row' \in RowRecs
      BY <1>10, RowDownEffect DEF LoopKilled
  <2> QED
      BY <1>10, <2>4, <2>5 DEF LoopKilled
<1> QED
    BY <1>2, <1>3, <1>4, <1>5, <1>6, <1>7, <1>8, <1>9, <1>10 DEF RunStep

LEMMA EventTypes ==
    ASSUME Typed, NEW g \in Runs, Event(g)
    PROVE  Typed'
<1> USE DEF Typed, maps, observers
<1>1. run[g] \in RunRecs
    OBVIOUS
<1>2. CASE EvConnected(g)
  <2>1. row' \in RowRecs
      BY <1>2 DEF EvConnected, SetRow, RowRecs
  <2>2. pres' \in [Pres -> Chans \cup {Nil, Off}]
      BY <1>2 DEF EvConnected
  <2> QED
      BY <1>2, <2>1, <2>2 DEF EvConnected
<1>3. CASE EvPairSuccess(g)
  <2>1. row' \in RowRecs
      BY <1>3 DEF EvPairSuccess, SetRow, RowRecs
  <2> QED
      BY <1>1, <1>3, <2>1, RunFields DEF EvPairSuccess
<1>4. CASE EvDisconnected(g)
  <2>1. row' \in RowRecs
      BY <1>4, RowDownEffect DEF EvDisconnected
  <2>2. [Idle EXCEPT !.pc = "reconnect"] \in ReqRecs
      BY EndedTyped, ReqFields DEF ReqPcs
  <2> QED
      BY <1>1, <1>4, <2>1, <2>2, RunFields DEF EvDisconnected
<1>5. CASE EvLoggedOut(g)
  <2>1. row' \in RowRecs
      BY <1>5, RowDownEffect DEF EvLoggedOut
  <2>2. [Idle EXCEPT !.pc = "handler", !.cl = g, !.ch = kill] \in ReqRecs
      BY EndedTyped DEF ReqPcs, ReqRecs
  <2> QED
      BY <1>1, <1>5, <2>1, <2>2, RunFields DEF EvLoggedOut
<1>6. CASE EvConnectFailure(g)
  <2>1. row' \in RowRecs
      BY <1>6, RowDownEffect DEF EvConnectFailure
  <2> QED
      BY <1>1, <1>6, <2>1, RunFields DEF EvConnectFailure
<1> QED
    BY <1>2, <1>3, <1>4, <1>5, <1>6 DEF Event

LEMMA PresenceTypes ==
    ASSUME Typed, NEW p \in Pres, PresenceTakes(p) \/ PresenceTick(p)
    PROVE  Typed'
<1> USE DEF Typed, maps, observers
<1>1. CASE PresenceTakes(p)
    BY <1>1, ReceivedEffect DEF PresenceTakes
<1>2. CASE PresenceTick(p)
    BY <1>2 DEF PresenceTick
<1> QED
    BY <1>1, <1>2

LEMMA ReqTypes ==
    ASSUME Typed, NEW q \in Reqs, ReqStep(q)
    PROVE  Typed'
<1> USE DEF Typed, maps, observers
<1>1. req[q] \in ReqRecs /\ req[q].cl \in Runs \cup {Nil} /\ Idle \in ReqRecs
    BY EndedTyped DEF ReqRecs
<1>2. ASSUME NEW kind \in {"disconnect", "logout", "reconnect"}, Ensure(q, kind)
      PROVE  Typed'
  <2>1. Copy(kind) \in BOOLEAN
      BY DEF Copy, RowRecs
  <2>2. [Idle EXCEPT !.pc = "wait", !.kind = kind, !.connected = Copy(kind)] \in ReqRecs
      BY <1>1, <2>1 DEF ReqRecs, ReqPcs, Kinds
  <2>3. [Idle EXCEPT !.pc = "act", !.kind = kind, !.cl = ptr,
                     !.connected = Copy(kind)] \in ReqRecs
      BY <1>1, <2>1 DEF ReqRecs, ReqPcs, Kinds
  <2>4. CASE ptr = Nil /\ StartInstance
              /\ Goes(q, [Idle EXCEPT !.pc = "wait", !.kind = kind,
                                  !.connected = Copy(kind)])
      BY <1>2, <2>2, <2>4, StartEffect DEF Ensure, Goes
  <2>5. CASE /\ Goes(q, [Idle EXCEPT !.pc = "act", !.kind = kind, !.cl = ptr,
                                  !.connected = Copy(kind)])
             /\ UNCHANGED <<kill, closed, run>>
      BY <1>2, <2>3, <2>5 DEF Ensure, Goes
  <2> QED
      BY <1>2, <2>4, <2>5 DEF Ensure
<1>3. CASE EnsureAgain(q)
    BY <1>1, <1>3, ReqFields DEF EnsureAgain, Goes
<1>4. CASE Look(q) \/ Connect(q)
    BY <1>4, StartEffect DEF Look, Connect
<1>5. CASE DisconnectSends(q)
    BY <1>1, <1>5, ReqFields DEF DisconnectSends, Goes
<1>6. CASE DisconnectEnds(q)
  <2>1. row' \in RowRecs
      BY <1>1, <1>6 DEF DisconnectEnds, SetRow, RowRecs, ReqRecs
  <2> QED
      BY <1>1, <1>6, <2>1 DEF DisconnectEnds, Goes
<1>7. CASE Logout(q)
  <2>1. row' \in RowRecs
      BY <1>7, RowDownEffect DEF Logout
  <2>2. req' \in [Reqs -> ReqRecs]
    <3>1. [req[q] EXCEPT !.pc = "timed", !.ch = kill, !.cl = Nil] \in ReqRecs
        BY <1>1, ReqFields
    <3>2. \/ Goes(q, Idle)
          \/ Goes(q, [req[q] EXCEPT !.pc = "timed", !.ch = kill, !.cl = Nil])
        BY <1>7 DEF Logout, Goes
    <3> QED
        BY <1>1, <3>1, <3>2 DEF Goes
  <2>3. run' \in [Runs -> RunRecs]
    <3>1. CASE UNCHANGED run
        BY <3>1
    <3>2. CASE run' = [run EXCEPT ![req[q].cl].conn = FALSE, ![req[q].cl].known = FALSE]
      <4>1. CASE req[q].cl = Nil
          BY <3>2, <4>1, EngineAssumption
      <4>2. CASE req[q].cl \in Runs
          BY <3>2, <4>2, RunFields
      <4> QED
          BY <1>1, <4>1, <4>2
    <3> QED
        BY <1>7, <3>1, <3>2 DEF Logout
  <2>4. paired' \in BOOLEAN /\ UNCHANGED <<ptr, myptr, kill, closed, pres>>
      BY <1>7 DEF Logout
  <2> QED
      BY <2>1, <2>2, <2>3, <2>4
<1>8. CASE SendTimesOut(q) \/ SendPanics(q)
    BY <1>1, <1>8, ReqFields DEF SendTimesOut, SendPanics, Goes
<1>9. CASE LogoutEnds(q)
    BY <1>1, <1>9 DEF LogoutEnds, Goes
<1>10. CASE Teardown(q)
  <2>1. row' \in RowRecs
      BY <1>10, RowDownEffect DEF Teardown
  <2>2. req' \in [Reqs -> ReqRecs]
      BY <1>1, <1>10, ReqFields DEF Teardown, Goes, ReqPcs
  <2>3. run' \in [Runs -> RunRecs]
    <3>1. CASE ptr = Nil
        BY <1>10, <3>1 DEF Teardown
    <3>2. CASE ptr \in Runs
      <4>1. PICK x : x = [run[ptr] EXCEPT !.conn = FALSE, !.hooked = @ /\ myptr # ptr]
          OBVIOUS
      <4>2. x \in RunRecs
          BY <3>2, <4>1 DEF RunRecs
      <4>3. run' = [run EXCEPT ![ptr] = x]
          BY <1>10, <3>2, <4>1, EngineAssumption DEF Teardown
      <4> QED
          BY <4>2, <4>3
    <3> QED
        BY <3>1, <3>2
  <2>4. pres' \in [Pres -> Chans \cup {Nil, Off}]
      BY <1>10 DEF Teardown, Nudge
  <2> QED
      BY <1>10, <2>1, <2>2, <2>3, <2>4 DEF Teardown
<1>11. CASE Restart(q)
  <2>1. CASE StartInstance
      BY <1>1, <1>11, <2>1, StartEffect DEF Restart, Goes
  <2>2. CASE UNCHANGED <<kill, closed, run>>
      BY <1>1, <1>11, <2>2 DEF Restart, Goes
  <2> QED
      BY <1>11, <2>1, <2>2 DEF Restart
<1>12. CASE ForceReconnect(q)
  <2>1. PICK jid \in {row.jid, row.jid \/ paired} :
         /\ row' = [row EXCEPT !.jid = jid]
         /\ MakeChan
         /\ IF ptr = Nil
            THEN /\ \E g \in FreeRuns : run' = [run EXCEPT ![g] = Started(jid)]
                 /\ UNCHANGED <<req, misled>>
            ELSE /\ run' = [run EXCEPT ![ptr].conn = FALSE]
                 /\ Goes(q, [Idle EXCEPT !.pc = "timed", !.kind = "force",
                                         !.ch = kill', !.connected = jid])
                 /\ misled' = (misled \/ row.connected)
      BY <1>12 DEF ForceReconnect
  <2>2. jid \in BOOLEAN /\ row' \in RowRecs
      BY <2>1 DEF RowRecs
  <2>3. kill' \in Chans /\ closed' \subseteq Chans
      BY <2>1 DEF MakeChan, FreeChans
  <2>4. [Idle EXCEPT !.pc = "timed", !.kind = "force", !.ch = kill', !.connected = jid]
            \in ReqRecs
      BY <1>1, <2>2, <2>3 DEF ReqRecs, ReqPcs, Kinds
  <2>5. run' \in [Runs -> RunRecs] /\ req' \in [Reqs -> ReqRecs]
    <3>1. CASE ptr = Nil
        BY <2>1, <2>2, <3>1, EndedTyped DEF FreeRuns
    <3>2. CASE ptr \in Runs
      <4>1. ptr # Nil /\ [run[ptr] EXCEPT !.conn = FALSE] \in RunRecs
          BY <3>2, RunFields, EngineAssumption
      <4> QED
          BY <2>1, <2>4, <4>1 DEF Goes
    <3> QED
        BY <3>1, <3>2
  <2> QED
      BY <1>12, <2>2, <2>3, <2>5 DEF ForceReconnect
<1>13. CASE ForceEnds(q)
  <2>1. Started(req[q].connected) \in RunRecs
      BY <1>1, EndedTyped DEF ReqRecs
  <2> QED
      BY <1>1, <1>13, <2>1 DEF ForceEnds, Goes, FreeRuns
<1>14. CASE Delete(q)
  <2>1. [Idle EXCEPT !.pc = "delete", !.kind = "delete"] \in ReqRecs
      BY <1>1 DEF ReqRecs, ReqPcs, Kinds
  <2>2. run' \in [Runs -> RunRecs] /\ paired' \in BOOLEAN
    <3>1. CASE IsConnected(ptr)
      <4>1. [run[ptr] EXCEPT !.conn = FALSE] \in RunRecs
          BY <3>1, RunFields DEF IsConnected
      <4> QED
          BY <1>14, <3>1, <4>1 DEF Delete
    <3>2. CASE ~IsConnected(ptr)
        BY <1>14, <3>2 DEF Delete
    <3> QED
        BY <3>1, <3>2
  <2>3. closed' \subseteq Chans
      BY <1>14 DEF Delete
  <2> QED
      BY <1>14, <2>1, <2>2, <2>3 DEF Delete, Goes
<1>15. CASE DeleteEntries(q)
    BY <1>1, <1>15, ReqFields DEF DeleteEntries, Goes, ReqPcs
<1>16. CASE DeleteRow(q)
    BY <1>1, <1>16 DEF DeleteRow, Goes, RowRecs
<1> HIDE DEF Typed, maps, observers
<1> QED
    BY <1>2, <1>3, <1>4, <1>5, <1>6, <1>7, <1>8, <1>9, <1>10, <1>11, <1>12, <1>13,
       <1>14, <1>15, <1>16 DEF ReqStep

LEMMA BootTypes ==
    ASSUME Typed, Boot
    PROVE  Typed'
<1> USE DEF Typed
<1>1. run' \in [Runs -> RunRecs] /\ kill' \in Chans \cup {Nil}
  <2>1. row.jid \in BOOLEAN
      BY DEF RowRecs
  <2> QED
      BY <2>1, EndedTyped DEF Boot
<1> QED
    BY <1>1, EndedTyped DEF Boot

-----------------------------------------------------------------------------
(* What the properties rest on *)

\* What most steps have in common: no client comes up and none starts to, the
\* mapped client stays or goes, the observers are told.
RunsCalm ==
    \A h \in Runs :
        /\ run'[h].conn => /\ run[h].conn
                           /\ \/ run'[h].pc \in {run[h].pc, "loop"}
                              \/ run'[h].pc = "done" /\ h # ptr'
        /\ run'[h].pc = "connect" => run[h].pc = "connect"
MapCalm == ptr' = ptr \/ (ptr' = Nil /\ (crossed' \/ \A h \in Runs : ~Live(h)'))
KeyCalm ==
    \/ kill' # Nil \/ unkeyed'
    \/ kill' = kill /\ (Starting' => Starting)
    \/ ptr' = Nil /\ ~Starting'
RowCalm ==
    /\ row'.exists => row.exists
    /\ \/ misled' \/ ~row'.exists \/ ~row'.connected \/ \E h \in Runs : run'[h].conn
       \/ /\ (misled => misled') /\ row'.connected = row.connected
          /\ \A h \in Runs : run[h].conn => run'[h].conn
NotesKept ==
    /\ crossed => crossed'
    /\ unkeyed => unkeyed'
    /\ revived => revived'
Calm == RunsCalm /\ MapCalm /\ KeyCalm /\ RowCalm /\ NotesKept
NoDeletion == row'.exists = row.exists /\ (Deleting' => Deleting)

LEMMA CalmKeeps ==
    ASSUME Typed, Facts, Calm
    PROVE  UpLate' /\ MappedHasLoop' /\ Sole' /\ Keyed' /\ RowTrue'
<1> USE EngineAssumption DEF Facts, Calm, NotesKept
<1>1. \A h \in Runs : Live(h)' => Live(h)
    BY DEF RunsCalm, Live
<1>2. UpLate' /\ MappedHasLoop'
    BY DEF RunsCalm, MapCalm, UpLate, MappedHasLoop
<1>3. Sole'
    BY <1>1 DEF MapCalm, Sole
<1>4. Keyed'
    BY <1>1 DEF MapCalm, KeyCalm, Keyed, Typed
<1>5. RowTrue'
    BY DEF RowCalm, RowTrue
<1> QED
    BY <1>2, <1>3, <1>4, <1>5

LEMMA CalmInv ==
    ASSUME Typed, Facts, Calm, NoDeletion
    PROVE  Facts'
<1>1. Down'
    BY DEF Facts, Calm, RunsCalm, NotesKept, NoDeletion, Down
<1> QED
    BY <1>1, CalmKeeps DEF Facts

\* Steps that leave the row, the maps and the observers alone.
LEMMA QuietInv ==
    ASSUME Typed, Facts, RunsCalm, Starting' => Starting, Deleting' => Deleting,
           \A h \in Runs : run[h].conn => run'[h].conn,
           UNCHANGED <<row, ptr, kill, observers>>
    PROVE  Facts'
BY CalmInv DEF Calm, MapCalm, KeyCalm, RowCalm, NotesKept, NoDeletion, observers

\* ... and those that leave the runs alone as well.
LEMMA ReqOnlyInv ==
    ASSUME Typed, Facts, Deleting' => Deleting, UNCHANGED <<row, ptr, kill, run, observers>>
    PROVE  Facts'
<1>1. RunsCalm /\ (Starting' => Starting)
    BY DEF RunsCalm, Starting
<1> QED
    BY <1>1, QuietInv

LEMMA RunFacts ==
    ASSUME Typed, Facts, NEW g \in Runs, RunStep(g)
    PROVE  Facts'
<1> USE EngineAssumption DEF Typed, maps, observers
<1>1. run[g] \in RunRecs
    OBVIOUS
<1>2. CASE Check(g)
  <2>1. /\ \A h \in Runs \ {g} : run'[h] = run[h]
        /\ ~run[g].conn /\ ~run'[g].conn
        /\ run'[g].pc \in {"setup", "done"} /\ run[g].pc = "check"
      BY <1>1, <1>2 DEF Check, Ended, RunRecs, Facts, UpLate
  <2>2. RunsCalm /\ (Starting' => Starting)
      BY <2>1 DEF RunsCalm, Starting
  <2> QED
      BY <1>2, <2>1, <2>2, QuietInv DEF Check, Deleting
<1>3. CASE Setup(g)
  <2>1. /\ \A h \in Runs \ {g} : run'[h] = run[h]
        /\ ~run'[g].conn /\ run'[g].pc = "connect" /\ run[g].pc = "setup"
        /\ ~run[g].conn
      BY <1>1, <1>3 DEF Setup, RunRecs, Facts, UpLate
  <2>2. /\ row'.exists = row.exists
        /\ row.exists => \/ UNCHANGED <<row, misled>>
                         \/ ~row'.connected
      BY <1>3, RowDownEffect DEF Setup
  <2>3. /\ crossed' = (crossed \/ Uproots(g)) /\ ptr' = g
        /\ UNCHANGED <<kill, unkeyed, revived, req>>
      BY <1>3 DEF Setup
  <2>4. UpLate' /\ MappedHasLoop'
      BY <2>1, <2>3 DEF Facts, UpLate, MappedHasLoop
  <2>5. Sole'
      BY <2>1, <2>3 DEF Facts, Sole, Uproots, Live
  <2>6. Keyed'
      BY <2>1, <2>3 DEF Facts, Keyed, Starting
  <2>7. Down' /\ RowTrue'
      BY <2>1, <2>2, <2>3 DEF Facts, Down, RowTrue, Deleting
  <2> QED
      BY <2>4, <2>5, <2>6, <2>7 DEF Facts
<1>4. CASE SetupFails(g)
  <2>1. /\ \A h \in Runs \ {g} : run'[h] = run[h]
        /\ ~run[g].conn /\ ~run'[g].conn /\ run'[g].pc = "done" /\ run[g].pc = "setup"
      BY <1>1, <1>4 DEF SetupFails, RunRecs, Ended, Facts, UpLate
  <2>2. RunsCalm /\ (Starting' => Starting)
      BY <2>1 DEF RunsCalm, Starting
  <2> QED
      BY <1>4, <2>1, <2>2, QuietInv DEF SetupFails, Deleting
<1>5. CASE ConnectOk(g)
  <2>1. /\ \A h \in Runs \ {g} : run'[h] = run[h]
        /\ run'[g].conn /\ run'[g].pc \in {"loop", "qr"} /\ run[g].pc = "connect"
      BY <1>1, <1>5 DEF ConnectOk, RunRecs
  <2>2. /\ revived' = (revived \/ ~row.exists \/ Deleting)
        /\ UNCHANGED <<row, ptr, kill, crossed, unkeyed, misled, req>>
      BY <1>5 DEF ConnectOk
  <2>3. UpLate' /\ MappedHasLoop'
      BY <2>1, <2>2 DEF Facts, UpLate, MappedHasLoop
  <2>4. Sole' /\ Keyed'
      BY <2>1, <2>2 DEF Facts, Sole, Keyed, Live, Starting
  <2>5. Down' /\ RowTrue'
      BY <2>1, <2>2 DEF Facts, Down, RowTrue, Deleting
  <2> QED
      BY <2>3, <2>4, <2>5 DEF Facts
<1>6. CASE ConnectFails(g)
  <2>1. /\ \A h \in Runs \ {g} : run'[h] = run[h]
        /\ ~run[g].conn /\ ~run'[g].conn /\ run'[g].pc = "done" /\ run[g].pc = "connect"
      BY <1>1, <1>6 DEF ConnectFails, RunRecs, Facts, UpLate
  <2>2. RunsCalm /\ (Starting' => Starting)
      BY <2>1 DEF RunsCalm, Starting
  <2> QED
      BY <1>6, <2>1, <2>2, QuietInv DEF ConnectFails, Deleting
<1>7. CASE QrLimit(g)
  <2>1. /\ \A h \in Runs \ {g} : run'[h] = run[h]
        /\ run'[g].conn = run[g].conn /\ run'[g].pc = "done" /\ run[g].pc = "qr"
      BY <1>1, <1>7 DEF QrLimit, RunRecs
  <2>2. /\ ptr' = Nil /\ unkeyed' = (unkeyed \/ Starting)
        /\ crossed' = (crossed \/ run[g].conn \/ Uproots(g))
        /\ UNCHANGED <<req, revived>>
      BY <1>7 DEF QrLimit
  <2>3. RunsCalm /\ (Starting' => Starting)
      BY <2>1, <2>2 DEF RunsCalm, Starting
  <2>4. MapCalm
      BY <2>1, <2>2 DEF MapCalm, Uproots, Facts, Sole, Live
  <2>5. RowCalm /\ row'.exists = row.exists
      BY <1>7, RowDownEffect DEF QrLimit, RowCalm
  <2> QED
      BY <2>2, <2>3, <2>4, <2>5, CalmInv DEF Calm, KeyCalm, NotesKept, NoDeletion, Deleting
<1>8. CASE QrTimeout(g)
  <2>1. /\ \A h \in Runs \ {g} : run'[h] = run[h]
        /\ ~run'[g].conn /\ run'[g].pc = "qrsend" /\ run[g].pc = "qr"
      BY <1>1, <1>8 DEF QrTimeout, RunRecs
  <2>2. /\ ptr' = Nil /\ crossed' = (crossed \/ Uproots(g))
        /\ misled' = (misled \/ (run[g].conn /\ row.connected))
        /\ UNCHANGED <<row, kill, req, unkeyed, revived>>
      BY <1>8 DEF QrTimeout
  <2>3. RunsCalm /\ (Starting' => Starting)
      BY <2>1, <2>2 DEF RunsCalm, Starting
  <2>4. MapCalm
      BY <2>1, <2>2 DEF MapCalm, Uproots, Facts, Sole, Live
  <2>5. RowCalm
      BY <2>1, <2>2 DEF RowCalm
  <2> QED
      BY <2>2, <2>3, <2>4, <2>5, CalmInv DEF Calm, KeyCalm, NotesKept, NoDeletion, Deleting
<1>9. CASE QrEnds(g)
  <2>1. /\ \A h \in Runs \ {g} : run'[h] = run[h]
        /\ run'[g].conn = run[g].conn /\ run'[g].pc = "loop"
      BY <1>1, <1>9 DEF QrEnds, RunRecs
  <2>2. RunsCalm /\ (Starting' => Starting)
      BY <2>1 DEF RunsCalm, Starting
  <2> QED
      BY <1>9, <2>1, <2>2, QuietInv DEF QrEnds, Deleting
<1>10. CASE LoopKilled(g)
  <2>1. PICK h \in FreeRuns \ {g} :
               Received(kill, [run EXCEPT ![g] = Ended, ![h] = Started(run[g].jid)])
      BY <1>10 DEF LoopKilled
  <2>2. PICK base : base = [run EXCEPT ![g] = Ended, ![h] = Started(run[g].jid)]
      OBVIOUS
  <2>3. /\ base \in [Runs -> RunRecs]
        /\ base[g].pc = "done" /\ ~base[g].conn
        /\ base[h].pc = "check" /\ ~base[h].conn
        /\ \A k \in Runs \ {g, h} : base[k] = run[k]
        /\ run[g].pc = "loop" /\ run[h].pc = "done" /\ ~run[h].conn
      BY <1>1, <1>10, <2>1, <2>2, EndedTyped DEF FreeRuns, LoopKilled, Ended, Started, RunRecs
  <2>4. /\ \A k \in Runs :
              /\ run'[k].conn = base[k].conn
              /\ \/ run'[k].pc = base[k].pc
                 \/ run[k].pc = "qrsend" /\ run'[k].pc = "loop"
        /\ \A q \in Reqs : req'[q] = req[q] \/ req'[q].pc \in {"idle", "sent"}
      BY <2>1, <2>2, <2>3, ReceivedEffect
  <2>5. /\ ptr' = Nil /\ crossed' = (crossed \/ Uproots(g)) /\ kill # Nil
        /\ UNCHANGED <<kill, unkeyed, revived>>
      BY <1>10 DEF LoopKilled
  <2>6. RunsCalm
      BY <2>3, <2>4, <2>5 DEF RunsCalm
  <2>7. MapCalm
    <3>1. \A k \in Runs : Live(k)' => Live(k) /\ k # g
        BY <2>3, <2>4 DEF Live
    <3> QED
        BY <2>5, <3>1 DEF MapCalm, Uproots, Facts, Sole
  <2>8. RowCalm /\ row'.exists = row.exists
      BY <1>10, RowDownEffect DEF LoopKilled, RowCalm
  <2>9. Deleting' => Deleting
      BY <2>4 DEF Deleting
  <2> QED
      BY <2>5, <2>6, <2>7, <2>8, <2>9, CalmInv DEF Calm, KeyCalm, NotesKept, NoDeletion
<1> QED
    BY <1>2, <1>3, <1>4, <1>5, <1>6, <1>7, <1>8, <1>9, <1>10 DEF RunStep

LEMMA EventFacts ==
    ASSUME Typed, Facts, NEW g \in Runs, Event(g)
    PROVE  Facts'
<1> USE EngineAssumption DEF Typed, maps, observers
<1>1. run[g] \in RunRecs /\ Idle.pc = "idle"
    BY DEF Idle
<1>2. CASE EvConnected(g)
  <2>1. run[g].conn /\ UNCHANGED <<ptr, kill, run, req, crossed, unkeyed, revived>>
      BY <1>2 DEF EvConnected, Hears
  <2>2. row'.exists = row.exists
      BY <1>2 DEF EvConnected, SetRow, RowRecs
  <2>3. Calm
      BY <2>1, <2>2 DEF Calm, RunsCalm, MapCalm, KeyCalm, RowCalm, NotesKept, Starting
  <2> QED
      BY <2>1, <2>2, <2>3, CalmInv DEF NoDeletion, Deleting
<1>3. CASE EvPairSuccess(g)
  <2>1. /\ \A h \in Runs \ {g} : run'[h] = run[h]
        /\ run[g].conn /\ run'[g].conn /\ run'[g].pc = run[g].pc
        /\ UNCHANGED <<ptr, kill, req, crossed, unkeyed, revived>>
      BY <1>1, <1>3 DEF EvPairSuccess, Hears, RunRecs
  <2>2. row'.exists = row.exists
      BY <1>3 DEF EvPairSuccess, SetRow, RowRecs
  <2>3. Calm
      BY <2>1, <2>2 DEF Calm, RunsCalm, MapCalm, KeyCalm, RowCalm, NotesKept, Starting
  <2> QED
      BY <2>1, <2>2, <2>3, CalmInv DEF NoDeletion, Deleting
<1>4. ASSUME RowDown, Hears(g), Deleting' => Deleting,
             UNCHANGED <<ptr, kill, crossed, unkeyed, revived>>,
             \A h \in Runs \ {g} : run'[h] = run[h],
             ~run'[g].conn, run'[g].pc = run[g].pc
      PROVE  Facts'
  <2>1. RowCalm /\ row'.exists = row.exists
      BY <1>4, RowDownEffect DEF RowCalm
  <2>2. run[g].pc # "connect"
      BY <1>4 DEF Hears, Facts, UpLate
  <2>3. RunsCalm /\ (Starting' => Starting)
      BY <1>4, <2>2 DEF RunsCalm, Starting
  <2> QED
      BY <1>4, <2>1, <2>3, CalmInv DEF Calm, MapCalm, KeyCalm, NotesKept, NoDeletion
<1>5. CASE EvDisconnected(g)
  <2>1. Deleting' => Deleting
      BY <1>1, <1>5 DEF EvDisconnected, Deleting, Idle
  <2> QED
      BY <1>1, <1>4, <1>5, <2>1 DEF EvDisconnected, RunRecs
<1>6. CASE EvLoggedOut(g)
  <2>1. Deleting' => Deleting
      BY <1>1, <1>6 DEF EvLoggedOut, Deleting, Idle
  <2> QED
      BY <1>1, <1>4, <1>6, <2>1 DEF EvLoggedOut, RunRecs
<1>7. CASE EvConnectFailure(g)
    BY <1>1, <1>4, <1>7 DEF EvConnectFailure, RunRecs, Deleting
<1> QED
    BY <1>2, <1>3, <1>5, <1>6, <1>7 DEF Event

LEMMA PresenceFacts ==
    ASSUME Typed, Facts, NEW p \in Pres, PresenceTakes(p) \/ PresenceTick(p)
    PROVE  Facts'
<1> USE EngineAssumption DEF Typed, maps, observers
<1>1. CASE PresenceTakes(p)
  <2>1. /\ \A h \in Runs :
              /\ run'[h].conn = run[h].conn
              /\ \/ run'[h].pc = run[h].pc
                 \/ run[h].pc = "qrsend" /\ run'[h].pc = "loop"
        /\ \A q \in Reqs : req'[q] = req[q] \/ req'[q].pc \in {"idle", "sent"}
      BY <1>1, ReceivedEffect DEF PresenceTakes
  <2>2. RunsCalm /\ (Starting' => Starting) /\ (Deleting' => Deleting)
      BY <2>1 DEF RunsCalm, Starting, Deleting
  <2> QED
      BY <1>1, <2>1, <2>2, QuietInv DEF PresenceTakes
<1>2. CASE PresenceTick(p)
    BY <1>2, ReqOnlyInv DEF PresenceTick, Deleting
<1> QED
    BY <1>1, <1>2

\* A step of a request that is no deletion.
LEMMA GoesOn ==
    ASSUME Typed, NEW q \in Reqs, \A p \in Reqs \ {q} : req'[p] = req[p],
           req'[q].pc \notin {"delete", "deleterow"}
    PROVE  Deleting' => Deleting
BY DEF Deleting

\* A start: the channel is made first, and the run has yet to look at the map.
LEMMA StartFacts ==
    ASSUME Typed, Facts, StartInstance, Deleting' => Deleting,
           UNCHANGED <<row, ptr, crossed, unkeyed, misled, revived>>
    PROVE  Facts'
<1> USE EngineAssumption DEF Typed
<1>1. PICK g \in FreeRuns : BeginsAt(g)
    BY StartEffect
<1>2. g \in Runs /\ ~run[g].conn /\ kill' # Nil
    BY <1>1, StartEffect DEF FreeRuns
<1>3. RunsCalm
    BY <1>1, <1>2 DEF RunsCalm, BeginsAt
<1>4. \A h \in Runs : run[h].conn => run'[h].conn
    BY <1>1, <1>2 DEF BeginsAt
<1> QED
    BY <1>2, <1>3, <1>4, CalmInv DEF Calm, MapCalm, KeyCalm, RowCalm, NotesKept, NoDeletion

LEMMA ReqFacts ==
    ASSUME Typed, Facts, NEW q \in Reqs, ReqStep(q)
    PROVE  Facts'
<1> USE EngineAssumption DEF Typed, maps, observers
<1>1. req[q] \in ReqRecs /\ req[q].cl \in Runs \cup {Nil} /\ Idle.pc = "idle"
    BY DEF ReqRecs, Idle
<1>2. ASSUME NEW kind \in {"disconnect", "logout", "reconnect"}, Ensure(q, kind)
      PROVE  Facts'
  <2>1. req'[q].pc \in {"wait", "act"} /\ \A p \in Reqs \ {q} : req'[p] = req[p]
      BY <1>2 DEF Ensure, Goes, Idle
  <2>2. Deleting' => Deleting
      BY <2>1, GoesOn
  <2> QED
      BY <1>2, <2>2, StartFacts, ReqOnlyInv DEF Ensure
<1>3. CASE EnsureAgain(q)
  <2>1. Deleting' => Deleting
      BY <1>1, <1>3, GoesOn DEF EnsureAgain, Goes, ReqRecs
  <2> QED
      BY <1>3, <2>1, ReqOnlyInv DEF EnsureAgain
<1>4. CASE Look(q) \/ Connect(q)
  <2>1. Deleting' => Deleting
      BY <1>4 DEF Look, Connect, Deleting
  <2> QED
      BY <1>4, <2>1, StartFacts DEF Look, Connect
<1>5. CASE DisconnectSends(q)
  <2>1. Deleting' => Deleting
      BY <1>1, <1>5, GoesOn DEF DisconnectSends, Goes, ReqRecs
  <2> QED
      BY <1>5, <2>1, ReqOnlyInv DEF DisconnectSends
<1>6. CASE DisconnectEnds(q)
  <2>1. Deleting' => Deleting
      BY <1>1, <1>6, GoesOn DEF DisconnectEnds, Goes
  <2>2. RowCalm /\ row'.exists = row.exists
      BY <1>1, <1>6 DEF DisconnectEnds, SetRow, RowRecs, RowCalm, ReqRecs
  <2>3. Calm
      BY <1>6, <2>2 DEF DisconnectEnds, Calm, RunsCalm, MapCalm, KeyCalm, NotesKept, Starting
  <2> QED
      BY <2>1, <2>2, <2>3, CalmInv DEF NoDeletion
<1>7. CASE Logout(q)
  <2>1. Deleting' => Deleting
    <3>1. \/ Goes(q, Idle)
          \/ Goes(q, [req[q] EXCEPT !.pc = "timed", !.ch = kill, !.cl = Nil])
        BY <1>7 DEF Logout, Goes
    <3>2. PICK x : x = [req[q] EXCEPT !.pc = "timed", !.ch = kill, !.cl = Nil]
        OBVIOUS
    <3>3. x.pc = "timed"
        BY <1>1, <3>2 DEF ReqRecs
    <3>4. req'[q].pc \in {"idle", "timed"} /\ \A p \in Reqs \ {q} : req'[p] = req[p]
        BY <1>1, <3>1, <3>2, <3>3 DEF Goes
    <3> QED
        BY <3>4, GoesOn
  <2>2. UNCHANGED <<ptr, kill, crossed, unkeyed, revived>>
      BY <1>7 DEF Logout
  <2>3. CASE /\ run' = [run EXCEPT ![req[q].cl].conn = FALSE, ![req[q].cl].known = FALSE]
             /\ IF run[req[q].cl].known
                THEN paired' = FALSE /\ RowDown
                ELSE /\ misled' = (misled \/ row.connected)
                     /\ UNCHANGED <<paired, row>>
    <3>1. RowCalm /\ row'.exists = row.exists
        BY <2>3, RowDownEffect DEF RowCalm
    <3>2. \A h \in Runs : run'[h].pc = run[h].pc /\ (run'[h].conn => run[h].conn)
        BY <1>1, <2>3 DEF RunRecs
    <3>3. RunsCalm /\ (Starting' => Starting)
        BY <2>2, <3>2 DEF RunsCalm, Starting
    <3> QED
        BY <2>1, <2>2, <3>1, <3>3, CalmInv DEF Calm, MapCalm, KeyCalm, NotesKept, NoDeletion
  <2>4. CASE UNCHANGED <<row, paired, run, misled>>
      BY <2>1, <2>2, <2>4, ReqOnlyInv
  <2> QED
      BY <1>7, <2>3, <2>4 DEF Logout
<1>8. CASE SendTimesOut(q) \/ SendPanics(q)
  <2>1. Deleting' => Deleting
    <3>1. req'[q].pc \in {"idle", "sent"} /\ \A p \in Reqs \ {q} : req'[p] = req[p]
        BY <1>1, <1>8 DEF SendTimesOut, SendPanics, Goes, ReqRecs
    <3> QED
        BY <3>1, GoesOn
  <2> QED
      BY <1>8, <2>1, ReqOnlyInv DEF SendTimesOut, SendPanics
<1>9. CASE LogoutEnds(q)
  <2>1. Deleting' => Deleting
      BY <1>1, <1>9, GoesOn DEF LogoutEnds, Goes
  <2>2. MapCalm
      BY <1>9 DEF LogoutEnds, MapCalm, Facts, Sole, Uproots, Live
  <2>3. Calm
      BY <1>9, <2>2 DEF LogoutEnds, Calm, RunsCalm, KeyCalm, RowCalm, NotesKept, Starting
  <2> QED
      BY <1>9, <2>1, <2>3, CalmInv DEF LogoutEnds, NoDeletion
<1>10. CASE Teardown(q)
  <2>1. Deleting' => Deleting
      BY <1>1, <1>10, GoesOn DEF Teardown, Goes, Idle
  <2>2. RowCalm /\ row'.exists = row.exists
      BY <1>10, RowDownEffect DEF Teardown, RowCalm
  <2>3. /\ ptr' = Nil /\ unkeyed' = (unkeyed \/ Starting) /\ UNCHANGED revived
        /\ crossed' = (crossed \/ (ptr # Nil /\ run[ptr].pc = "connect"))
      BY <1>10 DEF Teardown
  <2>4. RunsCalm /\ (Starting' => Starting)
    <3>1. \A h \in Runs : run'[h].pc = run[h].pc /\ (run'[h].conn => run[h].conn)
        BY <1>10 DEF Teardown, RunRecs
    <3> QED
        BY <3>1 DEF RunsCalm, Starting
  <2>5. MapCalm
    <3>1. \A h \in Runs : Live(h)' => Live(h) /\ (h = ptr => run[h].pc = "connect")
        BY <1>10 DEF Teardown, RunRecs, Live
    <3> QED
        BY <2>3, <3>1 DEF MapCalm, Facts, Sole
  <2> QED
      BY <2>1, <2>2, <2>3, <2>4, <2>5, CalmInv DEF Calm, KeyCalm, NotesKept, NoDeletion
<1>11. CASE Restart(q)
  <2>1. Deleting' => Deleting
      BY <1>1, <1>11, GoesOn DEF Restart, Goes
  <2> QED
      BY <1>11, <2>1, StartFacts, ReqOnlyInv DEF Restart
<1>12. CASE ForceReconnect(q)
  <2>1. PICK jid \in {row.jid, row.jid \/ paired} :
         /\ row' = [row EXCEPT !.jid = jid]
         /\ MakeChan
         /\ IF ptr = Nil
            THEN /\ \E g \in FreeRuns : run' = [run EXCEPT ![g] = Started(jid)]
                 /\ UNCHANGED <<req, misled>>
            ELSE /\ run' = [run EXCEPT ![ptr].conn = FALSE]
                 /\ Goes(q, [Idle EXCEPT !.pc = "timed", !.kind = "force",
                                         !.ch = kill', !.connected = jid])
                 /\ misled' = (misled \/ row.connected)
      BY <1>12 DEF ForceReconnect
  <2>2. /\ kill' # Nil /\ row'.exists = row.exists /\ row'.connected = row.connected
        /\ UNCHANGED <<ptr, crossed, unkeyed, revived>>
      BY <1>12, <2>1 DEF ForceReconnect, MakeChan, FreeChans, RowRecs
  <2>3. Deleting' => Deleting
    <3>1. CASE ptr = Nil
        BY <2>1, <3>1 DEF Deleting
    <3>2. CASE ptr # Nil
      <4>1. req'[q].pc = "timed" /\ \A p \in Reqs \ {q} : req'[p] = req[p]
          BY <2>1, <3>2 DEF Goes, Idle
      <4> QED
          BY <4>1, GoesOn
    <3> QED
        BY <3>1, <3>2
  <2>4. RunsCalm /\ RowCalm
    <3>1. CASE ptr = Nil
      <4>1. PICK g \in FreeRuns : run' = [run EXCEPT ![g] = Started(jid)]
          BY <2>1, <3>1
      <4>2. /\ g \in Runs /\ ~run[g].conn /\ ~run'[g].conn /\ run'[g].pc = "check"
            /\ \A h \in Runs \ {g} : run'[h] = run[h]
          BY <4>1 DEF FreeRuns, Started, Ended
      <4> QED
          BY <2>1, <2>2, <3>1, <4>2 DEF RunsCalm, RowCalm
    <3>2. CASE ptr \in Runs
      <4>1. \A h \in Runs : run'[h].pc = run[h].pc /\ (run'[h].conn => run[h].conn)
          BY <2>1, <3>2 DEF RunRecs
      <4> QED
          BY <2>1, <2>2, <3>2, <4>1 DEF RunsCalm, RowCalm
    <3> QED
        BY <3>1, <3>2
  <2> QED
      BY <2>2, <2>3, <2>4, CalmInv DEF Calm, MapCalm, KeyCalm, NotesKept, NoDeletion
<1>13. CASE ForceEnds(q)
  <2>1. Deleting' => Deleting
      BY <1>1, <1>13, GoesOn DEF ForceEnds, Goes
  <2>2. PICK g \in FreeRuns : run' = [run EXCEPT ![g] = Started(req[q].connected)]
      BY <1>13 DEF ForceEnds
  <2>3. /\ g \in Runs /\ ~run[g].conn /\ ~run'[g].conn /\ run'[g].pc = "check"
        /\ \A h \in Runs \ {g} : run'[h] = run[h]
      BY <2>2 DEF FreeRuns, Started, Ended
  <2>4. RunsCalm
      BY <2>3 DEF RunsCalm
  <2>5. MapCalm
      BY <1>13, <2>3 DEF ForceEnds, MapCalm, Facts, Sole, Uproots, Live
  <2>6. RowCalm
      BY <1>13, <2>3 DEF ForceEnds, RowCalm
  <2> QED
      BY <1>13, <2>1, <2>4, <2>5, <2>6, CalmInv DEF ForceEnds, Calm, KeyCalm, NotesKept, NoDeletion
<1>14. CASE Delete(q)
  <2>1. /\ ptr' = Nil /\ misled' = (misled \/ row.connected)
        /\ crossed' = (crossed \/ (ptr # Nil /\ run[ptr].pc = "connect"))
        /\ UNCHANGED <<row, kill, unkeyed, revived>>
      BY <1>14 DEF Delete
  <2>2. \/ UNCHANGED run /\ ~IsConnected(ptr)
        \/ ptr \in Runs /\ run' = [run EXCEPT ![ptr].conn = FALSE]
      BY <1>14 DEF Delete, IsConnected
  <2>3. \A h \in Runs : run'[h].pc = run[h].pc
      BY <2>2 DEF RunRecs
  <2>4. \A h \in Runs : run'[h].conn => run[h].conn
      BY <2>2 DEF RunRecs
  <2>5. \A h \in Runs : run'[h].conn => h # ptr
      BY <2>2 DEF RunRecs, IsConnected
  <2>6. RunsCalm /\ (Starting' => Starting)
    <3>1. \A h \in Runs : run'[h].pc = run[h].pc /\ (run'[h].conn => run[h].conn)
        BY <2>3, <2>4
    <3> QED
        BY <3>1 DEF RunsCalm, Starting
  <2>7. MapCalm
    <3>1. \A h \in Runs : Live(h)' => Live(h) /\ (h = ptr => run[h].pc = "connect")
        BY <2>3, <2>4, <2>5 DEF Live
    <3> QED
        BY <2>1, <3>1 DEF MapCalm, Facts, Sole
  <2>8. Calm
      BY <2>1, <2>6, <2>7 DEF Calm, KeyCalm, RowCalm, NotesKept, Facts, Keyed
  <2>9. Down'
    <3>1. \A h \in Runs : run'[h].conn => Live(h) /\ h # ptr
        BY <2>4, <2>5 DEF Live
    <3> QED
        BY <2>1, <3>1 DEF Down, Facts, Sole
  <2> QED
      BY <2>8, <2>9, CalmKeeps DEF Facts
<1>15. CASE DeleteEntries(q)
  <2>1. Deleting
      BY <1>15 DEF DeleteEntries, Deleting
  <2>2. MapCalm
      BY <1>15 DEF DeleteEntries, MapCalm, Facts, Sole, Uproots, Live
  <2>3. Calm
      BY <1>15, <2>2 DEF DeleteEntries, Calm, RunsCalm, KeyCalm, RowCalm, NotesKept, Starting
  <2> QED
      BY <1>15, <2>1, <2>3, CalmInv DEF DeleteEntries, NoDeletion
<1>16. CASE DeleteRow(q)
  <2>1. Deleting /\ row'.exists = FALSE
      BY <1>16 DEF DeleteRow, Deleting
  <2>2. Calm
      BY <1>16, <2>1 DEF DeleteRow, Calm, RunsCalm, MapCalm, KeyCalm, RowCalm, NotesKept, Starting
  <2>3. Down'
      BY <1>16, <2>1 DEF DeleteRow, Down, Facts
  <2> QED
      BY <2>2, <2>3, CalmKeeps DEF Facts
<1> HIDE DEF Typed, maps, observers
<1> QED
    BY <1>2, <1>3, <1>4, <1>5, <1>6, <1>7, <1>8, <1>9, <1>10, <1>11, <1>12, <1>13,
       <1>14, <1>15, <1>16 DEF ReqStep

LEMMA BootFacts ==
    ASSUME Typed, Facts, Boot
    PROVE  Facts'
<1> USE EngineAssumption DEF Typed
<1>1. \A g \in Runs : run'[g].pc \in {"check", "done"} /\ ~run'[g].conn
  <2>1. CASE row.exists /\ row.connected
    <3>1. PICK g \in Runs :
             run' = [h \in Runs |-> IF h = g THEN Started(row.jid) ELSE Ended]
        BY <2>1 DEF Boot
    <3> QED
        BY <3>1 DEF Started, Ended
  <2>2. CASE ~(row.exists /\ row.connected)
      BY <2>2 DEF Boot, Ended
  <2> QED
      BY <2>1, <2>2
<1>2. kill' # Nil \/ \A g \in Runs : run'[g].pc = "done"
    BY DEF Boot, Ended
<1>3. UNCHANGED row /\ misled' = row.connected /\ ptr' = Nil
    BY DEF Boot
<1>4. ~Deleting'
    BY DEF Boot, Deleting, Idle
<1>5. UpLate' /\ MappedHasLoop' /\ Sole' /\ Down' /\ RowTrue'
    BY <1>1, <1>3, <1>4 DEF UpLate, MappedHasLoop, Sole, Live, Down, RowTrue
<1>6. Keyed'
    BY <1>2, <1>3 DEF Keyed, Starting
<1> QED
    BY <1>5, <1>6 DEF Facts

-----------------------------------------------------------------------------
(* The invariant *)

LEMMA InitInv == Init => IInv
<1> SUFFICES ASSUME Init PROVE IInv
    OBVIOUS
<1>1. TypeOK
  <2>1. Typed
      BY EndedTyped DEF Init, Typed, RowRecs
  <2>2. Flags
      BY DEF Init, Flags
  <2> QED
      BY <2>1, <2>2, TypedFlags
<1>2. \A g \in Runs : ~run[g].conn /\ run[g].pc = "done"
    BY DEF Init, Ended
<1>3. row.exists /\ ~row.connected /\ ptr = Nil
    BY DEF Init
<1>4. ~Deleting
    BY DEF Init, Deleting, Idle
<1>5. Facts
    BY <1>2, <1>3, <1>4
       DEF Facts, UpLate, MappedHasLoop, Sole, Keyed, Down, RowTrue, Live, Starting
<1> QED
    BY <1>1, <1>5 DEF IInv

\* The observers are set to truth values.
LEMMA FlagsInv ==
    ASSUME Typed, Flags, Next
    PROVE  Flags'
<1> USE DEF Flags, observers, RowDown
<1>1. CASE Boot
    BY <1>1 DEF Boot, Typed, RowRecs
<1>2. ASSUME NEW g \in Runs, RunStep(g) PROVE Flags'
    BY <1>2 DEF RunStep, Check, Setup, SetupFails, ConnectOk, ConnectFails, QrLimit,
                QrTimeout, QrEnds, LoopKilled
<1>3. ASSUME NEW g \in Runs, Event(g) PROVE Flags'
    BY <1>3 DEF Event, EvConnected, EvPairSuccess, EvDisconnected, EvLoggedOut, EvConnectFailure
<1>4. ASSUME NEW p \in Pres, PresenceTakes(p) \/ PresenceTick(p) PROVE Flags'
    BY <1>4 DEF PresenceTakes, PresenceTick
<1>5. ASSUME NEW q \in Reqs, ReqStep(q) PROVE Flags'
  <2>1. req[q].connected \in BOOLEAN /\ row.connected \in BOOLEAN
      BY DEF Typed, RowRecs, ReqRecs
  <2>2. ASSUME NEW kind \in {"disconnect", "logout", "reconnect"}, Ensure(q, kind)
        PROVE  Flags'
      BY <2>2 DEF Ensure
  <2>3. CASE EnsureAgain(q) \/ Look(q) \/ Connect(q) \/ DisconnectSends(q)
               \/ SendTimesOut(q) \/ Restart(q) \/ SendPanics(q)
      BY <2>3 DEF EnsureAgain, Look, Connect, DisconnectSends, SendTimesOut, Restart, SendPanics
  <2>4. CASE DisconnectEnds(q)
      BY <2>1, <2>4 DEF DisconnectEnds
  <2>5. CASE Logout(q)
      BY <2>5 DEF Logout
  <2>6. CASE LogoutEnds(q) \/ DeleteEntries(q)
      BY <2>6 DEF LogoutEnds, DeleteEntries
  <2>7. CASE Teardown(q)
      BY <2>7 DEF Teardown
  <2>8. CASE ForceReconnect(q)
      BY <2>8 DEF ForceReconnect
  <2>9. CASE ForceEnds(q)
      BY <2>9 DEF ForceEnds
  <2>10. CASE Delete(q) \/ DeleteRow(q)
      BY <2>10 DEF Delete, DeleteRow
  <2> QED
      BY <1>5, <2>2, <2>3, <2>4, <2>5, <2>6, <2>7, <2>8, <2>9, <2>10 DEF ReqStep
<1> QED
    BY <1>1, <1>2, <1>3, <1>4, <1>5 DEF Next

LEMMA NextInv == IInv /\ [Next]_vars => IInv'
<1> SUFFICES ASSUME IInv, [Next]_vars PROVE IInv'
    OBVIOUS
<1>0. TypeOK' <=> Typed' /\ Flags'
    BY TypedFlags, PTL
<1>1. Typed /\ Flags /\ Facts
    BY TypedFlags DEF IInv
<1>2. CASE UNCHANGED vars
  <2>1. Typed' /\ Flags'
      BY <1>1, <1>2 DEF vars, Typed, Flags
  <2>2. Deleting' => Deleting
      BY <1>2 DEF vars, Deleting
  <2>3. Facts'
      BY <1>1, <1>2, <2>2, ReqOnlyInv DEF vars, observers
  <2> QED
      BY <1>0, <2>1, <2>3 DEF IInv
<1>3. CASE Next
  <2>1. Flags'
      BY <1>1, <1>3, FlagsInv
  <2>2. Typed' /\ Facts'
    <3>1. CASE Boot
        BY <1>1, <3>1, BootTypes, BootFacts
    <3>2. ASSUME NEW g \in Runs, RunStep(g) \/ Event(g) PROVE Typed' /\ Facts'
        BY <1>1, <3>2, RunTypes, RunFacts, EventTypes, EventFacts
    <3>3. ASSUME NEW p \in Pres, PresenceTakes(p) \/ PresenceTick(p) PROVE Typed' /\ Facts'
        BY <1>1, <3>3, PresenceTypes, PresenceFacts
    <3>4. ASSUME NEW q \in Reqs, ReqStep(q) PROVE Typed' /\ Facts'
        BY <1>1, <3>4, ReqTypes, ReqFacts
    <3> QED
        BY <1>3, <3>1, <3>2, <3>3, <3>4 DEF Next
  <2> QED
      BY <1>0, <2>1, <2>2 DEF IInv
<1> QED
    BY <1>2, <1>3

-----------------------------------------------------------------------------
(* Signals that nobody receives *)

\* A step makes only channels that nobody refers to, closes only the one in the
\* map, and lets presence goroutines wait on that one.
ChanStep ==
    /\ kill' = Nil \/ kill' = kill \/ kill' \in FreeChans
    /\ closed' \subseteq closed \cup ({kill} \ {Nil})
    /\ \A p \in Pres : pres'[p] \in {pres[p], kill, Off}

LEMMA LostChan ==
    ASSUME Typed, ChanStep, NEW q \in Reqs, Lost(req[q].ch), req'[q] = req[q]
    PROVE  Lost(req[q].ch)'
<1>1. PICK c : c = req[q].ch
    OBVIOUS
<1>2. c \in Chans \cup {Nil} /\ c = req'[q].ch
    BY <1>1 DEF Typed, ReqRecs
<1>3. c \notin FreeChans
    BY <1>1 DEF FreeChans
<1>4. c = Nil \/ (c # kill' /\ c \notin closed' /\ \A p \in Pres : pres'[p] # c)
    BY <1>1, <1>2, <1>3, EngineAssumption DEF Lost, ChanStep
<1> QED
    BY <1>2, <1>4 DEF Lost

\* A start makes a channel; a nudge at most ends a presence goroutine.
LEMMA StartChan == StartInstance => kill' \in FreeChans /\ closed' \subseteq closed
BY DEF StartInstance, MakeChan

LEMMA NudgeChan == Typed /\ Nudge => \A p \in Pres : pres'[p] \in {pres[p], Off}
BY DEF Nudge, Typed

\* A signal without a receiver stays one, and its sender waits on.
LEMMA LostStep ==
    ASSUME Typed, Next, NEW q \in Reqs, req[q].pc = "send", Lost(req[q].ch), req'[q].pc # "idle"
    PROVE  ChanStep /\ req'[q] = req[q]
<1> USE EngineAssumption DEF maps, observers
<1>1. CASE Boot
    BY <1>1 DEF Boot, Idle
<1>2. ASSUME UNCHANGED <<kill, closed, pres>> PROVE ChanStep
    BY <1>2 DEF ChanStep
<1>3. ASSUME NEW g \in Runs, RunStep(g) PROVE ChanStep /\ req'[q] = req[q]
  <2>1. CASE Check(g) \/ Setup(g) \/ SetupFails(g) \/ ConnectOk(g) \/ ConnectFails(g)
               \/ QrTimeout(g) \/ QrEnds(g)
      BY <1>2, <2>1 DEF Check, Setup, SetupFails, ConnectOk, ConnectFails, QrTimeout, QrEnds
  <2>2. CASE QrLimit(g)
      BY <2>2, NudgeChan DEF QrLimit, ChanStep
  <2>3. CASE LoopKilled(g)
    <3>1. PICK h \in FreeRuns \ {g} :
               Received(kill, [run EXCEPT ![g] = Ended, ![h] = Started(run[g].jid)])
        BY <2>3 DEF LoopKilled
    <3>2. PICK base : base = [run EXCEPT ![g] = Ended, ![h] = Started(run[g].jid)]
        OBVIOUS
    <3>3. base \in [Runs -> RunRecs]
        BY <3>1, <3>2, EndedTyped DEF FreeRuns, Typed, RunRecs
    <3>4. \A r \in Reqs : \/ req'[r] = req[r]
                          \/ req[r].ch = kill /\ kill \notin closed
      <4>1. Received(kill, base) /\ req \in [Reqs -> ReqRecs]
          BY <3>1, <3>2 DEF Typed
      <4> QED
          BY <3>3, <4>1, ReceivedEffect
    <3>5. kill # Nil /\ UNCHANGED <<kill, closed, pres>>
        BY <2>3 DEF LoopKilled
    <3>6. req[q].ch # kill
        BY <3>5 DEF Lost
    <3> QED
        BY <1>2, <3>4, <3>5, <3>6
  <2> QED
      BY <1>3, <2>1, <2>2, <2>3 DEF RunStep
<1>4. ASSUME NEW g \in Runs, Event(g) PROVE ChanStep /\ req'[q] = req[q]
  <2>1. CASE EvConnected(g)
      BY <2>1 DEF EvConnected, ChanStep, Typed
  <2>2. CASE EvPairSuccess(g) \/ EvConnectFailure(g)
      BY <1>2, <2>2 DEF EvPairSuccess, EvConnectFailure
  <2>3. CASE EvDisconnected(g) \/ EvLoggedOut(g)
      BY <1>2, <2>3 DEF EvDisconnected, EvLoggedOut, Typed
  <2> QED
      BY <1>4, <2>1, <2>2, <2>3 DEF Event
<1>5. ASSUME NEW p \in Pres, PresenceTakes(p) \/ PresenceTick(p)
      PROVE  ChanStep /\ req'[q] = req[q]
  <2>1. CASE PresenceTakes(p)
    <3>1. \A r \in Reqs : \/ req'[r] = req[r]
                          \/ req[r].ch = pres[p] /\ pres[p] \notin closed
        BY <2>1, ReceivedEffect DEF PresenceTakes, Typed
    <3>2. req[q].ch # pres[p]
        BY <2>1 DEF PresenceTakes, Lost
    <3>3. ChanStep
        BY <2>1 DEF PresenceTakes, ChanStep, Typed
    <3> QED
        BY <3>1, <3>2, <3>3
  <2>2. CASE PresenceTick(p)
      BY <2>2 DEF PresenceTick, ChanStep, Typed
  <2> QED
      BY <1>5, <2>1, <2>2
\* A request's own step is not that of a sender without a time limit.
<1>6. ASSUME NEW r \in Reqs, ReqStep(r) PROVE ChanStep /\ req'[q] = req[q]
  <2> USE DEF Goes, Typed
  <2>1. ASSUME NEW kind \in {"disconnect", "logout", "reconnect"}, Ensure(r, kind)
        PROVE  ChanStep /\ req'[q] = req[q]
      BY <2>1, StartChan DEF Ensure, ChanStep
  <2>2. CASE EnsureAgain(r) \/ DisconnectSends(r) \/ DisconnectEnds(r) \/ Logout(r)
               \/ SendTimesOut(r) \/ DeleteRow(r)
      BY <1>2, <2>2
         DEF EnsureAgain, DisconnectSends, DisconnectEnds, Logout, SendTimesOut, DeleteRow
  <2>3. CASE Look(r) \/ Connect(r)
      BY <2>3, StartChan DEF Look, Connect, ChanStep
  <2>4. CASE LogoutEnds(r) \/ ForceEnds(r) \/ DeleteEntries(r)
      BY <2>4 DEF LogoutEnds, ForceEnds, DeleteEntries, ChanStep
  <2>5. CASE Teardown(r)
      BY <2>5, NudgeChan DEF Teardown, ChanStep
  <2>6. CASE Restart(r)
      BY <2>6, StartChan DEF Restart, ChanStep
  <2>7. CASE ForceReconnect(r)
      BY <2>7 DEF ForceReconnect, MakeChan, ChanStep
  <2>8. CASE Delete(r)
      BY <2>8 DEF Delete, ChanStep
  <2>9. CASE SendPanics(r)
      BY <1>2, <2>9 DEF SendPanics, Idle
  <2> HIDE DEF Goes, Typed, maps, observers
  <2> QED
      BY <1>6, <2>1, <2>2, <2>3, <2>4, <2>5, <2>6, <2>7, <2>8, <2>9 DEF ReqStep
<1> QED
    BY <1>1, <1>3, <1>4, <1>5, <1>6 DEF Next

-----------------------------------------------------------------------------
(* Theorems *)

\* The inductive invariant holds in every reachable state.
THEOREM Invariance == Spec => []IInv
<1>1. Init => IInv
    BY InitInv
<1>2. IInv /\ [Next]_vars => IInv'
    BY NextInv
<1> QED
    BY <1>1, <1>2, PTL DEF Spec

\* Type correctness of the maps, the runs and the requests.
THEOREM TypeCorrect == Spec => []TypeOK
<1>1. IInv => TypeOK
    BY DEF IInv
<1> QED
    BY <1>1, Invariance, PTL

\* A connected client in the map has a goroutine that shows codes or polls the
\* kill channel (whatsmeow.go:415, 755-800), however starts and requests overlap.
THEOREM MappedHasLoopAlways == Spec => []MappedHasLoop
<1>1. IInv => MappedHasLoop
    BY DEF IInv, Facts
<1> QED
    BY <1>1, Invariance, PTL

\* An instance has at most one connected client until two starts overlap or a live
\* client leaves the map (whatsmeow.go:298, 415).
THEOREM OneClientAlways == Spec => []OneClient
<1>1. IInv => OneClient
  <2> SUFFICES ASSUME IInv, ~crossed PROVE Cardinality(Connected) <= 1
      BY DEF OneClient
  <2>1. Connected \subseteq {ptr}
      BY DEF IInv, Facts, Sole, Connected, Live
  <2>2. IsFiniteSet({ptr}) /\ Cardinality({ptr}) = 1
      BY FS_Singleton
  <2>3. Cardinality(Connected) <= Cardinality({ptr}) /\ IsFiniteSet(Connected)
      BY <2>1, <2>2, FS_Subset
  <2> QED
      BY <2>2, <2>3
<1> QED
    BY <1>1, Invariance, PTL

\* The client in the map has a kill channel, unless the channel was deleted while a
\* start was under way (whatsmeow.go:190, instance_service.go:353).
THEOREM KillableAlways == Spec => []Killable
<1>1. IInv => Killable
    BY DEF IInv, Facts, Keyed, Killable, IsConnected, Live
<1> QED
    BY <1>1, Invariance, PTL

\* A row that says connected has a connected client, but for the writers that say
\* nothing or write back a copy (instance_service.go:303-330).
THEOREM ConnectedRowHasClientAlways == Spec => []ConnectedRowHasClient
<1>1. IInv => ConnectedRowHasClient
    BY DEF IInv, Facts, RowTrue, ConnectedRowHasClient, Connected
<1> QED
    BY <1>1, Invariance, PTL

\* A deleted instance has no client but one that a start already under way brought
\* up, or one that had left the map (instance_service.go, Delete).
THEOREM DeletedIsDownAlways == Spec => []DeletedIsDown
<1>1. IInv => DeletedIsDown
    BY DEF IInv, Facts, Down, DeletedIsDown, Connected
<1> QED
    BY <1>1, Invariance, PTL

\* A Disconnect whose channel was replaced never returns (instance_service.go:312).
THEOREM LostStaysLostAlways == Spec => LostStaysLost
<1>1. IInv /\ [Next]_vars =>
        [\A q \in Reqs : (req[q].pc = "send" /\ Lost(req[q].ch) /\ req'[q].pc # "idle")
                          => req'[q] = req[q] /\ Lost(req[q].ch)']_vars
  <2> SUFFICES ASSUME IInv, Next, NEW q \in Reqs, req[q].pc = "send", Lost(req[q].ch),
                      req'[q].pc # "idle"
               PROVE  req'[q] = req[q] /\ Lost(req[q].ch)'
      OBVIOUS
  <2>1. Typed
      BY TypedFlags DEF IInv
  <2>2. ChanStep /\ req'[q] = req[q]
      BY <2>1, LostStep
  <2> QED
      BY <2>1, <2>2, LostChan
<1> QED
    BY <1>1, Invariance, PTL DEF Spec, LostStaysLost
=============================================================================
