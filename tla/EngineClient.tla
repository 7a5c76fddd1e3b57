---------------------------- MODULE EngineClient ----------------------------
(***************************************************************************)
(* The WhatsApp client of one instance of the engine                       *)
(* (pkg/whatsmeow/service/whatsmeow.go, pkg/instance/service/              *)
(* instance_service.go).                                                   *)
(*                                                                         *)
(* Goroutines share three maps without a lock: clientPointer (here ptr),   *)
(* myClientPointer (myptr) and killChannel (kill, an unbuffered channel).  *)
(* A run is one activation of StartClient together with the client it      *)
(* creates.  A request is an HTTP request, a ReconnectClient task or an    *)
(* event handler that blocks.  A presence goroutine waits on the kill      *)
(* channel as well as the loop does.  Every step is what happens between   *)
(* two points at which its goroutine sleeps, calls the network or blocks.  *)
(* Instances share no key of the maps, so there is one here.               *)
(***************************************************************************)
EXTENDS Naturals, FiniteSets

CONSTANTS Runs,      \* activations of StartClient that exist at one time
          Chans,     \* kill channels that exist at one time
          Reqs,      \* requests, tasks and blocked handlers at one time
          Pres,      \* presence goroutines at one time
          QrLimited, \* QrcodeMaxCount is not 0
          Nil,       \* no client, no channel
          Off        \* a presence goroutine that does not run

ASSUME EngineAssumption ==
    /\ QrLimited \in BOOLEAN
    /\ Nil \notin Runs /\ Nil \notin Chans
    /\ Off \notin Chans /\ Off # Nil

VARIABLES row,       \* the instance's row
          paired,    \* the device store holds the session of the row's number
          ptr,       \* clientPointer[id]
          myptr,     \* myClientPointer[id]
          kill,      \* killChannel[id]
          closed,    \* closed channels
          run, req, pres

\* Observers: which of the named accidents have happened (see the properties).
VARIABLES crossed,   \* two starts overlapped, or a live client left the map
          unkeyed,   \* a client lost its kill channel
          misled,    \* the row was written from a copy or not at all
          revived    \* a client connected during or after the deletion

vars == <<row, paired, ptr, myptr, kill, closed, run, req, pres,
          crossed, unkeyed, misled, revived>>
maps == <<ptr, myptr, kill>>
observers == <<crossed, unkeyed, misled, revived>>

RunPcs == {"check", "setup", "connect", "qr", "qrsend", "loop", "done"}
ReqPcs == {"idle", "wait", "act", "reconnect", "restart", "send", "timed",
           "sent", "handler", "delete", "deleterow"}
Kinds == {"none", "disconnect", "logout", "reconnect", "force", "delete"}

Ended == [pc |-> "done", jid |-> FALSE, known |-> FALSE, conn |-> FALSE,
          hooked |-> FALSE, ch |-> Nil]
Started(jid) == [Ended EXCEPT !.pc = "check", !.jid = jid]
Idle == [pc |-> "idle", kind |-> "none", cl |-> Nil, ch |-> Nil,
         connected |-> FALSE]

TypeOK ==
    /\ row \in [exists : BOOLEAN, connected : BOOLEAN, jid : BOOLEAN]
    /\ paired \in BOOLEAN
    /\ ptr \in Runs \cup {Nil} /\ myptr \in Runs \cup {Nil}
    /\ kill \in Chans \cup {Nil}
    /\ closed \subseteq Chans
    /\ run \in [Runs -> [pc : RunPcs, jid : BOOLEAN, known : BOOLEAN,
                         conn : BOOLEAN, hooked : BOOLEAN, ch : Chans \cup {Nil}]]
    /\ req \in [Reqs -> [pc : ReqPcs, kind : Kinds, cl : Runs \cup {Nil},
                         ch : Chans \cup {Nil}, connected : BOOLEAN]]
    /\ pres \in [Pres -> Chans \cup {Nil, Off}]
    /\ crossed \in BOOLEAN /\ unkeyed \in BOOLEAN /\ misled \in BOOLEAN
    /\ revived \in BOOLEAN
-----------------------------------------------------------------------------
(* Helpers. *)

Live(g) == run[g].conn \/ run[g].pc = "connect"
Connected == {g \in Runs : run[g].conn}
IsConnected(c) == c # Nil /\ run[c].conn

\* The library logs in by itself once it is connected with a session.
IsLoggedIn(c) == IsConnected(c) /\ run[c].known

\* Records of finished goroutines, and channels nobody refers to, are used again.
FreeRuns == {g \in Runs : /\ run[g].pc = "done" /\ ~run[g].conn
                          /\ g \notin {ptr, myptr}
                          /\ \A q \in Reqs : req[q].cl # g}
FreeChans == {c \in Chans : /\ c # kill
                            /\ \A q \in Reqs : req[q].ch # c
                            /\ \A g \in Runs : run[g].ch # c
                            /\ \A p \in Pres : pres[p] # c}

\* Update of the row's columns, which touches nothing when it is gone.
SetRow(r) == row' = IF row.exists THEN r ELSE row

\* killChannel[id] = make(chan bool)
MakeChan == \E c \in FreeChans : kill' = c /\ closed' = closed \ {c}

\* Mutant: the channel is not made.
StartWithoutChan ==
    /\ row.exists
    /\ UNCHANGED <<kill, closed>>
    /\ \E g \in FreeRuns : run' = [run EXCEPT ![g] = Started(row.jid)]

\* StartInstance, and what Connect does in its place: a new channel, then
\* `go StartClient` with the row's number.
StartInstance ==
    /\ row.exists
    /\ MakeChan
    /\ \E g \in FreeRuns : run' = [run EXCEPT ![g] = Started(row.jid)]

\* A client that is up, or coming up, is taken out of the map by someone else.
Uproots(g) == ptr # Nil /\ ptr # g /\ Live(ptr)

\* A start is on its way to set up a client.
Starting == \E h \in Runs : run[h].pc \in {"check", "setup"}

\* A deletion is between its client and its row.
Deleting == \E q \in Reqs : req[q].pc \in {"delete", "deleterow"}

\* UpdateConnected(false)
RowDown ==
    /\ SetRow([row EXCEPT !.connected = FALSE])
    /\ misled' = FALSE

Sending(q) == req[q].pc \in {"send", "timed", "handler"}

\* Somebody receives from ch; base is run with the receiver's own change.
Received(ch, base) ==
    \/ /\ ch \notin closed
       /\ \/ \E q \in Reqs :
               /\ Sending(q) /\ req[q].ch = ch
               /\ req' = [req EXCEPT ![q] =
                    IF @.pc = "handler" THEN Idle
                    ELSE [@ EXCEPT !.pc = "sent", !.ch = Nil]]
               /\ run' = base
          \/ \E r \in Runs :
               /\ run[r].pc = "qrsend" /\ run[r].ch = ch
               /\ run' = [base EXCEPT ![r].pc = "loop", ![r].ch = Nil]
               /\ UNCHANGED req
    \/ /\ ch \in closed
       /\ run' = base
       /\ UNCHANGED req

\* A send with a default branch: a presence goroutine may take it; the loop
\* polls and never waits in a receive, so it cannot.
Nudge ==
    \/ \E p \in Pres : kill # Nil /\ pres[p] = kill /\ pres' = [pres EXCEPT ![p] = Off]
    \/ UNCHANGED pres

Init ==
    /\ row = [exists |-> TRUE, connected |-> FALSE, jid |-> FALSE]
    /\ paired = FALSE
    /\ ptr = Nil /\ myptr = Nil /\ kill = Nil /\ closed = {}
    /\ run = [g \in Runs |-> Ended]
    /\ req = [q \in Reqs |-> Idle]
    /\ pres = [p \in Pres |-> Off]
    /\ crossed = FALSE /\ unkeyed = FALSE /\ misled = FALSE
    /\ revived = FALSE
-----------------------------------------------------------------------------
(* StartClient. *)

\* Nothing is done when the mapped client is connected.
Check(g) ==
    /\ run[g].pc = "check"
    /\ run' = [run EXCEPT ![g] =
                 IF IsConnected(ptr) THEN Ended ELSE [@ EXCEPT !.pc = "setup"]]
    /\ UNCHANGED <<row, paired, maps, closed, req, pres, observers>>

\* The device store is opened, the client created, mapped and given a handler.
\* A number whose session is gone gets a new device.
Setup(g) ==
    /\ run[g].pc = "setup"
    /\ LET known == run[g].jid /\ paired IN
       /\ run' = [run EXCEPT ![g].pc = "connect", ![g].known = known,
                             ![g].hooked = TRUE]
       /\ IF run[g].jid /\ ~paired THEN RowDown ELSE UNCHANGED <<row, misled>>
    /\ ptr' = g /\ myptr' = g
    /\ crossed' = (crossed \/ Uproots(g))
    /\ UNCHANGED <<paired, kill, closed, req, pres, unkeyed, revived>>

\* The store cannot be opened: the goroutine ends, the maps stay as they are.
SetupFails(g) ==
    /\ run[g].pc = "setup"
    /\ run' = [run EXCEPT ![g] = Ended]
    /\ UNCHANGED <<row, paired, maps, closed, req, pres, observers>>

ConnectOk(g) ==
    /\ run[g].pc = "connect"
    /\ run' = [run EXCEPT ![g].conn = TRUE,
                          ![g].pc = IF run[g].known THEN "loop" ELSE "qr"]
    /\ revived' = (revived \/ ~row.exists \/ Deleting)
    /\ UNCHANGED <<row, paired, maps, closed, req, pres, crossed, unkeyed, misled>>

\* After the retries of the source the goroutine ends and leaves its client mapped.
ConnectFails(g) ==
    /\ run[g].pc = "connect"
    /\ run' = [run EXCEPT ![g].pc = "done"]
    /\ UNCHANGED <<row, paired, maps, closed, req, pres, observers>>

\* Codes are shown one after the other (no step: they are written to the row and
\* to nothing else).  At the limit whatever client is mapped leaves the maps, and
\* this run's own client is not disconnected.
QrLimit(g) ==
    /\ run[g].pc = "qr"
    /\ QrLimited
    /\ run' = [run EXCEPT ![g].pc = "done"]
    /\ RowDown
    /\ Nudge
    /\ ptr' = Nil /\ myptr' = Nil /\ kill' = Nil
    /\ crossed' = (crossed \/ run[g].conn \/ Uproots(g))
    /\ unkeyed' = (unkeyed \/ Starting)
    /\ UNCHANGED <<paired, closed, req, revived>>

\* The codes ran out and the library disconnects; the maps are cleared and the
\* goroutine sends the signal whose receiver it would be itself.
QrTimeout(g) ==
    /\ run[g].pc = "qr"
    /\ run' = [run EXCEPT ![g].pc = "qrsend", ![g].ch = kill, ![g].conn = FALSE]
    /\ ptr' = Nil /\ myptr' = Nil
    /\ crossed' = (crossed \/ Uproots(g))
    /\ misled' = (misled \/ (run[g].conn /\ row.connected))
    /\ UNCHANGED <<row, paired, kill, closed, req, pres, unkeyed, revived>>

\* Mutant: the goroutine returns after the codes.
QrEndsReturning(g) ==
    /\ run[g].pc = "qr"
    /\ run' = [run EXCEPT ![g].pc = "done"]
    /\ UNCHANGED <<row, paired, maps, closed, req, pres, observers>>

\* Success or an error: the channel of codes is closed and the loop entered.
QrEnds(g) ==
    /\ run[g].pc = "qr"
    /\ run' = [run EXCEPT ![g].pc = "loop"]
    /\ UNCHANGED <<row, paired, maps, closed, req, pres, observers>>

\* The loop polls the channel now in the map.  On a signal its client is
\* disconnected, the mapped one forgotten, and StartClient called again with
\* the instance as it was at the first start.
LoopKilled(g) ==
    /\ run[g].pc = "loop"
    /\ kill # Nil
    /\ \E h \in FreeRuns \ {g} :
         Received(kill, [run EXCEPT ![g] = Ended, ![h] = Started(run[g].jid)])
    /\ ptr' = Nil /\ myptr' = Nil
    /\ RowDown
    /\ crossed' = (crossed \/ Uproots(g))
    /\ UNCHANGED <<paired, kill, closed, pres, unkeyed, revived>>
-----------------------------------------------------------------------------
(* Presence goroutines (schedulePresenceUpdates). *)

PresenceTakes(p) ==
    /\ pres[p] \notin {Off, Nil}
    /\ Received(pres[p], run)
    /\ pres' = [pres EXCEPT ![p] = Off]
    /\ UNCHANGED <<row, paired, maps, closed, observers>>

\* Every few hours: ends when the instance is gone, or waits on the channel that
\* is then in the map.
PresenceTick(p) ==
    /\ pres[p] # Off
    /\ pres' = [pres EXCEPT ![p] = IF row.exists THEN kill ELSE Off]
    /\ UNCHANGED <<row, paired, maps, closed, run, req, observers>>
-----------------------------------------------------------------------------
(* Events of a client (myEventHandler). *)

Hears(g) == run[g].conn /\ run[g].hooked

\* Connected: one more presence goroutine.
EvConnected(g) ==
    /\ Hears(g) /\ run[g].known
    /\ SetRow([row EXCEPT !.connected = TRUE])
    /\ IF \E p \in Pres : pres[p] = Off
       THEN \E p \in Pres : pres[p] = Off /\ pres' = [pres EXCEPT ![p] = kill]
       ELSE UNCHANGED pres
    /\ misled' = FALSE
    /\ UNCHANGED <<paired, maps, closed, run, req, crossed, unkeyed, revived>>

\* PairSuccess: the phone scanned the code of this client.
EvPairSuccess(g) ==
    /\ Hears(g) /\ ~run[g].known
    /\ paired' = TRUE
    /\ run' = [run EXCEPT ![g].known = TRUE]
    /\ SetRow([row EXCEPT !.jid = TRUE, !.connected = TRUE])
    /\ misled' = FALSE
    /\ UNCHANGED <<maps, closed, req, pres, crossed, unkeyed, revived>>

\* Disconnected: the server closed the socket; a task restarts the instance.
EvDisconnected(g) ==
    /\ Hears(g)
    /\ run' = [run EXCEPT ![g].conn = FALSE]
    /\ RowDown
    /\ \E q \in Reqs : req[q].pc = "idle"
          /\ req' = [req EXCEPT ![q] = [Idle EXCEPT !.pc = "reconnect"]]
    /\ UNCHANGED <<paired, maps, closed, pres, crossed, unkeyed, revived>>

\* LoggedOut: the session is gone; the handler blocks on the kill channel.
EvLoggedOut(g) ==
    /\ Hears(g) /\ run[g].known
    /\ paired' = FALSE
    /\ run' = [run EXCEPT ![g].conn = FALSE, ![g].known = FALSE]
    /\ RowDown
    /\ \E q \in Reqs : req[q].pc = "idle"
          /\ req' = [req EXCEPT ![q] = [Idle EXCEPT !.pc = "handler", !.cl = g, !.ch = kill]]
    /\ UNCHANGED <<maps, closed, pres, crossed, unkeyed, revived>>

\* Mutant: the row keeps saying connected.
EvConnectFailureSilent(g) ==
    /\ Hears(g)
    /\ run' = [run EXCEPT ![g].conn = FALSE]
    /\ UNCHANGED <<row, paired, maps, closed, req, pres, observers>>

\* ConnectFailure: the server refuses the client; nobody restarts it.
EvConnectFailure(g) ==
    /\ Hears(g)
    /\ run' = [run EXCEPT ![g].conn = FALSE]
    /\ RowDown
    /\ UNCHANGED <<paired, maps, closed, req, pres, crossed, unkeyed, revived>>
-----------------------------------------------------------------------------
(* Requests and tasks. *)

Goes(q, r) == req' = [req EXCEPT ![q] = r]

\* The authentication of the request read the row; only Disconnect uses that.
Copy(kind) == kind = "disconnect" /\ row.connected

\* ensureClientConnected, first look: without a client the instance is started
\* and looked at again later; a client that is down is an error (no step).
Ensure(q, kind) ==
    /\ req[q].pc = "idle"
    /\ \/ /\ ptr = Nil /\ StartInstance
          /\ Goes(q, [Idle EXCEPT !.pc = "wait", !.kind = kind,
                                  !.connected = Copy(kind)])
       \/ /\ IsConnected(ptr)
          /\ Goes(q, [Idle EXCEPT !.pc = "act", !.kind = kind, !.cl = ptr,
                                  !.connected = Copy(kind)])
          /\ UNCHANGED <<kill, closed, run>>
    /\ UNCHANGED <<row, paired, ptr, myptr, pres, crossed, unkeyed, misled, revived>>

EnsureAgain(q) ==
    /\ req[q].pc = "wait"
    /\ Goes(q, IF IsConnected(ptr) THEN [req[q] EXCEPT !.pc = "act", !.cl = ptr] ELSE Idle)
    /\ UNCHANGED <<row, paired, maps, closed, run, pres, observers>>

\* Status, and the QR code of an instance without a client or with one that is
\* logged in, start the instance; otherwise both only read.
Look(q) ==
    /\ req[q].pc = "idle"
    /\ ptr = Nil \/ IsLoggedIn(ptr)
    /\ StartInstance
    /\ UNCHANGED <<row, paired, ptr, myptr, req, pres, crossed, unkeyed, misled, revived>>

\* Connect: an instance that is not in the runtime is started.
Connect(q) ==
    /\ req[q].pc = "idle"
    /\ myptr = Nil
    /\ StartInstance
    /\ UNCHANGED <<row, paired, ptr, myptr, req, pres, crossed, unkeyed, misled, revived>>

\* Disconnect sends without a time limit on the channel now in the map, if any.
DisconnectSends(q) ==
    /\ req[q].pc = "act" /\ req[q].kind = "disconnect"
    /\ Goes(q, IF IsLoggedIn(req[q].cl)
               THEN [req[q] EXCEPT !.pc = "send", !.ch = kill, !.cl = Nil] ELSE Idle)
    /\ UNCHANGED <<row, paired, maps, closed, run, pres, observers>>

\* ... and writes the whole row back as the request had read it.
DisconnectEnds(q) ==
    /\ req[q].pc = "sent" /\ req[q].kind = "disconnect"
    /\ SetRow([row EXCEPT !.connected = req[q].connected])
    /\ misled' = IF req[q].connected # row.connected THEN req[q].connected ELSE misled
    /\ Goes(q, Idle)
    /\ UNCHANGED <<paired, maps, closed, run, pres, crossed, unkeyed, revived>>

\* Logout: a client that is logged in is unlinked (or the request fails), one
\* that is only connected is disconnected; then the signal, for five seconds.
Logout(q) ==
    /\ req[q].pc = "act" /\ req[q].kind = "logout"
    /\ LET c == req[q].cl IN
       \/ /\ run[c].conn
          /\ run' = [run EXCEPT ![c].conn = FALSE, ![c].known = FALSE]
          /\ IF run[c].known
             THEN paired' = FALSE /\ RowDown
             ELSE /\ misled' = (misled \/ row.connected)
                  /\ UNCHANGED <<paired, row>>
          /\ Goes(q, IF run[c].known /\ ~row.exists THEN Idle
                     ELSE [req[q] EXCEPT !.pc = "timed", !.ch = kill, !.cl = Nil])
       \/ /\ ~run[c].conn \/ run[c].known
          /\ Goes(q, Idle)
          /\ UNCHANGED <<row, paired, run, misled>>
    /\ UNCHANGED <<maps, closed, pres, crossed, unkeyed, revived>>

\* Mutant: every signal has the time limit.
SendTimesOutAlways(q) ==
    /\ req[q].pc \in {"timed", "send"}
    /\ Goes(q, [req[q] EXCEPT !.pc = "sent", !.ch = Nil])
    /\ UNCHANGED <<row, paired, maps, closed, run, pres, observers>>

SendTimesOut(q) ==
    /\ req[q].pc = "timed"
    /\ Goes(q, [req[q] EXCEPT !.pc = "sent", !.ch = Nil])
    /\ UNCHANGED <<row, paired, maps, closed, run, pres, observers>>

\* Deletes whatever is in the maps by now, also what a restart has put there.
LogoutEnds(q) ==
    /\ req[q].pc = "sent" /\ req[q].kind = "logout"
    /\ ptr' = Nil /\ kill' = Nil
    /\ crossed' = (crossed \/ Uproots(Nil))
    /\ unkeyed' = (unkeyed \/ Starting)
    /\ Goes(q, Idle)
    /\ UNCHANGED <<row, paired, myptr, closed, run, pres, misled, revived>>

\* Mutant: the client is forgotten without being disconnected.
TeardownForgetting(q) ==
    /\ \/ req[q].pc = "reconnect"
       \/ req[q].pc = "act" /\ req[q].kind = "reconnect"
    /\ Nudge
    /\ ptr' = Nil /\ myptr' = Nil /\ kill' = Nil
    /\ RowDown
    /\ Goes(q, IF row.exists THEN [Idle EXCEPT !.pc = "restart"] ELSE Idle)
    /\ UNCHANGED <<paired, closed, run, crossed, unkeyed, revived>>

\* ReconnectClient, up to its sleep.  Removing the handler waits for a handler
\* of the same client that is running.
Teardown(q) ==
    /\ \/ req[q].pc = "reconnect"
       \/ req[q].pc = "act" /\ req[q].kind = "reconnect"
    /\ (ptr # Nil /\ myptr # Nil) =>
         \A p \in Reqs : ~(req[p].pc = "handler" /\ req[p].cl = ptr)
    /\ run' = IF ptr = Nil THEN run
              ELSE [run EXCEPT ![ptr].conn = FALSE,
                               ![ptr].hooked = @ /\ myptr # ptr]
    /\ Nudge
    /\ ptr' = Nil /\ myptr' = Nil /\ kill' = Nil
    /\ RowDown
    /\ crossed' = (crossed \/ (ptr # Nil /\ run[ptr].pc = "connect"))
    /\ unkeyed' = (unkeyed \/ Starting)
    /\ Goes(q, IF row.exists THEN [Idle EXCEPT !.pc = "restart"] ELSE Idle)
    /\ UNCHANGED <<paired, closed, revived>>

Restart(q) ==
    /\ req[q].pc = "restart"
    /\ StartInstance \/ (~row.exists /\ UNCHANGED <<kill, closed, run>>)
    /\ Goes(q, Idle)
    /\ UNCHANGED <<row, paired, ptr, myptr, pres, observers>>

\* ForceReconnect: the number may be looked up in the device store; the channel
\* is replaced first, the mapped client disconnected without a word in the row,
\* and the signal sent on the new channel.
ForceReconnect(q) ==
    /\ req[q].pc = "idle"
    /\ row.exists
    /\ ~IsLoggedIn(ptr)
    /\ \E jid \in {row.jid, row.jid \/ paired} :
         /\ row' = [row EXCEPT !.jid = jid]
         /\ MakeChan
         /\ IF ptr = Nil
            THEN /\ \E g \in FreeRuns : run' = [run EXCEPT ![g] = Started(jid)]
                 /\ UNCHANGED <<req, misled>>
            ELSE /\ run' = [run EXCEPT ![ptr].conn = FALSE]
                 /\ Goes(q, [Idle EXCEPT !.pc = "timed", !.kind = "force",
                                         !.ch = kill', !.connected = jid])
                 /\ misled' = (misled \/ row.connected)
    /\ UNCHANGED <<paired, ptr, myptr, pres, crossed, unkeyed, revived>>

\* The new channel leaves the map again, and a client is started without one.
ForceEnds(q) ==
    /\ req[q].pc = "sent" /\ req[q].kind = "force"
    /\ ptr' = Nil /\ kill' = Nil
    /\ \E g \in FreeRuns : run' = [run EXCEPT ![g] = Started(req[q].connected)]
    /\ crossed' = (crossed \/ Uproots(Nil))
    /\ unkeyed' = TRUE
    /\ Goes(q, Idle)
    /\ UNCHANGED <<row, paired, myptr, closed, pres, misled, revived>>

\* Mutant: the client stays up.
DeleteLeavesClient(q) ==
    /\ req[q].pc = "idle"
    /\ row.exists
    /\ ptr' = Nil
    /\ closed' = closed \cup ({kill} \ {Nil})
    /\ Goes(q, [Idle EXCEPT !.pc = "delete", !.kind = "delete"])
    /\ misled' = (misled \/ row.connected)
    /\ UNCHANGED <<row, paired, myptr, kill, run, pres, crossed, unkeyed, revived>>

\* Delete: the client is logged out and disconnected, the channel closed.
Delete(q) ==
    /\ req[q].pc = "idle"
    /\ row.exists
    /\ IF IsConnected(ptr)
       THEN /\ run' = [run EXCEPT ![ptr].conn = FALSE]
            /\ IF IsLoggedIn(ptr) THEN paired' \in {FALSE, paired} ELSE UNCHANGED paired
       ELSE UNCHANGED <<run, paired>>
    /\ ptr' = Nil
    /\ closed' = IF kill = Nil THEN closed ELSE closed \cup {kill}
    /\ Goes(q, [Idle EXCEPT !.pc = "delete", !.kind = "delete"])
    /\ crossed' = (crossed \/ (ptr # Nil /\ run[ptr].pc = "connect"))
    /\ misled' = (misled \/ row.connected)
    /\ UNCHANGED <<row, myptr, kill, pres, unkeyed, revived>>

\* The entries go (delete, ClearInstanceCache) ...
DeleteEntries(q) ==
    /\ req[q].pc = "delete"
    /\ ptr' = Nil /\ myptr' = Nil /\ kill' = Nil
    /\ crossed' = (crossed \/ Uproots(Nil))
    /\ unkeyed' = (unkeyed \/ Starting)
    /\ Goes(q, [req[q] EXCEPT !.pc = "deleterow"])
    /\ UNCHANGED <<row, paired, closed, run, pres, misled, revived>>

\* ... and then the row.
DeleteRow(q) ==
    /\ req[q].pc = "deleterow"
    /\ row' = [exists |-> FALSE, connected |-> FALSE, jid |-> FALSE]
    /\ misled' = FALSE
    /\ Goes(q, Idle)
    /\ UNCHANGED <<paired, maps, closed, run, pres, crossed, unkeyed, revived>>

\* A request or handler that waits on a channel that is closed panics; the web
\* framework or the event dispatcher recovers.
SendPanics(q) ==
    /\ Sending(q) /\ req[q].ch \in closed
    /\ Goes(q, Idle)
    /\ UNCHANGED <<row, paired, maps, closed, run, pres, observers>>

\* The process restarts, by a panic or for another reason, and ConnectOnStartup
\* starts the instance if its row is connected.
Boot ==
    /\ ptr' = Nil /\ myptr' = Nil /\ closed' = {}
    /\ req' = [q \in Reqs |-> Idle]
    /\ pres' = [p \in Pres |-> Off]
    /\ IF row.exists /\ row.connected
       THEN \E g \in Runs, c \in Chans :
              /\ kill' = c
              /\ run' = [h \in Runs |-> IF h = g THEN Started(row.jid) ELSE Ended]
       ELSE kill' = Nil /\ run' = [h \in Runs |-> Ended]
    /\ misled' = row.connected
    /\ crossed' = FALSE /\ unkeyed' = FALSE /\ revived' = FALSE
    /\ UNCHANGED <<row, paired>>

\* The channel was closed under the pending signal of a QR timeout: the panic is
\* not recovered and ends the process.
QrPanics == \E g \in Runs : run[g].pc = "qrsend" /\ run[g].ch \in closed

RunStep(g) ==
    \/ Check(g) \/ Setup(g) \/ SetupFails(g) \/ ConnectOk(g) \/ ConnectFails(g)
    \/ QrLimit(g) \/ QrTimeout(g) \/ QrEnds(g) \/ LoopKilled(g)
Event(g) ==
    \/ EvConnected(g) \/ EvPairSuccess(g) \/ EvDisconnected(g) \/ EvLoggedOut(g)
    \/ EvConnectFailure(g)
ReqStep(q) ==
    \/ \E kind \in {"disconnect", "logout", "reconnect"} : Ensure(q, kind)
    \/ EnsureAgain(q) \/ Look(q) \/ Connect(q) \/ DisconnectSends(q)
    \/ DisconnectEnds(q) \/ Logout(q) \/ SendTimesOut(q) \/ LogoutEnds(q)
    \/ Teardown(q) \/ Restart(q) \/ ForceReconnect(q) \/ ForceEnds(q) \/ Delete(q)
    \/ DeleteEntries(q) \/ DeleteRow(q) \/ SendPanics(q)

Next ==
    \/ Boot
    \/ /\ ~QrPanics
       /\ \/ \E g \in Runs : RunStep(g) \/ Event(g)
          \/ \E p \in Pres : PresenceTakes(p) \/ PresenceTick(p)
          \/ \E q \in Reqs : ReqStep(q)

Spec == Init /\ [][Next]_vars
-----------------------------------------------------------------------------
(* Properties. *)

\* A connected client that is in the map has a goroutine that answers its kill
\* channel: it never outlives the StartClient that made it.
MappedHasLoop ==
    \A g \in Runs : (g = ptr /\ run[g].conn) => run[g].pc \in {"qr", "loop"}

\* Two clients of an instance are connected at one time only after two starts
\* overlapped (StartClient looks at the map long before it writes it), or a
\* client that was up or coming up left the map without being disconnected.
OneClient == crossed \/ Cardinality(Connected) <= 1

\* The client in the map can be told to stop, unless its channel was deleted
\* while it was being started or, in a forced reconnect, before.
Killable == IsConnected(ptr) /\ ~unkeyed => kill # Nil

\* A row that says connected has a connected client, unless a Disconnect wrote
\* back its copy of the row, a forced reconnect, a timeout of the codes or the
\* logout of an unpaired client said nothing, or the process was restarted.
ConnectedRowHasClient ==
    row.exists /\ row.connected /\ ~misled => Connected # {}

\* A deleted instance has no client but one that a start already under way
\* connected meanwhile, or one that had left the map.
DeletedIsDown == ~row.exists /\ ~revived /\ ~crossed => Connected = {}

\* Nobody will ever receive this signal: its channel is not in the map and no
\* presence goroutine waits on it.
Lost(c) ==
    \/ c = Nil
    \/ c # kill /\ c \notin closed /\ \A p \in Pres : pres[p] # c

\* A signal sent on a channel that was replaced waits for ever: no step of a
\* loop, a presence goroutine or a request gives it a receiver again.
LostStaysLost ==
    [][\A q \in Reqs : (req[q].pc = "send" /\ Lost(req[q].ch)
                          /\ req'[q].pc # "idle")
                       => req'[q] = req[q] /\ Lost(req[q].ch)']_vars
=============================================================================
