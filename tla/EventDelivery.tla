--------------------------- MODULE EventDelivery ---------------------------
(***************************************************************************)
(* Delivery of the engine's events to RabbitMQ, NATS, the websocket and    *)
(* the webhook (pkg/events, and CallWebhook, sendToQueueOrWebhook and      *)
(* SendToGlobalQueues of pkg/whatsmeow/service/whatsmeow.go).              *)
(*                                                                         *)
(* A task is one goroutine that carries one event through the sinks of its *)
(* instance, one after the other, or to the global queues.  All tasks      *)
(* share one broker connection without a lock, and one websocket producer  *)
(* with a readers-writer lock.  A panic in a task ends the process, and    *)
(* what was under way with it.                                             *)
(***************************************************************************)
EXTENDS Naturals, FiniteSets

CONSTANTS Tasks,      \* events under way at one time
          Conns,      \* broker connections that exist at one time
          Subs,       \* websocket connections of the instance at one time
          MaxRetries, \* attempts to publish (3)
          MaxDials,   \* attempts to connect (3)
          HookTries,  \* attempts to call the webhook (5)
          Nil

ASSUME DeliveryAssumption ==
    /\ {MaxRetries, MaxDials, HookTries} \subseteq Nat \ {0}
    /\ Nil \notin Conns /\ Nil \notin Subs /\ Conns # {}

VARIABLES cfg,     \* the instance's settings and the kinds of the tasks
          conn,    \* p.conn of the producer
          open,    \* connections the AMQP library holds to be open
          task,
          flight,  \* the connection on which an event is on its way to the broker
          queued,  \* events the broker has stored
          sub,     \* websocket connections
          client,  \* clients[instanceID]
          stalled, \* websocket connections whose peer does not read
          hook,    \* webhook goroutines
          alive    \* FALSE once a task has panicked

\* Observers.
VARIABLES told,     \* events logged as published
          cut,      \* events during whose delivery a connection dropped
          raced,    \* two reconnections overlapped
          emptied,  \* a failed one took p.conn from a task about to use it
          refused,  \* a reconnected producer got no channel
          crowded,  \* two writes on one websocket connection overlapped
          doubled   \* two websocket connections of the instance overlapped

rabbit == <<conn, open, flight, queued>>
ws == <<sub, client, stalled>>
observers == <<told, cut, raced, emptied, refused, crowded, doubled>>
vars == <<cfg, rabbit, task, ws, hook, alive, observers>>

Pcs == {"start", "dial", "channel", "declare", "publish", "reopen", "nats",
        "ws", "blocked", "locked", "write", "hook", "end"}
Fresh == [pc |-> "start", ch |-> Nil, i |-> 0, dials |-> 0,
          again |-> FALSE, on |-> Nil]
NoHook == [left |-> 0, got |-> FALSE]

TypeOK ==
    /\ cfg \in [rabbit : {"disabled", "enabled", "true"}, ws : BOOLEAN,
                hook : BOOLEAN, global : SUBSET Tasks]
    /\ conn \in Conns \cup {Nil} /\ open \subseteq Conns
    /\ task \in [Tasks -> [pc : Pcs, ch : Conns \cup {Nil},
                           i : 0..(MaxRetries - 1), dials : 0..(MaxDials - 1),
                           again : BOOLEAN, on : Subs \cup {Nil}]]
    /\ flight \in [Tasks -> Conns \cup {Nil}] /\ queued \subseteq Tasks
    /\ sub \in [Subs -> {"none", "adding", "open", "removing"}]
    /\ client \in Subs \cup {Nil} /\ stalled \subseteq Subs
    /\ hook \in [Tasks -> [left : 0..HookTries, got : BOOLEAN]]
    /\ {alive, raced, emptied, refused, crowded, doubled} \subseteq BOOLEAN
    /\ told \subseteq Tasks /\ cut \subseteq Tasks

Init ==
    /\ cfg \in [rabbit : {"disabled", "enabled", "true"}, ws : BOOLEAN,
                hook : BOOLEAN, global : SUBSET Tasks]
    /\ \/ conn = Nil /\ open = {}
       \/ conn = (CHOOSE c \in Conns : TRUE) /\ open = {conn}
    /\ task = [t \in Tasks |-> Fresh]
    /\ flight = [t \in Tasks |-> Nil] /\ queued = {}
    /\ sub = [s \in Subs |-> "none"] /\ client = Nil /\ stalled = {}
    /\ hook = [t \in Tasks |-> NoHook]
    /\ alive = TRUE
    /\ told = {} /\ cut = {}
    /\ raced = FALSE /\ emptied = FALSE /\ refused = FALSE
    /\ crowded = FALSE /\ doubled = FALSE
-----------------------------------------------------------------------------
(* RabbitMQ (rabbitmq_producer.go). *)

Go(t, pc) == task' = [task EXCEPT ![t].pc = pc]
Leave(t, pc) == task' = [task EXCEPT ![t] = [Fresh EXCEPT !.pc = pc]]

\* An error ends the delivery to all later sinks of an instance; the global
\* queues do not depend on each other.
Failed(t) == Leave(t, IF t \in cfg.global THEN "nats" ELSE "end")

\* Success is logged, and the next sink follows.
Succeeded(t) ==
    /\ told' = told \cup {t}
    /\ Leave(t, "nats")

Dialing == {t \in Tasks : task[t].pc = "dial"}

\* Mutant: dials although the connection is open.
AlwaysDial(t, then, again) ==
    /\ task' = [task EXCEPT ![t].pc = "dial", ![t].dials = 0, ![t].again = again]
    /\ raced' = (raced \/ Dialing # {})

\* ensureConnection: dials when the shared connection is missing or closed.
EnsureConnection(t, then, again) ==
    IF conn \in open
    THEN /\ Go(t, then)
         /\ UNCHANGED raced
    ELSE /\ task' = [task EXCEPT ![t].pc = "dial", ![t].dials = 0, ![t].again = again]
         /\ raced' = (raced \/ Dialing # {})

\* Mutant: the connection is not looked at.
ProduceUnensured(t) ==
    /\ task[t].pc = "start"
    /\ Go(t, IF t \in cfg.global \/ cfg.rabbit # "disabled" THEN "channel" ELSE "nats")
    /\ UNCHANGED <<cfg, rabbit, ws, hook, alive, observers>>

\* Produce for an instance with "enabled" or "true", or for a global queue.
Produce(t) ==
    /\ task[t].pc = "start"
    /\ IF t \in cfg.global \/ cfg.rabbit # "disabled"
       THEN EnsureConnection(t, "channel", FALSE)
       ELSE Go(t, "nats") /\ UNCHANGED raced
    /\ UNCHANGED <<cfg, rabbit, ws, hook, alive, told, cut, emptied, refused,
                   crowded, doubled>>

\* Mutant: the attempts are not counted.
NextUncounted(t, ch, err) ==
    /\ task' = [task EXCEPT ![t] = [Fresh EXCEPT !.pc = "publish", !.i = task[t].i,
                                                 !.ch = ch]]
    /\ UNCHANGED told

\* The loop of publishWithRetry ends without a further publication, and returns
\* the error of the last statement that assigned it.
NextAttempt(t, ch, err) ==
    IF task[t].i + 1 < MaxRetries
    THEN /\ task' = [task EXCEPT ![t] = [Fresh EXCEPT !.pc = "publish",
                                            !.i = task[t].i + 1, !.ch = ch]]
         /\ UNCHANGED told
    ELSE IF err THEN Failed(t) /\ UNCHANGED told ELSE Succeeded(t)

\* Which record stands for a new connection does not matter.
Unused == {c \in Conns \ (open \cup {conn}) :
             \A t \in Tasks : c \notin {task[t].ch, flight[t]}}

\* A connection closes, and the events on it are gone.
Drop(c) ==
    /\ open' = open \ {c}
    /\ flight' = [t \in Tasks |-> IF flight[t] = c THEN Nil ELSE flight[t]]
    /\ cut' = cut \cup {t \in Tasks : c \in {task[t].ch, flight[t]}}

\* reconnect: p.conn is assigned by every attempt, also by one that fails.
DialOk(t) ==
    /\ task[t].pc = "dial"
    /\ Unused # {}
    /\ conn' = CHOOSE c \in Unused : TRUE
    /\ open' = open \cup {conn'}
    /\ task' = [task EXCEPT ![t] = [@ EXCEPT !.dials = 0, !.again = FALSE,
                     !.pc = IF task[t].again THEN "reopen" ELSE "channel"]]
    /\ UNCHANGED <<cfg, flight, queued, ws, hook, alive, observers>>

DialFails(t) ==
    /\ task[t].pc = "dial"
    /\ conn' = Nil
    /\ IF task[t].dials + 1 < MaxDials
       THEN task' = [task EXCEPT ![t].dials = @ + 1] /\ UNCHANGED told
       ELSE IF task[t].again THEN NextAttempt(t, task[t].ch, TRUE)
            ELSE Failed(t) /\ UNCHANGED told
    /\ emptied' = (emptied \/ \E u \in Tasks \ {t} : task[u].pc \in {"channel", "reopen"})
    /\ UNCHANGED <<cfg, open, flight, queued, ws, hook, alive, cut, raced,
                   refused, crowded, doubled>>

\* p.conn.Channel(), on the connection that is there now.
OpenChannel(t) ==
    /\ task[t].pc = "channel"
    /\ \/ /\ conn = Nil
          /\ alive' = FALSE
          /\ UNCHANGED task
       \/ /\ conn \in open
          /\ task' = [task EXCEPT ![t].pc = "declare", ![t].ch = conn]
          /\ UNCHANGED alive
       \/ /\ conn # Nil
          /\ Failed(t)
          /\ UNCHANGED alive
    /\ UNCHANGED <<cfg, rabbit, ws, hook, observers>>

\* Mutant: an error of the declaration is passed over.
DeclareAnyway(t) ==
    /\ task[t].pc = "declare"
    /\ Succeeded(t)
    /\ UNCHANGED <<cfg, rabbit, ws, hook, alive, cut, raced, emptied, refused,
                   crowded, doubled>>

\* Confirm and QueueDeclare.  With the setting "true" nothing is declared or
\* published, and Produce succeeds.
Declare(t) ==
    /\ task[t].pc = "declare"
    /\ \/ /\ task[t].ch \in open
          /\ IF t \in cfg.global \/ cfg.rabbit = "enabled"
             THEN Go(t, "publish") /\ UNCHANGED told
             ELSE Succeeded(t)
       \/ Failed(t) /\ UNCHANGED told
    /\ UNCHANGED <<cfg, rabbit, ws, hook, alive, cut, raced, emptied, refused,
                   crowded, doubled>>

\* The event is written to the socket, which is all publishWithRetry waits for.
PublishOk(t) ==
    /\ task[t].pc = "publish"
    /\ task[t].ch \in open
    /\ flight' = [flight EXCEPT ![t] = task[t].ch]
    /\ Succeeded(t)
    /\ UNCHANGED <<cfg, conn, open, queued, ws, hook, alive, cut, raced, emptied,
                   refused, crowded, doubled>>

\* An error of the socket: the connection is shut down, the channel used again.
PublishFails(t) ==
    /\ task[t].pc = "publish"
    /\ task[t].ch \in open
    /\ Drop(task[t].ch)
    /\ NextAttempt(t, task[t].ch, TRUE)
    /\ UNCHANGED <<cfg, conn, queued, ws, hook, alive, raced, emptied, refused,
                   crowded, doubled>>

\* "channel/connection is not open" (504): reconnect, then a new channel.
PublishClosed(t) ==
    /\ task[t].pc = "publish"
    /\ task[t].ch # Nil /\ task[t].ch \notin open
    /\ EnsureConnection(t, "reopen", TRUE)
    /\ UNCHANGED <<cfg, rabbit, ws, hook, alive, told, cut, emptied, refused,
                   crowded, doubled>>

\* The channel variable is nil since a channel was refused.
PublishPanics(t) ==
    /\ task[t].pc = "publish"
    /\ task[t].ch = Nil
    /\ alive' = FALSE
    /\ UNCHANGED <<cfg, rabbit, task, ws, hook, observers>>

\* channel, err = p.conn.Channel() assigns the error the function returns.
Reopen(t) ==
    /\ task[t].pc = "reopen"
    /\ \/ /\ conn = Nil
          /\ alive' = FALSE
          /\ UNCHANGED <<task, told, refused>>
       \/ /\ conn \in open
          /\ NextAttempt(t, conn, FALSE)
          /\ UNCHANGED <<alive, refused>>
       \/ /\ conn # Nil
          /\ NextAttempt(t, Nil, TRUE)
          /\ refused' = TRUE
          /\ UNCHANGED alive
    /\ UNCHANGED <<cfg, rabbit, ws, hook, cut, raced, emptied, crowded, doubled>>

\* The broker takes the event from the socket and stores it.
BrokerStores(t) ==
    /\ flight[t] # Nil
    /\ queued' = queued \cup {t}
    /\ flight' = [flight EXCEPT ![t] = Nil]
    /\ UNCHANGED <<cfg, conn, open, task, ws, hook, alive, observers>>

\* The broker or the network closes a connection.
ConnDrops(c) ==
    /\ c \in open
    /\ Drop(c)
    /\ UNCHANGED <<cfg, conn, queued, task, ws, hook, alive, told, raced, emptied,
                   refused, crowded, doubled>>
-----------------------------------------------------------------------------
(* NATS (nats_producer.go): without a connection, or without an error, the next *)
(* sink follows; the global queues end here.                                    *)

Nats(t) ==
    /\ task[t].pc = "nats"
    /\ \E pc \in {"end", IF t \in cfg.global THEN "end" ELSE IF cfg.ws THEN "ws" ELSE "hook"} :
         Go(t, pc)
    /\ UNCHANGED <<cfg, rabbit, ws, hook, alive, observers>>
-----------------------------------------------------------------------------
(* The websocket (websocket_producer.go). *)

Readers == {t \in Tasks : task[t].pc \in {"locked", "write"}}
Waiting == {s \in Subs : sub[s] \in {"adding", "removing"}}

\* Produce asks for the read lock and is blocked while a writer waits for it.
ReadLock(t) ==
    /\ task[t].pc = "ws"
    /\ Go(t, IF Waiting = {} THEN "locked" ELSE "blocked")
    /\ UNCHANGED <<cfg, rabbit, ws, hook, alive, observers>>

\* A writer that leaves lets the blocked readers in.
Unlock == task' = [t \in Tasks |-> IF task[t].pc = "blocked"
                                   THEN [task[t] EXCEPT !.pc = "locked"] ELSE task[t]]

\* It writes to the client in the map; the websocket library panics when it
\* notices two writers on one connection.
WsStart(t) ==
    /\ task[t].pc = "locked"
    /\ IF client = Nil
       THEN Go(t, "hook") /\ UNCHANGED <<alive, crowded>>
       ELSE LET both == \E u \in Readers : task[u].on = client IN
            /\ task' = [task EXCEPT ![t].pc = "write", ![t].on = client]
            /\ crowded' = (crowded \/ both)
            /\ alive' \in {TRUE, ~both}
    /\ UNCHANGED <<cfg, rabbit, ws, hook, told, cut, raced, emptied, refused, doubled>>

\* A write that the peer does not read waits; on a connection that is closing it
\* may fail, and then the webhook is not called.
WsWritten(t) ==
    /\ task[t].pc = "write"
    /\ LET s == task[t].on IN
       /\ sub[s] = "open" => s \notin stalled
       /\ \E pc \in {"hook"} \cup (IF sub[s] = "removing" THEN {"end"} ELSE {}) :
            task' = [task EXCEPT ![t].pc = pc, ![t].on = Nil]
    /\ UNCHANGED <<cfg, rabbit, ws, hook, alive, observers>>

\* ServeWs: a connection is upgraded and waits for the lock ...
Connects(s) ==
    /\ sub[s] = "none" /\ s = CHOOSE r \in Subs : sub[r] = "none"
    /\ sub' = [sub EXCEPT ![s] = "adding"]
    /\ doubled' = (doubled \/ \E r \in Subs : sub[r] # "none")
    /\ UNCHANGED <<cfg, rabbit, task, client, stalled, hook, alive, told, cut, raced,
                   emptied, refused, crowded>>

\* ... AddClient: it takes the instance's entry ...
AddClient(s) ==
    /\ sub[s] = "adding"
    /\ Readers = {}
    /\ sub' = [sub EXCEPT ![s] = "open"]
    /\ client' = s
    /\ Unlock
    /\ UNCHANGED <<cfg, rabbit, stalled, hook, alive, observers>>

\* ... the peer may stop to read ...
Stalls(s) ==
    /\ sub[s] = "open"
    /\ stalled' = stalled \cup {s}
    /\ UNCHANGED <<cfg, rabbit, task, sub, client, hook, alive, observers>>

\* ... or closes it ...
Closes(s) ==
    /\ sub[s] = "open"
    /\ sub' = [sub EXCEPT ![s] = "removing"]
    /\ UNCHANGED <<cfg, rabbit, task, client, stalled, hook, alive, observers>>

\* Mutant: the entry stays.
RemoveNothing(s) ==
    /\ sub[s] = "removing"
    /\ Readers = {}
    /\ sub' = [sub EXCEPT ![s] = "none"]
    /\ stalled' = stalled \ {s}
    /\ Unlock
    /\ UNCHANGED <<cfg, rabbit, client, hook, alive, observers>>

\* ... and RemoveClient deletes the instance's entry, whosever it is.
RemoveClient(s) ==
    /\ sub[s] = "removing"
    /\ Readers = {}
    /\ sub' = [sub EXCEPT ![s] = "none"]
    /\ stalled' = stalled \ {s}
    /\ client' = Nil
    /\ Unlock
    /\ UNCHANGED <<cfg, rabbit, hook, alive, observers>>
-----------------------------------------------------------------------------
(* The webhook (webhook_producer.go). *)

\* A goroutine of its own calls it.
HookStart(t) ==
    /\ task[t].pc = "hook"
    /\ Go(t, "end")
    /\ hook' = [hook EXCEPT ![t].left = IF cfg.hook THEN HookTries ELSE 0]
    /\ UNCHANGED <<cfg, rabbit, ws, alive, observers>>

\* A call that is answered 2xx, or one that is not, whether it arrived or not.
HookCall(t) ==
    /\ hook[t].left > 0
    /\ \/ hook' = [hook EXCEPT ![t] = [left |-> 0, got |-> TRUE]]
       \/ \E got \in {hook[t].got, TRUE} :
            hook' = [hook EXCEPT ![t] = [left |-> @.left - 1, got |-> got]]
    /\ UNCHANGED <<cfg, rabbit, task, ws, alive, observers>>
-----------------------------------------------------------------------------
Rabbit(t) ==
    \/ Produce(t) \/ DialOk(t) \/ DialFails(t) \/ OpenChannel(t) \/ Declare(t)
    \/ PublishOk(t) \/ PublishFails(t) \/ PublishClosed(t) \/ PublishPanics(t)
    \/ Reopen(t)
Rest(t) == Nats(t) \/ ReadLock(t) \/ WsStart(t) \/ WsWritten(t) \/ HookStart(t)
Peer(s) == Connects(s) \/ Stalls(s) \/ Closes(s)
Locked(s) == AddClient(s) \/ RemoveClient(s)

Next ==
    /\ alive
    /\ \/ \E t \in Tasks : Rabbit(t) \/ Rest(t) \/ HookCall(t)
                              \/ BrokerStores(t)
       \/ \E c \in Conns : ConnDrops(c)
       \/ \E s \in Subs : Peer(s) \/ Locked(s)

Spec == Init /\ [][Next]_vars

\* Goroutines are scheduled and network calls return.
Fairness ==
    /\ \A t \in Tasks : /\ WF_vars(alive /\ Rabbit(t))
                        /\ WF_vars(alive /\ Rest(t))
                        /\ WF_vars(alive /\ HookCall(t))
    /\ \A s \in Subs : WF_vars(alive /\ Locked(s))
FairSpec == Spec /\ Fairness
-----------------------------------------------------------------------------
(* Properties. *)

\* An event logged as published is stored, or still on its way, or a connection
\* dropped while it was delivered (the producer puts its channel into confirm
\* mode but waits for no confirmation, and takes a channel it could reopen
\* after the last attempt for a publication), or its instance says "true".
LostOnlyByDrop ==
    \A t \in told : \/ t \in queued \/ flight[t] # Nil \/ t \in cut
                    \/ (t \notin cfg.global /\ cfg.rabbit # "enabled")

\* At most one broker connection is open, unless two reconnections overlapped:
\* the one that is overwritten is never closed.
OneConnection == raced \/ Cardinality(open) <= 1

\* The process ends only when a failed reconnection takes the connection from a
\* task that had just found it usable, when a channel is refused after a
\* reconnection, or when two events are written to one websocket at once.
ProcessLives == alive \/ emptied \/ refused \/ crowded

\* While websocket connections of the instance follow one another, the entry is
\* that of the connection there is; one that overlaps an older one loses it.
SubscriberKept ==
    doubled \/ \A s \in Subs : client = s <=> sub[s] \in {"open", "removing"}

\* Every event is through with its sinks some day, unless the process ends or
\* the peer of a websocket stops to read: the write has no time limit, and it
\* holds the lock all other events wait for.
EventSettles ==
    \A t \in Tasks :
        <>(~alive \/ stalled # {} \/ (task[t].pc = "end" /\ hook[t].left = 0))
=============================================================================
