------------------------ MODULE EventDeliveryProofs ------------------------
(***************************************************************************)
(* Proofs about EventDelivery, for every set of events, broker connections *)
(* and websocket connections and every number of attempts.                 *)
(***************************************************************************)
EXTENDS EventDelivery, FiniteSetTheorems, TLAPS

TaskRecs == [pc : Pcs, ch : Conns \cup {Nil}, i : 0..(MaxRetries - 1),
             dials : 0..(MaxDials - 1), again : BOOLEAN, on : Subs \cup {Nil}]

\* A task that is to publish, or to publish again, has a channel, unless one
\* was refused.
HasChannel ==
    \A t \in Tasks :
        /\ task[t].pc = "declare" => task[t].ch # Nil
        /\ task[t].pc = "publish" => task[t].ch # Nil \/ refused
        /\ task[t].pc = "reopen" \/ (task[t].pc = "dial" /\ task[t].again) => task[t].ch # Nil

\* A task that is to open a channel has a connection, unless it was taken.
HasConnection ==
    \A t \in Tasks : task[t].pc \in {"channel", "reopen"} => conn # Nil \/ emptied

\* A channel whose connection is closed was cut, and so was a task that looks
\* for a new one.
CutKnown ==
    \A t \in Tasks :
        /\ task[t].pc \in {"declare", "publish"} /\ task[t].ch # Nil =>
               task[t].ch \in open \/ t \in cut
        /\ task[t].pc = "reopen" \/ (task[t].pc = "dial" /\ task[t].again) => t \in cut

\* Until two reconnections overlap, a connection that is open is the shared one,
\* and nobody dials while there is one.
SharedOnly ==
    raced \/ /\ open \subseteq {conn}
             /\ \A t \in Tasks : task[t].pc = "dial" =>
                   open = {} /\ \A u \in Tasks : task[u].pc = "dial" => u = t

\* Until two websocket connections overlap there is at most one.
OneSub == doubled \/ \A r, s \in Subs : sub[r] # "none" /\ sub[s] # "none" => r = s

Panics == HasChannel /\ HasConnection /\ ProcessLives
IInv == /\ TypeOK /\ Panics /\ CutKnown /\ LostOnlyByDrop /\ SharedOnly
        /\ OneSub /\ SubscriberKept
-----------------------------------------------------------------------------
(* Types *)

LEMMA InitInv == Init => IInv
  <1> SUFFICES ASSUME Init PROVE IInv
    OBVIOUS
  <1> USE DeliveryAssumption
  <1>0. 0 \in 0..(MaxRetries - 1) /\ 0 \in 0..(MaxDials - 1) /\ 0 \in 0..HookTries
    OBVIOUS
  <1>1. conn \in Conns \cup {Nil} /\ open \subseteq Conns /\ open \subseteq {conn}
    <2>1. (CHOOSE c \in Conns : TRUE) \in Conns
      OBVIOUS
    <2> QED
      BY <2>1 DEF Init
  <1>2. TypeOK
    BY <1>0, <1>1 DEF Init, TypeOK, Fresh, NoHook, Pcs
  <1>3. Panics /\ CutKnown /\ LostOnlyByDrop /\ SharedOnly
    BY <1>1 DEF Init, Panics, HasChannel, HasConnection, ProcessLives, CutKnown, LostOnlyByDrop,
        SharedOnly, Fresh
  <1>4. OneSub /\ SubscriberKept
    BY DEF Init, OneSub, SubscriberKept
  <1> QED
    BY <1>2, <1>3, <1>4 DEF IInv

\* A task may be anywhere.
LEMMA TaskAt ==
    \A x \in TaskRecs, pc \in Pcs : [x EXCEPT !.pc = pc] \in TaskRecs
  BY DEF TaskRecs

\* Where the deliveries to RabbitMQ and the other sinks leave the task.
LEMMA RabbitTask ==
    ASSUME TypeOK, NEW t \in Tasks, Rabbit(t)
    PROVE  /\ task'[t] \in TaskRecs
           /\ task' = [task EXCEPT ![t] = task'[t]]
  <1> USE DeliveryAssumption DEF TaskRecs, Pcs
  <1>t. /\ task \in [Tasks -> TaskRecs] /\ task[t] \in TaskRecs
        /\ conn \in Conns \cup {Nil} /\ open \subseteq Conns
    BY DEF TypeOK
  <1>0. 0 \in 0..(MaxRetries - 1) /\ 0 \in 0..(MaxDials - 1)
    OBVIOUS
  <1>l. ASSUME NEW pc \in Pcs, Leave(t, pc)
        PROVE  task'[t] \in TaskRecs /\ task' = [task EXCEPT ![t] = task'[t]]
    <2>1. [Fresh EXCEPT !.pc = pc] \in TaskRecs
      BY <1>0 DEF Fresh
    <2> QED
      BY <1>l, <2>1, <1>t DEF Leave
  <1>g. \A pc \in Pcs : Go(t, pc) => task'[t] \in TaskRecs /\ task' = [task EXCEPT ![t] = task'[t]]
    BY <1>t DEF Go
  <1>e. \A pc \in Pcs, again \in BOOLEAN : EnsureConnection(t, pc, again) =>
           task'[t] \in TaskRecs /\ task' = [task EXCEPT ![t] = task'[t]]
    BY <1>0, <1>t, <1>g DEF EnsureConnection
  <1>f. Failed(t) \/ Succeeded(t) => task'[t] \in TaskRecs /\ task' = [task EXCEPT ![t] = task'[t]]
    BY <1>l DEF Failed, Succeeded
  <1>n. ASSUME NEW ch \in Conns \cup {Nil}, NEW err \in BOOLEAN, NextAttempt(t, ch, err)
        PROVE  task'[t] \in TaskRecs /\ task' = [task EXCEPT ![t] = task'[t]]
    <2>1. CASE task[t].i + 1 < MaxRetries
      <3>1. [Fresh EXCEPT !.pc = "publish", !.i = task[t].i + 1, !.ch = ch] \in TaskRecs
        <4>1. task[t].i + 1 \in 0..(MaxRetries - 1)
          BY <2>1, <1>t
        <4>2. Fresh \in TaskRecs
          BY <1>0 DEF Fresh
        <4> QED
          BY <4>1, <4>2
      <3> QED
        BY <1>n, <2>1, <3>1, <1>t DEF NextAttempt
    <2>2. CASE ~(task[t].i + 1 < MaxRetries)
      BY <1>n, <2>2, <1>f DEF NextAttempt
    <2> QED
      BY <2>1, <2>2
  <1>1. CASE Produce(t)
    BY <1>1, <1>e, <1>g DEF Produce
  <1>2. CASE DialOk(t)
    BY <1>2, <1>0, <1>t DEF DialOk
  <1>3. CASE DialFails(t)
    <2>1. CASE task[t].dials + 1 < MaxDials
      BY <1>3, <2>1, <1>t DEF DialFails
    <2>2. CASE ~(task[t].dials + 1 < MaxDials)
      BY <1>3, <2>2, <1>t, <1>n, <1>f DEF DialFails
    <2> QED
      BY <2>1, <2>2
  <1>4. CASE OpenChannel(t)
    BY <1>4, <1>t, <1>f DEF OpenChannel
  <1>5. CASE Declare(t)
    BY <1>5, <1>f, <1>g DEF Declare
  <1>6. CASE PublishOk(t)
    BY <1>6, <1>f DEF PublishOk
  <1>7. CASE PublishFails(t)
    BY <1>7, <1>n, <1>t DEF PublishFails
  <1>8. CASE PublishClosed(t)
    BY <1>8, <1>e DEF PublishClosed
  <1>9. CASE PublishPanics(t)
    BY <1>9, <1>t DEF PublishPanics
  <1>10. CASE Reopen(t)
    <2>1. CASE task' = task
      BY <2>1, <1>t
    <2>2. CASE NextAttempt(t, conn, FALSE) \/ NextAttempt(t, Nil, TRUE)
      BY <2>2, <1>n, <1>t
    <2> QED
      BY <1>10, <2>1, <2>2 DEF Reopen
  <1> QED
    BY <1>1, <1>2, <1>3, <1>4, <1>5, <1>6, <1>7, <1>8, <1>9, <1>10 DEF Rabbit

\* Every step keeps the types.
LEMMA NextType == TypeOK /\ Next => TypeOK'
  <1> SUFFICES ASSUME TypeOK, Next PROVE TypeOK'
    OBVIOUS
  <1> USE DeliveryAssumption
  <1>t. /\ cfg \in [rabbit : {"disabled", "enabled", "true"}, ws : BOOLEAN,
                    hook : BOOLEAN, global : SUBSET Tasks]
        /\ conn \in Conns \cup {Nil} /\ open \subseteq Conns
        /\ task \in [Tasks -> TaskRecs]
        /\ flight \in [Tasks -> Conns \cup {Nil}] /\ queued \subseteq Tasks
        /\ sub \in [Subs -> {"none", "adding", "open", "removing"}]
        /\ client \in Subs \cup {Nil} /\ stalled \subseteq Subs
        /\ hook \in [Tasks -> [left : 0..HookTries, got : BOOLEAN]]
        /\ alive \in BOOLEAN /\ raced \in BOOLEAN /\ emptied \in BOOLEAN /\ refused \in BOOLEAN
        /\ crowded \in BOOLEAN /\ doubled \in BOOLEAN
        /\ told \subseteq Tasks /\ cut \subseteq Tasks
    BY DEF TypeOK, TaskRecs
  <1> DEFINE Same == /\ cfg' = cfg /\ sub' = sub /\ client' = client /\ stalled' = stalled
                     /\ hook' = hook /\ crowded' = crowded /\ doubled' = doubled
             Sinks == /\ conn' = conn /\ open' = open /\ flight' = flight /\ queued' = queued
                      /\ told' = told /\ cut' = cut /\ raced' = raced /\ emptied' = emptied
                      /\ refused' = refused /\ cfg' = cfg
  <1>d. ASSUME NEW c, Drop(c)
        PROVE  open' \subseteq Conns /\ flight' \in [Tasks -> Conns \cup {Nil}] /\ cut' \subseteq Tasks
    BY <1>d, <1>t DEF Drop
  <1>g. ASSUME NEW t \in Tasks, NEW pc \in Pcs, Go(t, pc) PROVE task' \in [Tasks -> TaskRecs]
    <2>1. [task[t] EXCEPT !.pc = pc] \in TaskRecs
      BY <1>t, TaskAt
    <2> QED
      BY <1>g, <2>1, <1>t DEF Go
  <1>1. ASSUME NEW t \in Tasks, Rabbit(t) PROVE TypeOK'
    <2>q. task' \in [Tasks -> TaskRecs]
      BY <1>1, <1>t, RabbitTask
    <2>s. Same
      BY <1>1 DEF Rabbit, Produce, DialOk, DialFails, OpenChannel, Declare, PublishOk, PublishFails,
          PublishClosed, PublishPanics, Reopen, ws, observers
    <2>f. told' = told \/ told' = told \cup {t}
      BY <1>1 DEF Rabbit, Produce, DialOk, DialFails, OpenChannel, Declare, PublishOk, PublishFails,
          PublishClosed, PublishPanics, Reopen, observers, NextAttempt, Failed, Succeeded
    <2>b. /\ alive' \in BOOLEAN /\ raced' \in BOOLEAN /\ emptied' \in BOOLEAN /\ refused' \in BOOLEAN
      BY <1>1, <1>t DEF Rabbit, Produce, DialOk, DialFails, OpenChannel, Declare, PublishOk, PublishFails,
          PublishClosed, PublishPanics, Reopen, observers, EnsureConnection
    <2>c. conn' \in Conns \cup {Nil}
      <3>1. CASE DialOk(t)
        <4>1. conn' \in Unused
          BY <3>1 DEF DialOk
        <4> QED
          BY <4>1 DEF Unused
      <3>2. CASE ~DialOk(t)
        BY <3>2, <1>1, <1>t DEF Rabbit, Produce, DialFails, OpenChannel, Declare, PublishOk,
            PublishFails, PublishClosed, PublishPanics, Reopen, rabbit
      <3> QED
        BY <3>1, <3>2
    <2>o. open' \subseteq Conns /\ flight' \in [Tasks -> Conns \cup {Nil}] /\ cut' \subseteq Tasks
      <3>1. CASE PublishFails(t)
        BY <3>1, <1>d DEF PublishFails
      <3>2. CASE PublishOk(t)
        BY <3>2, <1>t DEF PublishOk
      <3>3. CASE DialOk(t)
        <4>1. conn' \in Unused
          BY <3>3 DEF DialOk
        <4> QED
          BY <4>1, <3>3, <1>t DEF DialOk, Unused, observers
      <3>4. CASE ~PublishFails(t) /\ ~PublishOk(t) /\ ~DialOk(t)
        BY <3>4, <1>1, <1>t DEF Rabbit, Produce, DialFails, OpenChannel, Declare,
            PublishClosed, PublishPanics, Reopen, rabbit, observers
      <3> QED
        BY <3>1, <3>2, <3>3, <3>4
    <2>u. queued' = queued
      BY <1>1 DEF Rabbit, Produce, DialOk, DialFails, OpenChannel, Declare, PublishOk, PublishFails,
          PublishClosed, PublishPanics, Reopen, rabbit
    <2> QED
      BY <1>t, <2>q, <2>s, <2>f, <2>b, <2>c, <2>o, <2>u DEF TypeOK, TaskRecs
  <1>2. ASSUME NEW t \in Tasks, Rest(t) PROVE TypeOK'
    <2>q. task' \in [Tasks -> TaskRecs]
      <3>1. CASE Nats(t)
        BY <3>1, <1>g DEF Nats, Pcs
      <3>2. CASE ReadLock(t)
        BY <3>2, <1>g DEF ReadLock, Pcs
      <3>3. CASE WsStart(t)
        <4>1. CASE client = Nil
          BY <3>3, <4>1, <1>g DEF WsStart, Pcs
        <4>2. CASE client # Nil
          BY <3>3, <4>2, <1>t DEF WsStart, TaskRecs, Pcs
        <4> QED
          BY <4>1, <4>2
      <3>4. CASE WsWritten(t)
        <4>1. PICK pc \in {"hook", "end"} : task' = [task EXCEPT ![t].pc = pc, ![t].on = Nil]
          BY <3>4 DEF WsWritten
        <4>2. [task[t] EXCEPT !.pc = pc, !.on = Nil] \in TaskRecs
          <5>1. task[t] \in TaskRecs
            BY <1>t
          <5>2. pc \in Pcs
            BY DEF Pcs
          <5>3. [task[t] EXCEPT !.pc = pc] \in TaskRecs
            BY <5>1, <5>2, TaskAt
          <5>4. \A x \in TaskRecs : [x EXCEPT !.on = Nil] \in TaskRecs
            BY DEF TaskRecs
          <5>5. [task[t] EXCEPT !.pc = pc, !.on = Nil] = [[task[t] EXCEPT !.pc = pc] EXCEPT !.on = Nil]
            OBVIOUS
          <5> QED
            BY <5>3, <5>4, <5>5
        <4> QED
          BY <4>1, <4>2, <1>t
      <3>5. CASE HookStart(t)
        BY <3>5, <1>g DEF HookStart, Pcs
      <3> QED
        BY <1>2, <3>1, <3>2, <3>3, <3>4, <3>5 DEF Rest
    <2>s. Sinks /\ sub' = sub /\ client' = client /\ stalled' = stalled /\ doubled' = doubled
      BY <1>2 DEF Rest, Nats, ReadLock, WsStart, WsWritten, HookStart, rabbit, ws, observers
    <2>b. crowded' \in BOOLEAN /\ alive' \in BOOLEAN
      BY <1>2, <1>t DEF Rest, Nats, ReadLock, WsStart, WsWritten, HookStart, observers
    <2>h. hook' \in [Tasks -> [left : 0..HookTries, got : BOOLEAN]]
      <3>1. CASE HookStart(t)
        <4>1. (IF cfg.hook THEN HookTries ELSE 0) \in 0..HookTries
          OBVIOUS
        <4> QED
          BY <3>1, <4>1, <1>t DEF HookStart
      <3>2. CASE ~HookStart(t)
        BY <3>2, <1>2, <1>t DEF Rest, Nats, ReadLock, WsStart, WsWritten
      <3> QED
        BY <3>1, <3>2
    <2> QED
      BY <1>t, <2>q, <2>s, <2>b, <2>h DEF TypeOK, TaskRecs
  <1>3. ASSUME NEW t \in Tasks, HookCall(t) PROVE TypeOK'
    <2>h. hook' \in [Tasks -> [left : 0..HookTries, got : BOOLEAN]]
      <3>1. CASE hook' = [hook EXCEPT ![t] = [left |-> 0, got |-> TRUE]]
        BY <3>1, <1>t
      <3>2. ASSUME NEW got \in {hook[t].got, TRUE},
                   hook' = [hook EXCEPT ![t] = [left |-> hook[t].left - 1, got |-> got]]
            PROVE  hook' \in [Tasks -> [left : 0..HookTries, got : BOOLEAN]]
        <4>1. hook[t] \in [left : 0..HookTries, got : BOOLEAN] /\ hook[t].left > 0
          BY <1>3, <1>t DEF HookCall
        <4>2. hook[t].left - 1 \in 0..HookTries
          BY <4>1
        <4>3. got \in BOOLEAN
          BY <4>1, <3>2
        <4> QED
          BY <3>2, <4>2, <4>3, <1>t
      <3> QED
        BY <1>3, <3>1, <3>2 DEF HookCall
    <2> QED
      BY <1>3, <1>t, <2>h DEF HookCall, TypeOK, TaskRecs, rabbit, ws, observers
  <1>4. ASSUME NEW t \in Tasks, BrokerStores(t) PROVE TypeOK'
    BY <1>4, <1>t DEF BrokerStores, TypeOK, TaskRecs, ws, observers
  <1>5. ASSUME NEW c \in Conns, ConnDrops(c) PROVE TypeOK'
    BY <1>5, <1>t, <1>d DEF ConnDrops, TypeOK, TaskRecs, ws
  <1>6. ASSUME NEW s \in Subs, Peer(s) PROVE TypeOK'
    BY <1>6, <1>t DEF Peer, Connects, Stalls, Closes, TypeOK, TaskRecs, rabbit, observers
  <1>7. ASSUME NEW s \in Subs, Locked(s) PROVE TypeOK'
    <2>q. task' \in [Tasks -> TaskRecs]
      <3>1. Unlock
        BY <1>7 DEF Locked, AddClient, RemoveClient
      <3>2. \A u \in Tasks : [task[u] EXCEPT !.pc = "locked"] \in TaskRecs
        BY <1>t, TaskAt DEF Pcs
      <3> QED
        BY <3>1, <3>2, <1>t DEF Unlock
    <2> QED
      BY <1>7, <2>q, <1>t DEF Locked, AddClient, RemoveClient, TypeOK, TaskRecs, rabbit, observers
  <1> QED
    BY <1>1, <1>2, <1>3, <1>4, <1>5, <1>6, <1>7 DEF Next
-----------------------------------------------------------------------------
(* What a step does to the tasks *)

\* The part of a delivery that comes after RabbitMQ.
Later == {"nats", "ws", "blocked", "locked", "write", "hook", "end"}

\* How the operators of the RabbitMQ producer leave their task.
LEMMA Outcomes ==
    ASSUME TypeOK, NEW t \in Tasks
    PROVE  /\ \A pc : Go(t, pc) =>
                /\ task'[t].pc = pc /\ task'[t].ch = task[t].ch /\ task'[t].again = task[t].again
           /\ \A pc : Leave(t, pc) => task'[t].pc = pc
           /\ Failed(t) \/ Succeeded(t) => task'[t].pc \in Later
           /\ \A pc, again : EnsureConnection(t, pc, again) =>
                /\ task'[t].ch = task[t].ch
                /\ \/ conn \in open /\ task'[t].pc = pc /\ raced' = raced
                   \/ /\ conn \notin open /\ task'[t].pc = "dial" /\ task'[t].again = again
                      /\ raced' = (raced \/ Dialing # {})
           /\ \A ch, err : NextAttempt(t, ch, err) =>
                \/ task'[t].pc = "publish" /\ task'[t].ch = ch /\ told' = told
                \/ task'[t].pc \in Later /\ told' = told
                \/ task'[t].pc \in Later /\ ~err /\ told' = told \cup {t}
  <1>t. task \in [Tasks -> TaskRecs] /\ task[t] \in TaskRecs
    BY DEF TypeOK, TaskRecs
  <1>1. ASSUME NEW pc, Go(t, pc)
        PROVE  task'[t].pc = pc /\ task'[t].ch = task[t].ch /\ task'[t].again = task[t].again
    BY <1>1, <1>t DEF Go, TaskRecs
  <1>2. ASSUME NEW pc, Leave(t, pc) PROVE task'[t].pc = pc
    BY <1>2, <1>t DEF Leave, Fresh
  <1>3. Failed(t) \/ Succeeded(t) => task'[t].pc \in Later
    BY <1>2 DEF Failed, Succeeded, Later
  <1>4. ASSUME NEW pc, NEW again, EnsureConnection(t, pc, again)
        PROVE  /\ task'[t].ch = task[t].ch
               /\ \/ conn \in open /\ task'[t].pc = pc /\ raced' = raced
                  \/ /\ conn \notin open /\ task'[t].pc = "dial" /\ task'[t].again = again
                     /\ raced' = (raced \/ Dialing # {})
    <2>1. CASE conn \in open
      BY <2>1, <1>4, <1>1 DEF EnsureConnection
    <2>2. CASE conn \notin open
      BY <2>2, <1>4, <1>t DEF EnsureConnection, TaskRecs
    <2> QED
      BY <2>1, <2>2
  <1>5. ASSUME NEW ch, NEW err, NextAttempt(t, ch, err)
        PROVE  \/ task'[t].pc = "publish" /\ task'[t].ch = ch /\ told' = told
               \/ task'[t].pc \in Later /\ told' = told
               \/ task'[t].pc \in Later /\ ~err /\ told' = told \cup {t}
    <2>1. CASE task[t].i + 1 < MaxRetries
      BY <2>1, <1>5, <1>t DEF NextAttempt, Fresh
    <2>2. CASE ~(task[t].i + 1 < MaxRetries)
      BY <2>2, <1>5, <1>3 DEF NextAttempt, Succeeded
    <2> QED
      BY <2>1, <2>2
  <1> QED
    BY <1>1, <1>2, <1>3, <1>4, <1>5

\* A delivery to RabbitMQ is a matter of its task.
LEMMA OthersKept ==
    ASSUME TypeOK, NEW t \in Tasks, Rabbit(t)
    PROVE  \A u \in Tasks \ {t} : task'[u] = task[u]
  BY RabbitTask DEF TypeOK

\* Whatever is not a step of the RabbitMQ producer moves a task only past it.
RestOrPeer ==
    \/ \E t \in Tasks : Rest(t) \/ HookCall(t) \/ BrokerStores(t)
    \/ \E c \in Conns : ConnDrops(c)
    \/ \E s \in Subs : Peer(s) \/ Locked(s)

LEMMA OnlyLater ==
    ASSUME TypeOK, RestOrPeer
    PROVE  \A u \in Tasks : task'[u] = task[u] \/ task'[u].pc \in Later
  <1>t. task \in [Tasks -> TaskRecs]
    BY DEF TypeOK, TaskRecs
  <1>1. ASSUME NEW t \in Tasks, Rest(t)
        PROVE  \A u \in Tasks : task'[u] = task[u] \/ task'[u].pc \in Later
    <2>1. ASSUME NEW pc \in Later, Go(t, pc)
          PROVE  \A u \in Tasks : task'[u] = task[u] \/ task'[u].pc \in Later
      BY <2>1, <1>t DEF Go, TaskRecs
    <2>2. CASE Nats(t)
      BY <2>2, <2>1 DEF Nats, Later
    <2>3. CASE ReadLock(t)
      BY <2>3, <2>1 DEF ReadLock, Later
    <2>4. CASE WsStart(t)
      <3>1. CASE client = Nil
        BY <2>4, <3>1, <2>1 DEF WsStart, Later
      <3>2. CASE client # Nil
        BY <2>4, <3>2, <1>t DEF WsStart, Later, TaskRecs
      <3> QED
        BY <3>1, <3>2
    <2>5. CASE WsWritten(t)
      BY <2>5, <1>t DEF WsWritten, Later, TaskRecs
    <2>6. CASE HookStart(t)
      BY <2>6, <2>1 DEF HookStart, Later
    <2> QED
      BY <1>1, <2>2, <2>3, <2>4, <2>5, <2>6 DEF Rest
  <1>2. ASSUME NEW s \in Subs, Locked(s)
        PROVE  \A u \in Tasks : task'[u] = task[u] \/ task'[u].pc \in Later
    BY <1>2, <1>t DEF Locked, AddClient, RemoveClient, Unlock, Later, TaskRecs
  <1>3. ASSUME NEW t \in Tasks, HookCall(t) \/ BrokerStores(t) PROVE task' = task
    BY <1>3 DEF HookCall, BrokerStores
  <1>4. ASSUME NEW c \in Conns, ConnDrops(c) PROVE task' = task
    BY <1>4 DEF ConnDrops
  <1>5. ASSUME NEW s \in Subs, Peer(s) PROVE task' = task
    BY <1>5 DEF Peer, Connects, Stalls, Closes
  <1> QED
    BY <1>1, <1>2, <1>3, <1>4, <1>5 DEF RestOrPeer
-----------------------------------------------------------------------------
(* Panics *)

LEMMA RabbitPanics ==
    ASSUME TypeOK, Panics, NEW t \in Tasks, Rabbit(t)
    PROVE  Panics'
  <1> USE DeliveryAssumption
  <1>t. /\ conn \in Conns \cup {Nil} /\ open \subseteq Conns /\ Nil \notin open
        /\ task \in [Tasks -> TaskRecs] /\ task[t] \in TaskRecs
    BY DEF TypeOK, TaskRecs
  <1>o. \A u \in Tasks \ {t} : task'[u] = task[u]
    BY OthersKept
  <1>h. /\ task[t].pc = "declare" => task[t].ch # Nil
        /\ task[t].pc = "publish" => task[t].ch # Nil \/ refused
        /\ task[t].pc = "reopen" \/ (task[t].pc = "dial" /\ task[t].again) => task[t].ch # Nil
        /\ task[t].pc \in {"channel", "reopen"} => conn # Nil \/ emptied
    BY DEF Panics, HasChannel, HasConnection
  <1> DEFINE Ch == /\ task'[t].pc = "declare" => task'[t].ch # Nil
                   /\ task'[t].pc = "publish" => task'[t].ch # Nil \/ refused'
                   /\ task'[t].pc = "reopen" \/ (task'[t].pc = "dial" /\ task'[t].again) => task'[t].ch # Nil
             Co == task'[t].pc \in {"channel", "reopen"} => conn' # Nil \/ emptied'
             Al == alive' = alive \/ emptied' \/ refused'
             Others == /\ crowded' = crowded /\ (refused => refused') /\ (emptied => emptied')
                       /\ \/ conn' = conn \/ conn' # Nil
                          \/ \A u \in Tasks \ {t} : task[u].pc \in {"channel", "reopen"} => emptied'
  <1>q. ASSUME Ch, Co, Al, Others PROVE Panics'
    <2>1. HasChannel'
      BY <1>q, <1>o DEF HasChannel, Panics
    <2>2. HasConnection'
      BY <1>q, <1>o DEF HasConnection, Panics
    <2>3. ProcessLives'
      BY <1>q DEF ProcessLives, Panics
    <2> QED
      BY <2>1, <2>2, <2>3 DEF Panics
  <1>1. CASE Produce(t)
    <2>1. \/ EnsureConnection(t, "channel", FALSE)
          \/ Go(t, "nats")
      BY <1>1 DEF Produce
    <2>2. \/ task'[t].pc = "channel" /\ conn \in open
          \/ task'[t].pc = "dial" /\ ~task'[t].again
          \/ task'[t].pc = "nats"
      BY <2>1, Outcomes
    <2> QED
      BY <1>1, <2>2, <1>t, <1>q DEF Produce, rabbit
  <1>2. CASE DialOk(t)
    <2>1. conn' # Nil
      BY <1>2, <1>t DEF DialOk, Unused
    <2>2. /\ task'[t].ch = task[t].ch
          /\ task'[t].pc \in {"channel", "reopen"} /\ (task'[t].pc = "reopen" => task[t].again)
      BY <1>2, <1>t DEF DialOk, TaskRecs
    <2> QED
      BY <1>2, <2>1, <2>2, <1>h, <1>q DEF DialOk, observers
  <1>3. CASE DialFails(t)
    <2>1. \/ task'[t].pc = "dial" /\ task'[t].again = task[t].again /\ task'[t].ch = task[t].ch
          \/ task[t].again /\ task'[t].pc = "publish" /\ task'[t].ch = task[t].ch
          \/ task'[t].pc \in Later
      <3>1. CASE task[t].dials + 1 < MaxDials
        BY <1>3, <3>1, <1>t DEF DialFails, TaskRecs
      <3>2. CASE ~(task[t].dials + 1 < MaxDials)
        BY <1>3, <3>2, Outcomes DEF DialFails
      <3> QED
        BY <3>1, <3>2
    <2>2. task[t].pc = "dial"
      BY <1>3 DEF DialFails
    <2>3. Ch /\ Co
      BY <2>1, <2>2, <1>h DEF Later
    <2>4. Al /\ Others
      BY <1>3 DEF DialFails
    <2> QED
      BY <2>3, <2>4, <1>q
  <1>4. CASE OpenChannel(t)
    <2>1. \/ conn = Nil /\ task' = task
          \/ task'[t].pc = "declare" /\ task'[t].ch # Nil /\ alive' = alive
          \/ task'[t].pc \in Later /\ alive' = alive
      BY <1>4, <1>t, Outcomes DEF OpenChannel, TaskRecs
    <2>2. conn' = conn /\ emptied' = emptied /\ refused' = refused /\ crowded' = crowded /\ task[t].pc = "channel"
      BY <1>4 DEF OpenChannel, rabbit, observers
    <2> QED
      BY <2>1, <2>2, <1>h, <1>q DEF Later
  <1>5. CASE Declare(t)
    <2>1. \/ task'[t].pc = "publish" /\ task'[t].ch = task[t].ch
          \/ task'[t].pc \in Later
      BY <1>5, Outcomes DEF Declare
    <2> QED
      BY <1>5, <2>1, <1>h, <1>q DEF Declare, rabbit, Later
  <1>6. CASE PublishOk(t)
    <2>1. task'[t].pc \in Later
      BY <1>6, Outcomes DEF PublishOk
    <2> QED
      BY <1>6, <2>1, <1>q DEF PublishOk, Later
  <1>7. CASE PublishFails(t)
    <2>1. \/ task'[t].pc = "publish" /\ task'[t].ch = task[t].ch
          \/ task'[t].pc \in Later
      BY <1>7, Outcomes DEF PublishFails
    <2> QED
      BY <1>7, <2>1, <1>t, <1>q DEF PublishFails, Later
  <1>8. CASE PublishClosed(t)
    <2>1. /\ task'[t].ch = task[t].ch
          /\ \/ task'[t].pc = "reopen" /\ conn \in open
             \/ task'[t].pc = "dial"
      BY <1>8, Outcomes DEF PublishClosed
    <2> QED
      BY <1>8, <2>1, <1>t, <1>q DEF PublishClosed, rabbit
  <1>9. CASE PublishPanics(t)
    BY <1>9, <1>h, <1>q DEF PublishPanics, rabbit, observers
  <1>10. CASE Reopen(t)
    <2>1. \/ conn = Nil /\ task' = task /\ refused' = refused
          \/ NextAttempt(t, conn, FALSE) /\ conn # Nil /\ alive' = alive /\ refused' = refused
          \/ NextAttempt(t, Nil, TRUE) /\ refused' = TRUE /\ alive' = alive
      BY <1>10, <1>t DEF Reopen
    <2>2. \/ conn = Nil /\ task' = task /\ refused' = refused
          \/ /\ task'[t].pc = "publish" /\ (task'[t].ch # Nil \/ refused') /\ alive' = alive
             /\ refused => refused'
          \/ task'[t].pc \in Later /\ alive' = alive /\ (refused => refused')
      BY <2>1, Outcomes
    <2>3. conn' = conn /\ emptied' = emptied /\ crowded' = crowded /\ task[t].pc = "reopen"
      BY <1>10 DEF Reopen, rabbit
    <2> QED
      BY <2>2, <2>3, <1>h, <1>q DEF Later
  <1> QED
    BY <1>1, <1>2, <1>3, <1>4, <1>5, <1>6, <1>7, <1>8, <1>9, <1>10 DEF Rabbit

\* Of the other steps only two writes on one websocket end the process.
LEMMA RestPanics ==
    ASSUME TypeOK, Panics, RestOrPeer
    PROVE  Panics'
  <1>1. conn' = conn /\ emptied' = emptied /\ refused' = refused
    BY DEF RestOrPeer, Rest, Nats, ReadLock, WsStart, WsWritten, HookStart, HookCall, BrokerStores, ConnDrops,
           Peer, Connects, Stalls, Closes, Locked, AddClient, RemoveClient, rabbit, observers
  <1>3. (crowded => crowded') /\ (alive' \/ alive' = alive \/ crowded')
    <2>1. ASSUME NEW t \in Tasks, WsStart(t)
          PROVE  (crowded => crowded') /\ (alive' \/ alive' = alive \/ crowded')
      <3>1. CASE client = Nil
        BY <2>1, <3>1 DEF WsStart
      <3>2. CASE client # Nil
        <4> DEFINE both == \E u \in Readers : task[u].on = client
        <4>1. crowded' = (crowded \/ both) /\ alive' \in {TRUE, ~both}
          BY <2>1, <3>2 DEF WsStart
        <4> HIDE DEF both
        <4> QED
          BY <4>1
      <3> QED
        BY <3>1, <3>2
    <2>2. ASSUME ~(\E t \in Tasks : WsStart(t)) PROVE crowded' = crowded /\ alive' = alive
      BY <2>2 DEF RestOrPeer, Rest, Nats, ReadLock, WsWritten, HookStart, HookCall, BrokerStores, ConnDrops,
           Peer, Connects, Stalls, Closes, Locked, AddClient, RemoveClient, observers
    <2> QED
      BY <2>1, <2>2
  <1>2. \A u \in Tasks : task'[u] = task[u] \/ task'[u].pc \in Later
    BY OnlyLater
  <1> QED
    BY <1>1, <1>2, <1>3 DEF Panics, HasChannel, HasConnection, ProcessLives, Later
-----------------------------------------------------------------------------
(* Lost events *)

Kept == CutKnown /\ LostOnlyByDrop

\* What the steps about connections leave to the tasks they do not concern.
Grows == /\ cfg' = cfg /\ queued \subseteq queued' /\ cut \subseteq cut'
         /\ \A u \in Tasks : flight[u] # Nil => flight'[u] # Nil \/ u \in cut' \/ u \in queued'
         /\ \A u \in Tasks : task[u].ch \in open => task[u].ch \in open' \/ u \in cut'

LEMMA DropGrows ==
    ASSUME TypeOK, NEW c, Drop(c), cfg' = cfg, queued' = queued
    PROVE  Grows
  BY DEF Grows, Drop, TypeOK

\* An event is logged once it is written, and what is cut off is known.
LEMMA RabbitKept ==
    ASSUME TypeOK, Panics, Kept, NEW t \in Tasks, Rabbit(t)
    PROVE  Kept'
  <1> USE DeliveryAssumption
  <1>t. /\ conn \in Conns \cup {Nil} /\ open \subseteq Conns /\ Nil \notin open
        /\ task \in [Tasks -> TaskRecs] /\ task[t] \in TaskRecs
        /\ flight \in [Tasks -> Conns \cup {Nil}]
    BY DEF TypeOK, TaskRecs
  <1>o. \A u \in Tasks \ {t} : task'[u] = task[u]
    BY OthersKept
  <1>h. /\ task[t].pc \in {"declare", "publish"} /\ task[t].ch # Nil => task[t].ch \in open \/ t \in cut
        /\ task[t].pc = "reopen" \/ (task[t].pc = "dial" /\ task[t].again) => t \in cut
    BY DEF Kept, CutKnown
  <1> DEFINE Mine == /\ task'[t].pc \in {"declare", "publish"} /\ task'[t].ch # Nil =>
                           task'[t].ch \in open' \/ t \in cut'
                     /\ task'[t].pc = "reopen" \/ (task'[t].pc = "dial" /\ task'[t].again) => t \in cut'
             Told == \/ told' = told
                     \/ /\ told' = told \cup {t}
                        /\ \/ flight'[t] # Nil \/ t \in cut'
                           \/ (t \notin cfg.global /\ cfg.rabbit # "enabled")
  <1>q. ASSUME Mine, Told, Grows PROVE Kept'
    <2>1. CutKnown'
      BY <1>q, <1>o DEF Kept, CutKnown, Grows
    <2>2. LostOnlyByDrop'
      <3> SUFFICES ASSUME NEW u \in told'
                   PROVE  \/ u \in queued' \/ flight'[u] # Nil \/ u \in cut'
                          \/ (u \notin cfg'.global /\ cfg'.rabbit # "enabled")
        BY DEF LostOnlyByDrop
      <3>0. cfg' = cfg
        BY <1>q DEF Grows
      <3>1. CASE u \in told
        <4>1. u \in Tasks
          BY <3>1 DEF TypeOK
        <4> QED
          BY <3>0, <3>1, <4>1, <1>q DEF Kept, LostOnlyByDrop, Grows
      <3>2. CASE u \notin told
        BY <3>0, <3>2, <1>q
      <3> QED
        BY <3>1, <3>2
    <2> QED
      BY <2>1, <2>2 DEF Kept
  <1>s. UNCHANGED <<cfg, open, flight, queued, cut>> => Grows
    BY DEF Grows
  <1>1. CASE Produce(t)
    <2>1. \/ task'[t].pc = "channel"
          \/ task'[t].pc = "dial" /\ ~task'[t].again
          \/ task'[t].pc = "nats"
      <3>1. EnsureConnection(t, "channel", FALSE) \/ Go(t, "nats")
        BY <1>1 DEF Produce
      <3> QED
        BY <3>1, Outcomes
    <2> QED
      BY <1>1, <2>1, <1>q, <1>s DEF Produce, rabbit
  <1>2. CASE DialOk(t)
    <2>1. task'[t].pc \in {"channel", "reopen"} /\ (task'[t].pc = "reopen" => task[t].again)
      BY <1>2, <1>t DEF DialOk, TaskRecs
    <2>2. open \subseteq open' /\ UNCHANGED <<cfg, flight, queued, cut, told>> /\ task[t].pc = "dial"
      BY <1>2 DEF DialOk, observers
    <2> QED
      BY <2>1, <2>2, <1>h, <1>q DEF Grows
  <1>3. CASE DialFails(t)
    <2>1. /\ \/ task'[t].pc = "dial" /\ task'[t].again = task[t].again
             \/ task[t].again /\ task'[t].pc = "publish"
             \/ task'[t].pc \in Later
          /\ told' = told
      <3>1. CASE task[t].dials + 1 < MaxDials
        BY <1>3, <3>1, <1>t DEF DialFails, TaskRecs
      <3>2. CASE ~(task[t].dials + 1 < MaxDials)
        BY <1>3, <3>2, Outcomes DEF DialFails
      <3> QED
        BY <3>1, <3>2
    <2>2. UNCHANGED <<cfg, open, flight, queued, cut>> /\ task[t].pc = "dial"
      BY <1>3 DEF DialFails
    <2> QED
      BY <2>1, <2>2, <1>h, <1>q, <1>s DEF Later
  <1>4. CASE OpenChannel(t)
    <2>1. \/ task' = task
          \/ task'[t].pc = "declare" /\ task'[t].ch \in open
          \/ task'[t].pc \in Later
      BY <1>4, <1>t, Outcomes DEF OpenChannel, TaskRecs
    <2>2. UNCHANGED <<cfg, open, flight, queued, cut, told>>
      BY <1>4 DEF OpenChannel, rabbit, observers
    <2> QED
      BY <2>1, <2>2, <1>h, <1>q, <1>s DEF Later
  <1>5. CASE Declare(t)
    <2>1. \/ task'[t].pc = "publish" /\ task'[t].ch = task[t].ch /\ told' = told
          \/ task'[t].pc \in Later /\ told' = told
          \/ /\ task'[t].pc \in Later /\ told' = told \cup {t}
             /\ t \notin cfg.global /\ cfg.rabbit # "enabled"
      BY <1>5, Outcomes DEF Declare, Succeeded
    <2>2. UNCHANGED <<cfg, open, flight, queued, cut>> /\ task[t].pc = "declare"
      BY <1>5 DEF Declare, rabbit
    <2> QED
      BY <2>1, <2>2, <1>h, <1>q, <1>s DEF Later
  <1>6. CASE PublishOk(t)
    <2>1. task'[t].pc \in Later /\ told' = told \cup {t}
      BY <1>6, Outcomes DEF PublishOk, Succeeded
    <2>2. flight' = [flight EXCEPT ![t] = task[t].ch] /\ task[t].ch # Nil
      BY <1>6, <1>t DEF PublishOk
    <2>3. Grows
      BY <1>6, <2>2, <1>t DEF PublishOk, Grows
    <2> QED
      BY <2>1, <2>2, <2>3, <1>t, <1>q DEF Later
  <1>7. CASE PublishFails(t)
    <2>1. \/ task'[t].pc = "publish" /\ told' = told
          \/ task'[t].pc \in Later /\ told' = told
      BY <1>7, Outcomes DEF PublishFails
    <2>2. t \in cut' /\ Grows
      BY <1>7, DropGrows DEF PublishFails, Drop
    <2> QED
      BY <2>1, <2>2, <1>q DEF Later
  <1>8. CASE PublishClosed(t)
    <2>1. task'[t].pc = "reopen" \/ task'[t].pc = "dial"
      BY <1>8, Outcomes DEF PublishClosed
    <2>2. UNCHANGED <<cfg, open, flight, queued, cut, told>> /\ t \in cut
      BY <1>8, <1>h DEF PublishClosed, rabbit
    <2> QED
      BY <2>1, <2>2, <1>q, <1>s
  <1>9. CASE PublishPanics(t)
    BY <1>9, <1>h, <1>q, <1>s DEF PublishPanics, rabbit, observers
  <1>10. CASE Reopen(t)
    <2>1. (task' = task /\ told' = told) \/ NextAttempt(t, conn, FALSE) \/ NextAttempt(t, Nil, TRUE)
      BY <1>10 DEF Reopen
    <2>2. \/ task' = task /\ told' = told
          \/ task'[t].pc = "publish" /\ told' = told
          \/ task'[t].pc \in Later /\ (told' = told \/ told' = told \cup {t})
      BY <2>1, Outcomes
    <2>3. UNCHANGED <<cfg, open, flight, queued, cut>> /\ t \in cut
      BY <1>10, <1>h DEF Reopen, rabbit
    <2> QED
      BY <2>2, <2>3, <1>q, <1>s DEF Later
  <1> QED
    BY <1>1, <1>2, <1>3, <1>4, <1>5, <1>6, <1>7, <1>8, <1>9, <1>10 DEF Rabbit

\* The other steps log nothing; a connection that drops marks what it cuts.
LEMMA RestKept ==
    ASSUME TypeOK, Kept, RestOrPeer
    PROVE  Kept'
  <1>1. Grows
    <2>1. ASSUME NEW c \in Conns, ConnDrops(c) PROVE Grows
      BY <2>1, DropGrows DEF ConnDrops
    <2>2. ASSUME NEW t \in Tasks, BrokerStores(t) PROVE Grows
      BY <2>2 DEF BrokerStores, Grows, observers, TypeOK
    <2>3. ASSUME ~(\E c \in Conns : ConnDrops(c)), ~(\E t \in Tasks : BrokerStores(t))
          PROVE  UNCHANGED <<cfg, open, flight, queued, cut>>
      BY <2>3 DEF RestOrPeer, Rest, Nats, ReadLock, WsStart, WsWritten, HookStart, HookCall,
           Peer, Connects, Stalls, Closes, Locked, AddClient, RemoveClient, rabbit, observers
    <2>4. UNCHANGED <<cfg, open, flight, queued, cut>> => Grows
      BY DEF Grows
    <2> QED
      BY <2>1, <2>2, <2>3, <2>4
  <1>2. told' = told
    BY DEF RestOrPeer, Rest, Nats, ReadLock, WsStart, WsWritten, HookStart, HookCall, BrokerStores, ConnDrops,
           Peer, Connects, Stalls, Closes, Locked, AddClient, RemoveClient, observers
  <1>3. \A u \in Tasks : task'[u] = task[u] \/ task'[u].pc \in Later
    BY OnlyLater
  <1>4. CutKnown'
    BY <1>1, <1>3 DEF Kept, CutKnown, Grows, Later
  <1>5. LostOnlyByDrop'
    BY <1>1, <1>2 DEF Kept, LostOnlyByDrop, Grows, TypeOK
  <1> QED
    BY <1>4, <1>5 DEF Kept
-----------------------------------------------------------------------------
(* Connections *)

\* The shared connection is replaced only by who found it closed.
LEMMA RabbitShared ==
    ASSUME TypeOK, SharedOnly, NEW t \in Tasks, Rabbit(t)
    PROVE  SharedOnly'
  <1>t. task \in [Tasks -> TaskRecs] /\ task[t] \in TaskRecs
    BY DEF TypeOK, TaskRecs
  <1>o. \A u \in Tasks \ {t} : task'[u] = task[u]
    BY OthersKept
  <1> DEFINE Same == open' \subseteq open /\ conn' = conn /\ (raced => raced')
             Past == task'[t].pc # "dial"
             Dials == /\ task'[t].pc = "dial" /\ conn \notin open
                      /\ (raced => raced') /\ (Dialing # {} => raced')
  <1>e. \A pc \in {"channel", "reopen"}, again \in BOOLEAN : EnsureConnection(t, pc, again) =>
           (Past /\ (raced => raced')) \/ Dials
    BY Outcomes
  <1>s. ASSUME Same, Past PROVE SharedOnly'
    BY <1>s, <1>o DEF SharedOnly
  <1>d. ASSUME Same, Dials PROVE SharedOnly'
    BY <1>d, <1>o DEF SharedOnly, Dialing
  <1>1. CASE Produce(t)
    <2>1. \/ EnsureConnection(t, "channel", FALSE)
          \/ Go(t, "nats") /\ raced' = raced
      BY <1>1 DEF Produce
    <2>2. (Past /\ (raced => raced')) \/ Dials
      <3>1. Go(t, "nats") => Past
        BY Outcomes
      <3> QED
        BY <2>1, <3>1, <1>e
    <2>3. open' = open /\ conn' = conn
      BY <1>1 DEF Produce, rabbit
    <2>4. open' \subseteq open
      BY <2>3
    <2> HIDE DEF Past, Dials
    <2> QED
      BY <2>2, <2>3, <2>4, <1>s, <1>d DEF Dials
  <1>2. CASE DialOk(t)
    <2>1. task'[t].pc \in {"channel", "reopen"}
      BY <1>2, <1>t DEF DialOk, TaskRecs
    <2>2. open' = open \cup {conn'} /\ raced' = raced /\ task[t].pc = "dial"
      BY <1>2 DEF DialOk, observers
    <2> QED
      BY <2>1, <2>2, <1>o DEF SharedOnly
  <1>3. CASE DialFails(t)
    <2>1. open' = open /\ raced' = raced /\ task[t].pc = "dial"
      BY <1>3 DEF DialFails
    <2> QED
      BY <2>1, <1>o DEF SharedOnly
  <1>4. CASE OpenChannel(t)
    <2>1. task' = task \/ task'[t].pc = "declare" \/ task'[t].pc \in Later
      BY <1>4, <1>t, Outcomes DEF OpenChannel, TaskRecs
    <2>2. task[t].pc = "channel" /\ UNCHANGED <<open, conn, raced>>
      BY <1>4 DEF OpenChannel, rabbit, observers
    <2> QED
      BY <2>1, <2>2, <1>s DEF Later
  <1>5. CASE Declare(t)
    <2>1. task'[t].pc = "publish" \/ task'[t].pc \in Later
      BY <1>5, Outcomes DEF Declare
    <2> QED
      BY <1>5, <2>1, <1>s DEF Declare, rabbit, Later
  <1>6. CASE PublishOk(t)
    <2>1. task'[t].pc \in Later
      BY <1>6, Outcomes DEF PublishOk
    <2> QED
      BY <1>6, <2>1, <1>s DEF PublishOk, Later
  <1>7. CASE PublishFails(t)
    <2>1. task'[t].pc = "publish" \/ task'[t].pc \in Later
      BY <1>7, Outcomes DEF PublishFails
    <2> QED
      BY <1>7, <2>1, <1>s DEF PublishFails, Drop, Later
  <1>8. CASE PublishClosed(t)
    <2>1. (Past /\ (raced => raced')) \/ Dials
      BY <1>8, <1>e DEF PublishClosed
    <2>2. open' = open /\ conn' = conn
      BY <1>8 DEF PublishClosed, rabbit
    <2>3. open' \subseteq open
      BY <2>2
    <2> HIDE DEF Past, Dials
    <2> QED
      BY <2>1, <2>2, <2>3, <1>s, <1>d DEF Dials
  <1>9. CASE PublishPanics(t)
    BY <1>9, <1>s DEF PublishPanics, rabbit, observers
  <1>10. CASE Reopen(t)
    <2>1. task' = task \/ NextAttempt(t, conn, FALSE) \/ NextAttempt(t, Nil, TRUE)
      BY <1>10 DEF Reopen
    <2>2. task' = task \/ task'[t].pc = "publish" \/ task'[t].pc \in Later
      BY <2>1, Outcomes
    <2>3. task[t].pc = "reopen" /\ UNCHANGED <<open, conn, raced>>
      BY <1>10 DEF Reopen, rabbit
    <2> QED
      BY <2>2, <2>3, <1>s DEF Later
  <1> QED
    BY <1>1, <1>2, <1>3, <1>4, <1>5, <1>6, <1>7, <1>8, <1>9, <1>10 DEF Rabbit

\* The other steps open no connection.
LEMMA RestShared ==
    ASSUME TypeOK, SharedOnly, RestOrPeer
    PROVE  SharedOnly'
  <1>1. open' \subseteq open /\ conn' = conn /\ raced' = raced
    BY DEF RestOrPeer, Rest, Nats, ReadLock, WsStart, WsWritten, HookStart, HookCall, BrokerStores, ConnDrops, Drop,
           Peer, Connects, Stalls, Closes, Locked, AddClient, RemoveClient, rabbit, observers
  <1>2. \A u \in Tasks : task'[u] = task[u] \/ task'[u].pc \in Later
    BY OnlyLater
  <1> QED
    BY <1>1, <1>2 DEF SharedOnly, Later
-----------------------------------------------------------------------------
(* Websocket connections *)

\* Only one who connects and the two who hold the lock touch the connections.
LEMMA SubsKept ==
    ASSUME TypeOK, OneSub, SubscriberKept, Next
    PROVE  (OneSub /\ SubscriberKept)'
  <1> USE DeliveryAssumption
  <1>t. /\ sub \in [Subs -> {"none", "adding", "open", "removing"}]
        /\ client \in Subs \cup {Nil} /\ doubled \in BOOLEAN
    BY DEF TypeOK
  <1>1. ASSUME NEW s \in Subs, Connects(s) PROVE (OneSub /\ SubscriberKept)'
    <2>1. /\ sub[s] = "none" /\ sub' = [sub EXCEPT ![s] = "adding"] /\ client' = client
          /\ doubled' = (doubled \/ \E r \in Subs : sub[r] # "none")
      BY <1>1 DEF Connects
    <2> QED
      BY <2>1, <1>t DEF OneSub, SubscriberKept
  <1>2. ASSUME NEW s \in Subs, Stalls(s) PROVE (OneSub /\ SubscriberKept)'
    BY <1>2 DEF Stalls, OneSub, SubscriberKept, observers
  <1>3. ASSUME NEW s \in Subs, Closes(s) PROVE (OneSub /\ SubscriberKept)'
    BY <1>3, <1>t DEF Closes, OneSub, SubscriberKept, observers
  <1>4. ASSUME NEW s \in Subs, AddClient(s) PROVE (OneSub /\ SubscriberKept)'
    <2>1. /\ sub[s] = "adding" /\ sub' = [sub EXCEPT ![s] = "open"] /\ client' = s
          /\ doubled' = doubled
      BY <1>4 DEF AddClient, observers
    <2>2. doubled \/ \A r \in Subs \ {s} : sub[r] = "none"
      BY <2>1 DEF OneSub
    <2> QED
      BY <2>1, <2>2, <1>t DEF OneSub, SubscriberKept
  <1>5. ASSUME NEW s \in Subs, RemoveClient(s) PROVE (OneSub /\ SubscriberKept)'
    <2>1. /\ sub[s] = "removing" /\ sub' = [sub EXCEPT ![s] = "none"] /\ client' = Nil
          /\ doubled' = doubled
      BY <1>5 DEF RemoveClient, observers
    <2>2. doubled \/ \A r \in Subs \ {s} : sub[r] = "none"
      BY <2>1 DEF OneSub
    <2> QED
      BY <2>1, <2>2, <1>t DEF OneSub, SubscriberKept
  <1>6. ASSUME UNCHANGED <<sub, client, doubled>> PROVE (OneSub /\ SubscriberKept)'
    BY <1>6 DEF OneSub, SubscriberKept
  <1>7. ASSUME NEW t \in Tasks, Rabbit(t) PROVE UNCHANGED <<sub, client, doubled>>
    BY <1>7 DEF Rabbit, Produce, DialOk, DialFails, OpenChannel, Declare, PublishOk, PublishFails,
          PublishClosed, PublishPanics, Reopen, ws, observers
  <1>8. ASSUME NEW t \in Tasks, Rest(t) \/ HookCall(t) \/ BrokerStores(t)
        PROVE  UNCHANGED <<sub, client, doubled>>
    BY <1>8 DEF Rest, Nats, ReadLock, WsStart, WsWritten, HookStart, HookCall, BrokerStores, ws, observers
  <1>9. ASSUME NEW c \in Conns, ConnDrops(c) PROVE UNCHANGED <<sub, client, doubled>>
    BY <1>9 DEF ConnDrops, ws
  <1> QED
    BY <1>1, <1>2, <1>3, <1>4, <1>5, <1>6, <1>7, <1>8, <1>9 DEF Next, Peer, Locked
-----------------------------------------------------------------------------
(* Theorems *)

LEMMA NextInv == IInv /\ Next => IInv'
  <1> SUFFICES ASSUME IInv, Next PROVE IInv'
    OBVIOUS
  <1>1. TypeOK /\ Panics /\ Kept /\ SharedOnly /\ OneSub /\ SubscriberKept
    BY DEF IInv, Kept
  <1>2. TypeOK' /\ OneSub' /\ SubscriberKept'
    BY <1>1, NextType, SubsKept
  <1>3. Panics' /\ Kept' /\ SharedOnly'
    <2>1. ASSUME NEW t \in Tasks, Rabbit(t) PROVE Panics' /\ Kept' /\ SharedOnly'
      BY <1>1, <2>1, RabbitPanics, RabbitKept, RabbitShared
    <2>2. ASSUME RestOrPeer PROVE Panics' /\ Kept' /\ SharedOnly'
      BY <1>1, <2>2, RestPanics, RestKept, RestShared
    <2> QED
      BY <2>1, <2>2 DEF Next, RestOrPeer
  <1> QED
    BY <1>2, <1>3 DEF IInv, Kept

LEMMA StutterInv == IInv /\ UNCHANGED vars => IInv'
  BY DEF IInv, vars, rabbit, ws, observers, TypeOK, Panics, HasChannel, HasConnection, ProcessLives,
         CutKnown, LostOnlyByDrop, SharedOnly, OneSub, SubscriberKept

\* The strengthened invariant holds in every reachable state, however many
\* events, reconnections and websockets there are.
THEOREM Invariance == Spec => []IInv
  <1>1. IInv /\ [Next]_vars => IInv'
    BY NextInv, StutterInv
  <1> QED
    BY InitInv, <1>1, PTL DEF Spec

\* Types of the connections, tasks and observers (pkg/events).
THEOREM TypeCorrect == Spec => []TypeOK
  <1>1. IInv => TypeOK
    BY DEF IInv
  <1> QED
    BY <1>1, Invariance, PTL

\* An event logged as published is stored, on its way, cut off by a connection
\* that dropped, or of an instance with the setting "true"
\* (rabbitmq_producer.go, publishWithRetry and Produce).
THEOREM LostOnlyByDropAlways == Spec => []LostOnlyByDrop
  <1>1. IInv => LostOnlyByDrop
    BY DEF IInv
  <1> QED
    BY <1>1, Invariance, PTL

\* Without reconnections that overlap at most one connection is open
\* (rabbitmq_producer.go, ensureConnection and reconnect).
THEOREM OneConnectionAlways == Spec => []OneConnection
  <1>1. IInv => OneConnection
    <2> SUFFICES ASSUME IInv, ~raced PROVE Cardinality(open) <= 1
      BY DEF OneConnection
    <2>1. open = {} \/ open = {conn}
      BY DEF IInv, SharedOnly
    <2>2. Cardinality({}) = 0 /\ Cardinality({conn}) = 1
      BY FS_EmptySet, FS_Singleton
    <2> QED
      BY <2>1, <2>2
  <1> QED
    BY <1>1, Invariance, PTL

\* The process ends only by a connection taken from a task, a refused channel,
\* or two writes on one websocket (rabbitmq_producer.go, websocket_producer.go).
THEOREM ProcessLivesAlways == Spec => []ProcessLives
  <1>1. IInv => ProcessLives
    BY DEF IInv, Panics
  <1> QED
    BY <1>1, Invariance, PTL

\* The instance's entry is that of its websocket until two of them overlap
\* (websocket_producer.go, AddClient and RemoveClient).
THEOREM SubscriberKeptAlways == Spec => []SubscriberKept
  <1>1. IInv => SubscriberKept
    BY DEF IInv
  <1> QED
    BY <1>1, Invariance, PTL
=============================================================================
