---------------------------- MODULE InboxProofs ----------------------------
(***************************************************************************)
(* Proofs about Inbox, for every set of messages and handlers and every    *)
(* bound.                                                                  *)
(***************************************************************************)
EXTENDS Inbox, TLAPS

TaskRecs == [pc : Stages, kind : Kinds, m : Msgs \cup {Nobody}, addr : Numbers,
             num : Numbers \cup {"none"},
             status : {"none", "SENT", "DELIVERED", "READ"}, seen : SUBSET In]

\* What a handler x has in hand, given how far it is.
StagedAt(x) ==
    /\ x.m = Nobody <=> x.pc \in {"idle", "list", "mark", "update"}
    /\ x.pc \in {"contact", "row", "list", "mark", "update"} => x.num \in Numbers
    /\ x.pc \in {"conversation", "check"} => x.kind = "history" /\ x.num = "pn"
    /\ x.pc \in {"original", "apply"} => x.kind = "receipt"
    /\ x.pc \in {"resolve", "conversation", "check", "contact", "row"} =>
           x.kind \in {"message", "outgoing", "history"}
    /\ x.kind \in {"none", "read", "sendRead"} <=> x.m = Nobody
    /\ x.kind = "receipt" => x.m \in Out /\ x.status \in {"DELIVERED", "READ"}
    /\ x.kind \in {"message", "outgoing"} => x.status = "SENT"
    /\ x.kind = "history" => x.status = "READ"
Staged == \A t \in Tasks : StagedAt(task[t])

\* A message whose events neither overlapped nor failed is carried by at most
\* one handler, with its latest status; only a receipt carries a stored one.
Carried ==
    \A m \in Msgs \ raced :
        /\ begun[m] = 0 => ~Stored(m) /\ ~Busy(m)
        /\ \A t \in Tasks : task[t].m = m =>
               /\ task[t].status = StatusOf[begun[m]]
               /\ task[t].kind # "receipt" => ~Stored(m)
               /\ \A u \in Tasks : task[u].m = m => u = t

\* What a read request is about to mark was on its list, or came after it.
ListKnown ==
    \A t \in Tasks, m \in In : msg[m].num = task[t].num /\ msg[m].status # "READ" =>
        /\ task[t].pc = "mark" => m \in task[t].seen \cup overlapped
        /\ task[t].pc = "update" => m \in told \cup refused \cup overlapped

\* The number a message is stored under is a contact; what is under the lid
\* when the mapping comes is brought home by a merge in progress.
Homed ==
    /\ \A t \in Tasks : /\ task[t].pc \in {"mergeDelete", "mergeRows"} => "pn" \in contacts
                        /\ task[t].pc = "row" /\ task[t].num = "pn" => "pn" \in contacts
    /\ \A m \in Msgs : msg[m].num = "pn" => "pn" \in contacts
    /\ ~straddled /\ ~mapped =>
          /\ \A t \in Tasks : /\ task[t].pc \notin Merging
                              /\ task[t].pc = "row" /\ task[t].num = "lid" => "lid" \in contacts
          /\ \A m \in Msgs : msg[m].num = "lid" => "lid" \in contacts
    /\ ~straddled /\ mapped =>
          /\ \A t \in Tasks : ~LidHolder(t)
          /\ "lid" \in contacts => \E t \in Tasks : task[t].pc \in {"mergeContact", "mergeDelete"}
          /\ \A m \in Msgs : msg[m].num = "lid" => \E t \in Tasks : task[t].pc \in Merging

\* Until a truncation it is the failures that account for the earlier ones.
CleanInv ==
    /\ CleanedOnce
    /\ cleaner = "due" \/ (cleaner = "idle" /\ due) => cleans <= faults
    /\ cleaner # "idle" => due

IInv == /\ TypeOK /\ Staged /\ Carried /\ StatusIsLatest /\ ListKnown /\ ReadMeansTold
        /\ Homed /\ CleanInv
-----------------------------------------------------------------------------
(* Types *)

\* A handler may be anywhere, and ends as it began.
LEMMA TaskAt ==
    /\ Done \in TaskRecs
    /\ \A x \in TaskRecs, pc \in Stages : [x EXCEPT !.pc = pc] \in TaskRecs
  BY InboxAssumption DEF TaskRecs, Done, Stages, Kinds, Numbers, Merging

LEMMA InitInv == Init => IInv
  <1> SUFFICES ASSUME Init PROVE IInv
    OBVIOUS
  <1>0. task \in [Tasks -> TaskRecs]
    BY TaskAt DEF Init
  <1> USE InboxAssumption DEF Init, Done
  <1>1. TypeOK
    <2>1. /\ msg \in [Msgs -> {Absent} \cup [num : Numbers, status : {"SENT", "DELIVERED", "READ"}]]
          /\ begun \in [Msgs -> 0..3]
      OBVIOUS
    <2>2. 0 \in 0..MaxTasks /\ 0 \in 0..MaxFaults /\ 0 \in 0..MaxPeriods
      OBVIOUS
    <2> QED
      BY <1>0, <2>1, <2>2 DEF TypeOK, TaskRecs
  <1>2. \A m \in Msgs : ~Stored(m) /\ ~Busy(m)
    BY DEF Stored, Busy, Msgs
  <1>3. Staged /\ Carried /\ StatusIsLatest
    BY <1>2 DEF Staged, StagedAt, Carried, StatusIsLatest, Msgs
  <1>4. ListKnown /\ ReadMeansTold /\ Homed /\ CleanInv
    BY DEF ListKnown, ReadMeansTold, Homed, CleanInv, CleanedOnce, Absent, Msgs, Merging
  <1> QED
    BY <1>1, <1>3, <1>4 DEF IInv

\* What a step of a handler leaves of it, and that it leaves the others alone.
LEMMA StepTask ==
    ASSUME TypeOK, NEW t \in Tasks, Starts(t) \/ Steps(t)
    PROVE  /\ task'[t] \in TaskRecs
           /\ task' = [task EXCEPT ![t] = task'[t]]
  <1>t. task \in [Tasks -> TaskRecs] /\ task[t] \in TaskRecs /\ contacts \subseteq Numbers
    BY DEF TypeOK, TaskRecs
  <1>d. Done \in TaskRecs
    BY TaskAt
  <1> DEFINE Good == task'[t] \in TaskRecs /\ task' = [task EXCEPT ![t] = task'[t]]
  <1>1. ASSUME NEW x \in TaskRecs, task' = [task EXCEPT ![t] = x] PROVE Good
    BY <1>1, <1>t
  <1>g. ASSUME NEW pc \in Stages, Goto(t, pc) PROVE Good
    <2>1. [task[t] EXCEPT !.pc = pc] \in TaskRecs
      BY <1>t, TaskAt
    <2> QED
      BY <1>g, <1>1, <2>1 DEF Goto
  <1>e. End(t) => Good
    BY <1>1, <1>d DEF End
  <1>2. ASSUME NEW m \in Msgs, NEW addr \in Numbers, NEW pair \in BOOLEAN,
               \/ MessageEvent(t, m, addr, pair) \/ HistoryMessage(t, m, addr, pair)
               \/ \E status \in {"DELIVERED", "READ"} : ReceiptEvent(t, m, addr, pair, status)
        PROVE  Good
    <2> DEFINE pc == IF pair THEN "map" ELSE "resolve"
               rc == IF pair THEN "map" ELSE IF addr = "lid" THEN "original" ELSE "apply"
    <2>1. /\ [Done EXCEPT !.pc = pc, !.kind = "message", !.m = m, !.addr = addr, !.status = "SENT"] \in TaskRecs
          /\ [Done EXCEPT !.pc = pc, !.kind = "history", !.m = m, !.addr = addr, !.status = "READ"] \in TaskRecs
          /\ \A status \in {"DELIVERED", "READ"} :
                [Done EXCEPT !.pc = rc, !.kind = "receipt", !.m = m, !.addr = addr, !.status = status] \in TaskRecs
      BY <1>d DEF TaskRecs, Stages, Kinds
    <2> HIDE DEF Good
    <2> QED
      BY <1>2, <2>1, <1>1 DEF MessageEvent, HistoryMessage, ReceiptEvent, Begin
  <1>3. ASSUME NEW m \in Msgs, NEW num \in Numbers, Outgoing(t, m, num) PROVE Good
    <2>1. [Done EXCEPT !.pc = "contact", !.kind = "outgoing", !.m = m, !.num = num, !.status = "SENT"] \in TaskRecs
      BY <1>d DEF TaskRecs, Stages, Kinds
    <2> QED
      BY <1>3, <2>1, <1>1 DEF Outgoing, Begin
  <1>4. ASSUME NEW num \in contacts, NEW kind \in {"read", "sendRead"}, ReadRequest(t, num, kind) PROVE Good
    <2>1. [Done EXCEPT !.pc = "list", !.kind = kind, !.num = num] \in TaskRecs
      BY <1>d, <1>t DEF TaskRecs, Stages, Kinds
    <2> QED
      BY <1>4, <2>1, <1>1 DEF ReadRequest
  <1>5. ASSUME NEW num \in Numbers, UseNumber(t, num) PROVE Good
    <2>1. \A pc \in Stages : [task[t] EXCEPT !.num = num, !.pc = pc] \in TaskRecs
      BY <1>t DEF TaskRecs
    <2>2. [task[t] EXCEPT !.num = num, !.pc = IF task[t].kind = "history" THEN "conversation" ELSE "contact"] \in TaskRecs
      BY <2>1 DEF Stages
    <2> QED
      BY <1>5, <2>2, <1>1, <1>e DEF UseNumber
  <1>6. ASSUME MapLid(t) \/ MapLidFails(t) \/ MergeContact(t) \/ MergeDelete(t) \/ MergeRows(t) PROVE Good
    <2>1. AfterMap(t) \in Stages
      BY DEF AfterMap, Stages
    <2>2. \E pc \in Stages : Goto(t, pc)
      BY <1>6, <2>1 DEF MapLid, MapLidFails, MergeContact, MergeDelete, MergeRows, Stages, Merging
    <2> QED
      BY <2>2, <1>g
  <1>7. ASSUME Resolve(t) \/ ResolveFails(t) PROVE Good
    BY <1>7, <1>5 DEF Resolve, ResolveFails, Numbers
  <1>8. ASSUME Conversation(t) \/ CheckStored(t) \/ SaveContact(t) \/ SaveRow(t) \/ ApplyReceipt(t)
               \/ MarkRead(t) \/ MarkReadFails(t) \/ UpdateRead(t) \/ Dies(t)
        PROVE  Good
    <2>1. End(t) \/ \E pc \in Stages : Goto(t, pc)
      BY <1>8 DEF Conversation, CheckStored, SaveContact, SaveRow, ApplyReceipt, MarkRead, MarkReadFails,
          UpdateRead, Dies, Stages
    <2> QED
      BY <2>1, <1>g, <1>e
  <1>9. ASSUME Original(t) PROVE Good
    <2>1. /\ [task[t] EXCEPT !.pc = "map", !.addr = "pn"] \in TaskRecs
          /\ [task[t] EXCEPT !.pc = "apply"] \in TaskRecs
      BY <1>t DEF TaskRecs, Stages, Numbers
    <2> QED
      BY <1>9, <2>1, <1>1 DEF Original
  <1>10. ASSUME ListUnread(t) PROVE Good
    <2>1. [task[t] EXCEPT !.pc = "mark", !.seen = Unread(task[t].num)] \in TaskRecs
      BY <1>t DEF TaskRecs, Stages, Unread
    <2> QED
      BY <1>10, <2>1, <1>1 DEF ListUnread
  <1> QED
    BY <1>2, <1>3, <1>4, <1>6, <1>7, <1>8, <1>9, <1>10 DEF Starts, Steps

RowType == {Absent} \cup [num : Numbers, status : {"SENT", "DELIVERED", "READ"}]

LEMMA StepType == TypeOK /\ Staged /\ Next => TypeOK'
  <1> SUFFICES ASSUME TypeOK, Staged, Next PROVE TypeOK'
    OBVIOUS
  <1> USE InboxAssumption
  <1>t. /\ msg \in [Msgs -> RowType] /\ contacts \subseteq Numbers /\ mapped \in BOOLEAN
        /\ task \in [Tasks -> TaskRecs]
        /\ due \in BOOLEAN /\ cleaner \in {"idle", "due", "truncated"}
        /\ started \in 0..MaxTasks /\ faults \in 0..MaxFaults
        /\ begun \in [Msgs -> 0..3] /\ raced \subseteq Msgs
        /\ told \subseteq In /\ refused \subseteq In /\ overlapped \subseteq In
        /\ imported \subseteq Msgs
        /\ straddled \in BOOLEAN /\ cleans \in Nat /\ periods \in 0..MaxPeriods
    BY DEF TypeOK, TaskRecs, RowType
  <1> DEFINE Cleaned == UNCHANGED cleaning
  <1>u. \A num : Unread(num) \subseteq In
    BY DEF Unread
  <1>f. Fault => faults' \in 0..MaxFaults
    BY <1>t DEF Fault
  <1>1. ASSUME NEW t \in Tasks, Starts(t) PROVE TypeOK'
    <2>q. task' \in [Tasks -> TaskRecs]
      BY <1>1, <1>t, StepTask
    <2>1. ASSUME NEW m \in Msgs, NEW k \in 0..3, NEW local, Begin(t, m, k, local)
          PROVE  started' \in 0..MaxTasks /\ begun' \in [Msgs -> 0..3] /\ raced' \subseteq Msgs
      BY <2>1, <1>t DEF Begin
    <2>k. \A status \in {"DELIVERED", "READ"} : RankOf(status) \in 0..3
      <3> SUFFICES ASSUME NEW status \in {"DELIVERED", "READ"} PROVE RankOf(status) \in 0..3
        OBVIOUS
      <3>1. StatusOf[2] = "DELIVERED" /\ StatusOf[3] = "READ"
        BY DEF StatusOf
      <3>2. \E k \in 1..3 : StatusOf[k] = status
        BY <3>1
      <3> QED
        BY <3>2 DEF RankOf
    <2>2. ASSUME NEW m \in Msgs, NEW addr \in Numbers, NEW pair \in BOOLEAN,
                 \/ MessageEvent(t, m, addr, pair) \/ HistoryMessage(t, m, addr, pair)
                 \/ \E status \in {"DELIVERED", "READ"} : ReceiptEvent(t, m, addr, pair, status)
          PROVE  /\ started' \in 0..MaxTasks /\ begun' \in [Msgs -> 0..3] /\ raced' \subseteq Msgs
                 /\ UNCHANGED <<rows, cleaning, reading, faults, straddled>>
      BY <2>2, <2>1, <2>k DEF MessageEvent, HistoryMessage, ReceiptEvent
    <2>3. ASSUME NEW m \in Msgs, NEW num \in Numbers, Outgoing(t, m, num)
          PROVE  /\ started' \in 0..MaxTasks /\ begun' \in [Msgs -> 0..3] /\ raced' \subseteq Msgs
                 /\ straddled' \in BOOLEAN
                 /\ UNCHANGED <<rows, cleaning, reading, faults>>
      BY <2>3, <2>1, <1>t DEF Outgoing
    <2>4. ASSUME NEW num \in contacts, NEW kind \in {"read", "sendRead"}, ReadRequest(t, num, kind)
          PROVE  /\ started' \in 0..MaxTasks
                 /\ UNCHANGED <<rows, cleaning, reading, faults, begun, raced, straddled>>
      BY <2>4, <1>t DEF ReadRequest
    <2>5. /\ started' \in 0..MaxTasks /\ begun' \in [Msgs -> 0..3] /\ raced' \subseteq Msgs
          /\ straddled' \in BOOLEAN
          /\ UNCHANGED <<rows, cleaning, reading, faults>>
      BY <1>1, <1>t, <2>2, <2>3, <2>4 DEF Starts
    <2> QED
      BY <2>q, <2>5, <1>t DEF TypeOK, TaskRecs, RowType, rows, cleaning, reading
  <1>2. ASSUME NEW t \in Tasks, Steps(t) PROVE TypeOK'
    <2>q. task' \in [Tasks -> TaskRecs] /\ task[t] \in TaskRecs
      BY <1>2, <1>t, StepTask
    <2>1. /\ UNCHANGED <<cleaning, started, begun>>
          /\ mapped' \in BOOLEAN /\ straddled' \in BOOLEAN
      BY <1>2, <1>t DEF Steps, MapLid, MapLidFails, MergeContact, MergeDelete, MergeRows, Resolve,
          ResolveFails, Conversation, CheckStored, SaveContact, SaveRow, Original, ApplyReceipt,
          ListUnread, MarkRead, MarkReadFails, UpdateRead, Dies, rows, cleaning, reading
    <2>2. faults' \in 0..MaxFaults
      BY <1>2, <1>t, <1>f DEF Steps, MapLid, MapLidFails, MergeContact, MergeDelete, MergeRows, Resolve,
          ResolveFails, Conversation, CheckStored, SaveContact, SaveRow, Original, ApplyReceipt,
          ListUnread, MarkRead, MarkReadFails, UpdateRead, Dies
    <2>3. raced' \subseteq Msgs
      <3>1. \/ raced' = raced \/ raced' = raced \cup ({task[t].m} \ {Nobody})
            \/ task[t].pc = "resolve" /\ raced' = raced \cup {task[t].m}
        <4>1. CASE Resolve(t) \/ ResolveFails(t)
          BY <4>1 DEF Resolve, ResolveFails, UseNumber
        <4>2. CASE ~Resolve(t) /\ ~ResolveFails(t)
          BY <4>2, <1>2 DEF Steps, MapLid, MapLidFails, MergeContact, MergeDelete, MergeRows,
              Conversation, CheckStored, SaveContact, SaveRow, Original, ApplyReceipt,
              ListUnread, MarkRead, MarkReadFails, UpdateRead, Dies
        <4> QED
          BY <4>1, <4>2
      <3>2. task[t].m \in Msgs \cup {Nobody} /\ (task[t].pc = "resolve" => task[t].m # Nobody)
        BY <2>q DEF TaskRecs, Staged, StagedAt
      <3> QED
        BY <3>1, <3>2, <1>t
    <2>4. contacts' \subseteq Numbers
      <3>1. \/ contacts' \subseteq contacts \cup {"pn"}
            \/ task[t].pc \in {"contact", "conversation"} /\ contacts' = contacts \cup {task[t].num}
        BY <1>2, <1>t DEF Steps, MapLid, MapLidFails, MergeContact, MergeDelete, MergeRows, Resolve,
          ResolveFails, Conversation, CheckStored, SaveContact, SaveRow, Original, ApplyReceipt,
          ListUnread, MarkRead, MarkReadFails, UpdateRead, Dies, rows
      <3>2. task[t].pc \in {"contact", "conversation"} => task[t].num \in Numbers
        BY DEF Staged, StagedAt, Numbers
      <3> QED
        BY <3>1, <3>2, <1>t DEF Numbers
    <2>5. msg' \in [Msgs -> RowType]
      <3>r. Absent.num \notin Numbers
        BY DEF Absent, Numbers
      <3>1. CASE MergeRows(t)
        <4>1. \A m \in Msgs : msg[m].num = "lid" => [msg[m] EXCEPT !.num = "pn"] \in RowType
          BY <1>t, <3>r DEF RowType, Numbers
        <4> QED
          BY <3>1, <4>1, <1>t DEF MergeRows
      <3>2. CASE SaveRow(t)
        <4>1. task[t].num \in Numbers /\ task[t].status \in {"SENT", "DELIVERED", "READ"}
          BY <3>2 DEF SaveRow, Staged, StagedAt
        <4>2. [num |-> task[t].num, status |-> task[t].status] \in RowType
          BY <4>1 DEF RowType
        <4> QED
          BY <3>2, <4>2, <1>t DEF SaveRow
      <3>3. CASE ApplyReceipt(t)
        <4>1. task[t].status \in {"DELIVERED", "READ"}
          BY <3>3 DEF ApplyReceipt, Staged, StagedAt
        <4>2. \A m \in Msgs : Stored(m) => [msg[m] EXCEPT !.status = task[t].status] \in RowType
          BY <4>1, <1>t DEF RowType, Stored
        <4> QED
          BY <3>3, <4>2, <1>t DEF ApplyReceipt
      <3>4. CASE UpdateRead(t)
        <4>1. \A m \in Msgs : m \in Unread(task[t].num) => [msg[m] EXCEPT !.status = "READ"] \in RowType
          <5> SUFFICES ASSUME NEW m \in Msgs, m \in Unread(task[t].num)
                       PROVE  [msg[m] EXCEPT !.status = "READ"] \in RowType
            OBVIOUS
          <5>1. msg[m].num = task[t].num /\ task[t].num \in Numbers
            BY <3>4 DEF UpdateRead, Unread, Staged, StagedAt
          <5>2. msg[m] # Absent
            BY <5>1, <3>r
          <5> QED
            BY <5>2, <1>t DEF RowType
        <4> QED
          BY <3>4, <4>1, <1>t DEF UpdateRead
      <3>5. CASE ~MergeRows(t) /\ ~SaveRow(t) /\ ~ApplyReceipt(t) /\ ~UpdateRead(t)
        BY <3>5, <1>2, <1>t DEF Steps, MapLid, MapLidFails, MergeContact, MergeDelete, Resolve,
          ResolveFails, Conversation, CheckStored, SaveContact, Original,
          ListUnread, MarkRead, MarkReadFails, Dies, rows
      <3> QED
        BY <3>1, <3>2, <3>3, <3>4, <3>5
    <2>6. /\ told' \subseteq In /\ refused' \subseteq In /\ overlapped' \subseteq In
          /\ imported' \subseteq Msgs
      <3>1. task[t].seen \subseteq In
        BY <2>q DEF TaskRecs
      <3>2. task[t].pc = "row" => task[t].m \in Msgs
        BY <2>q DEF TaskRecs, Staged, StagedAt
      <3>3. /\ told' = told \/ told' = told \cup task[t].seen
            /\ refused' = refused \/ refused' = refused \cup task[t].seen
            /\ imported' = imported \/ (task[t].pc = "row" /\ imported' = imported \cup {task[t].m})
        BY <1>2 DEF Steps, MapLid, MapLidFails, MergeContact, MergeDelete, MergeRows, Resolve,
          ResolveFails, Conversation, CheckStored, SaveContact, SaveRow, Original, ApplyReceipt,
          ListUnread, MarkRead, MarkReadFails, UpdateRead, Dies, reading
      <3>4. \E some : overlapped' = overlapped \/ overlapped' = overlapped \cup (some \cap In)
        BY <1>2 DEF Steps, MapLid, MapLidFails, MergeContact, MergeDelete, MergeRows, Resolve,
          ResolveFails, Conversation, CheckStored, SaveContact, SaveRow, Original, ApplyReceipt,
          ListUnread, MarkRead, MarkReadFails, UpdateRead, Dies, reading, Overlap
      <3> QED
        BY <3>1, <3>2, <3>3, <3>4, <1>t
    <2> QED
      BY <2>q, <2>1, <2>2, <2>3, <2>4, <2>5, <2>6, <1>t DEF TypeOK, TaskRecs, RowType, cleaning
  <1>3. ASSUME CleanStart \/ CleanTruncate \/ CleanRecord \/ CleanFails \/ NextPeriod PROVE TypeOK'
    <2>1. /\ UNCHANGED <<contacts, mapped, reading, task, started, begun, raced, straddled>>
          /\ due' = due \/ due' = TRUE \/ due' = FALSE
          /\ cleaner' = cleaner \/ cleaner' \in {"idle", "due", "truncated"}
      BY <1>3 DEF CleanStart, CleanTruncate, CleanRecord, CleanFails, NextPeriod, rows
    <2>3. cleans' \in Nat /\ periods' \in 0..MaxPeriods
      <3>1. (cleans' = cleans \/ cleans' = cleans + 1 \/ cleans' = 0)
            /\ (periods' = periods \/ (periods < MaxPeriods /\ periods' = periods + 1))
        BY <1>3 DEF CleanStart, CleanTruncate, CleanRecord, CleanFails, NextPeriod
      <3> QED
        BY <3>1, <1>t
    <2>2. msg' \in [Msgs -> RowType] /\ faults' \in 0..MaxFaults
      BY <1>3, <1>t, <1>f DEF CleanStart, CleanTruncate, CleanRecord, CleanFails, NextPeriod, rows, RowType
    <2> QED
      BY <2>1, <2>2, <2>3, <1>t DEF TypeOK, TaskRecs, RowType, reading
  <1> QED
    BY <1>1, <1>2, <1>3 DEF Next
-----------------------------------------------------------------------------
(* What a handler has in hand *)

LEMMA Fields ==
    ASSUME TypeOK, NEW t \in Tasks
    PROVE  /\ \A pc : Goto(t, pc) =>
                /\ task'[t].pc = pc /\ task'[t].kind = task[t].kind /\ task'[t].m = task[t].m
                /\ task'[t].num = task[t].num /\ task'[t].status = task[t].status
                /\ task'[t].seen = task[t].seen
           /\ End(t) => task'[t] = Done
           /\ \A num : UseNumber(t, num) =>
                \/ task[t].kind = "history" /\ num = "lid" /\ task'[t] = Done
                \/ /\ ~(task[t].kind = "history" /\ num = "lid")
                   /\ task'[t].pc = IF task[t].kind = "history" THEN "conversation" ELSE "contact"
                   /\ task'[t].kind = task[t].kind /\ task'[t].m = task[t].m
                   /\ task'[t].num = num /\ task'[t].status = task[t].status
  <1>t. task \in [Tasks -> TaskRecs] /\ task[t] \in TaskRecs
    BY DEF TypeOK, TaskRecs
  <1>1. ASSUME NEW pc, Goto(t, pc)
        PROVE  /\ task'[t].pc = pc /\ task'[t].kind = task[t].kind /\ task'[t].m = task[t].m
               /\ task'[t].num = task[t].num /\ task'[t].status = task[t].status
               /\ task'[t].seen = task[t].seen
    BY <1>1, <1>t DEF Goto, TaskRecs
  <1>2. End(t) => task'[t] = Done
    BY <1>t DEF End
  <1>3. ASSUME NEW num, UseNumber(t, num)
        PROVE  \/ task[t].kind = "history" /\ num = "lid" /\ task'[t] = Done
               \/ /\ ~(task[t].kind = "history" /\ num = "lid")
                  /\ task'[t].pc = IF task[t].kind = "history" THEN "conversation" ELSE "contact"
                  /\ task'[t].kind = task[t].kind /\ task'[t].m = task[t].m
                  /\ task'[t].num = num /\ task'[t].status = task[t].status
    <2>1. CASE task[t].kind = "history" /\ num = "lid"
      BY <1>3, <2>1, <1>2 DEF UseNumber
    <2>2. CASE ~(task[t].kind = "history" /\ num = "lid")
      BY <1>3, <2>2, <1>t DEF UseNumber, TaskRecs
    <2> QED
      BY <2>1, <2>2
  <1> QED
    BY <1>1, <1>2, <1>3

LEMMA StartPc ==
    ASSUME TypeOK, NEW t \in Tasks, Starts(t)
    PROVE  /\ task'[t].pc \in {"map", "resolve", "original", "apply", "contact", "list"}
           /\ task[t].pc = "idle"
  <1>t. task \in [Tasks -> TaskRecs]
    BY DEF TypeOK, TaskRecs
  <1> DEFINE Good == /\ task'[t].pc \in {"map", "resolve", "original", "apply", "contact", "list"}
                     /\ task[t].pc = "idle"
  <1>2. ASSUME NEW m, NEW addr, NEW pair, MessageEvent(t, m, addr, pair) PROVE Good
    <2>1. /\ task'[t] = [Done EXCEPT !.pc = IF pair THEN "map" ELSE "resolve", !.kind = "message",
                                  !.m = m, !.addr = addr, !.status = "SENT"]
          /\ task[t].pc = "idle"
      BY <1>2, <1>t DEF MessageEvent, Begin
    <2> QED
      BY <2>1 DEF Done
  <1>3. ASSUME NEW m, NEW addr, NEW pair, HistoryMessage(t, m, addr, pair) PROVE Good
    <2>1. /\ task'[t] = [Done EXCEPT !.pc = IF pair THEN "map" ELSE "resolve", !.kind = "history",
                                  !.m = m, !.addr = addr, !.status = "READ"]
          /\ task[t].pc = "idle"
      BY <1>3, <1>t DEF HistoryMessage, Begin
    <2> QED
      BY <2>1 DEF Done
  <1>4. ASSUME NEW m, NEW addr, NEW pair, NEW status, ReceiptEvent(t, m, addr, pair, status) PROVE Good
    <2>1. /\ task'[t] = [Done EXCEPT !.pc = IF pair THEN "map" ELSE IF addr = "lid" THEN "original" ELSE "apply",
                                  !.kind = "receipt", !.m = m, !.addr = addr, !.status = status]
          /\ task[t].pc = "idle"
      BY <1>4, <1>t DEF ReceiptEvent, Begin
    <2> QED
      BY <2>1 DEF Done
  <1>5. ASSUME NEW m, NEW num, Outgoing(t, m, num) PROVE Good
    <2>1. /\ task'[t] = [Done EXCEPT !.pc = "contact", !.kind = "outgoing", !.m = m, !.num = num,
                                  !.status = "SENT"]
          /\ task[t].pc = "idle"
      BY <1>5, <1>t DEF Outgoing, Begin
    <2> QED
      BY <2>1 DEF Done
  <1>6. ASSUME NEW num, NEW kind, ReadRequest(t, num, kind) PROVE Good
    BY <1>6, <1>t DEF ReadRequest, Done
  <1> QED
    BY <1>2, <1>3, <1>4, <1>5, <1>6 DEF Starts

LEMMA OthersKept ==
    ASSUME TypeOK, NEW t \in Tasks, Starts(t) \/ Steps(t)
    PROVE  \A u \in Tasks \ {t} : task'[u] = task[u]
  BY StepTask DEF TypeOK

LEMMA StagedStep ==
    ASSUME TypeOK, Staged, NEW t \in Tasks, Starts(t) \/ Steps(t)
    PROVE  Staged'
  <1> USE InboxAssumption
  <1>t. /\ task \in [Tasks -> TaskRecs] /\ task[t] \in TaskRecs /\ contacts \subseteq Numbers
        /\ StagedAt(task[t])
    BY DEF TypeOK, TaskRecs, Staged
  <1>q. ASSUME StagedAt(task'[t]) PROVE Staged'
    BY <1>q, OthersKept DEF Staged
  <1>d. StagedAt(Done)
    BY DEF StagedAt, Done
  <1>s. CASE Starts(t)
    <2>1. ASSUME NEW m \in Msgs, NEW addr \in Numbers, NEW pair \in BOOLEAN, MessageEvent(t, m, addr, pair)
          PROVE  StagedAt(task'[t])
      <3>1. task'[t] = [Done EXCEPT !.pc = IF pair THEN "map" ELSE "resolve",
                                    !.kind = "message", !.m = m, !.addr = addr, !.status = "SENT"]
        BY <2>1, <1>t DEF MessageEvent, Begin
      <3> QED
        BY <3>1 DEF StagedAt, Done, Msgs
    <2>2. ASSUME NEW m \in Msgs, NEW addr \in Numbers, NEW pair \in BOOLEAN, HistoryMessage(t, m, addr, pair)
          PROVE  StagedAt(task'[t])
      <3>1. task'[t] = [Done EXCEPT !.pc = IF pair THEN "map" ELSE "resolve",
                                    !.kind = "history", !.m = m, !.addr = addr, !.status = "READ"]
        BY <2>2, <1>t DEF HistoryMessage, Begin
      <3> QED
        BY <3>1 DEF StagedAt, Done, Msgs
    <2>3. ASSUME NEW m \in Msgs, NEW addr \in Numbers, NEW pair \in BOOLEAN,
                 NEW status \in {"DELIVERED", "READ"}, ReceiptEvent(t, m, addr, pair, status)
          PROVE  StagedAt(task'[t])
      <3>1. /\ m \in Out
            /\ task'[t] = [Done EXCEPT !.pc = IF pair THEN "map"
                                              ELSE IF addr = "lid" THEN "original" ELSE "apply",
                                    !.kind = "receipt", !.m = m, !.addr = addr, !.status = status]
        BY <2>3, <1>t DEF ReceiptEvent, Begin
      <3> QED
        BY <3>1 DEF StagedAt, Done, Msgs
    <2>4. ASSUME NEW m \in Msgs, NEW num \in Numbers, Outgoing(t, m, num)
          PROVE  StagedAt(task'[t])
      <3>1. task'[t] = [Done EXCEPT !.pc = "contact", !.kind = "outgoing", !.m = m,
                                    !.num = num, !.status = "SENT"]
        BY <2>4, <1>t DEF Outgoing, Begin
      <3> QED
        BY <3>1 DEF StagedAt, Done, Msgs
    <2>5. ASSUME NEW num \in contacts, NEW kind \in {"read", "sendRead"}, ReadRequest(t, num, kind)
          PROVE  StagedAt(task'[t])
      <3>1. task'[t] = [Done EXCEPT !.pc = "list", !.kind = kind, !.num = num]
        BY <2>5, <1>t DEF ReadRequest
      <3> QED
        BY <3>1, <1>t DEF StagedAt, Done
    <2> QED
      BY <1>s, <1>q, <2>1, <2>2, <2>3, <2>4, <2>5 DEF Starts
  <1>e. CASE End(t)
    BY <1>e, <1>d, <1>q, Fields
  <1>1. ASSUME MapLid(t) \/ MapLidFails(t) \/ MergeContact(t) \/ MergeDelete(t) PROVE Staged'
    <2>1. \E pc \in Merging : Goto(t, pc) /\ task[t].pc \in Merging \cup {"map"}
      BY <1>1 DEF MapLid, MapLidFails, MergeContact, MergeDelete, Merging
    <2>2. StagedAt(task'[t])
      BY <2>1, <1>t, Fields DEF StagedAt, Merging
    <2> QED
      BY <2>2, <1>q
  <1>2. ASSUME MergeRows(t) PROVE Staged'
    <2>1. Goto(t, AfterMap(t)) /\ task[t].pc = "mergeRows"
      BY <1>2 DEF MergeRows
    <2>2. task[t].m # Nobody /\ task[t].kind \notin {"none", "read", "sendRead"}
      BY <2>1, <1>t DEF StagedAt
    <2>3. \/ task[t].kind # "receipt" /\ AfterMap(t) = "resolve"
          \/ task[t].kind = "receipt" /\ AfterMap(t) \in {"original", "apply"}
      BY DEF AfterMap
    <2>4. task[t].kind \in Kinds
      BY <1>t DEF TaskRecs
    <2>5. StagedAt(task'[t])
      BY <2>1, <2>2, <2>3, <2>4, <1>t, Fields DEF StagedAt, Kinds
    <2> QED
      BY <2>5, <1>q
  <1>3. ASSUME Resolve(t) \/ ResolveFails(t) PROVE Staged'
    <2>1. PICK num \in Numbers : UseNumber(t, num) /\ task[t].pc = "resolve"
      BY <1>3 DEF Resolve, ResolveFails, Numbers
    <2>2. StagedAt(task'[t])
      BY <2>1, <1>t, <1>d, Fields DEF StagedAt, Numbers
    <2> QED
      BY <2>2, <1>q
  <1>4. ASSUME Conversation(t) PROVE Staged'
    <2>1. Goto(t, "check") /\ task[t].pc = "conversation"
      BY <1>4 DEF Conversation
    <2>2. StagedAt(task'[t])
      BY <2>1, <1>t, Fields DEF StagedAt
    <2> QED
      BY <2>2, <1>q
  <1>5. ASSUME CheckStored(t), ~End(t) PROVE Staged'
    <2>1. Goto(t, "contact") /\ task[t].pc = "check"
      BY <1>5 DEF CheckStored
    <2>2. StagedAt(task'[t])
      BY <2>1, <1>t, Fields DEF StagedAt, Numbers
    <2> QED
      BY <2>2, <1>q
  <1>6. ASSUME SaveContact(t) PROVE Staged'
    <2>1. Goto(t, "row") /\ task[t].pc = "contact"
      BY <1>6 DEF SaveContact
    <2>2. StagedAt(task'[t])
      BY <2>1, <1>t, Fields DEF StagedAt
    <2> QED
      BY <2>2, <1>q
  <1>7. ASSUME Original(t) PROVE Staged'
    <2>1. /\ \/ task'[t] = [task[t] EXCEPT !.pc = "map", !.addr = "pn"]
             \/ task'[t] = [task[t] EXCEPT !.pc = "apply"]
          /\ task[t].pc = "original"
      BY <1>7, <1>t DEF Original
    <2>2. StagedAt(task'[t])
      BY <2>1, <1>t DEF StagedAt, TaskRecs
    <2> QED
      BY <2>2, <1>q
  <1>8. ASSUME ListUnread(t) PROVE Staged'
    <2>1. task'[t] = [task[t] EXCEPT !.pc = "mark", !.seen = Unread(task[t].num)] /\ task[t].pc = "list"
      BY <1>8, <1>t DEF ListUnread
    <2>2. StagedAt(task'[t])
      BY <2>1, <1>t DEF StagedAt, TaskRecs
    <2> QED
      BY <2>2, <1>q
  <1>9. ASSUME MarkRead(t) \/ (MarkReadFails(t) /\ ~End(t)) PROVE Staged'
    <2>1. Goto(t, "update") /\ task[t].pc = "mark"
      BY <1>9 DEF MarkRead, MarkReadFails
    <2>2. StagedAt(task'[t])
      BY <2>1, <1>t, Fields DEF StagedAt
    <2> QED
      BY <2>2, <1>q
  <1>10. SaveRow(t) \/ ApplyReceipt(t) \/ UpdateRead(t) \/ Dies(t) => End(t)
    BY DEF SaveRow, ApplyReceipt, UpdateRead, Dies
  <1> QED
    BY <1>s, <1>e, <1>1, <1>2, <1>3, <1>4, <1>5, <1>6, <1>7, <1>8, <1>9, <1>10 DEF Steps
-----------------------------------------------------------------------------
(* One carrier per message *)

\* A start, of an event with the status of rank k.
LEMMA BeginCarried ==
    ASSUME TypeOK, Staged, Carried, StatusIsLatest, NEW t \in Tasks,
           NEW m0 \in Msgs, NEW k \in 0..3, NEW local, Begin(t, m0, k, local), msg' = msg,
           local.m = m0, k > 0 => local.status = StatusOf[k],
           local.kind # "receipt" => k <= 1 \/ begun[m0] = 0
    PROVE  Carried' /\ StatusIsLatest'
  <1> USE InboxAssumption
  <1>t. /\ task \in [Tasks -> TaskRecs] /\ begun \in [Msgs -> 0..3] /\ raced \subseteq Msgs
    BY DEF TypeOK, TaskRecs
  <1>1. /\ task'[t] = local /\ \A u \in Tasks \ {t} : task'[u] = task[u]
        /\ task[t].m = Nobody
    BY <1>t DEF Begin, Staged, StagedAt
  <1>2. /\ begun'[m0] = IF k > begun[m0] THEN k ELSE begun[m0]
        /\ \A m \in Msgs \ {m0} : begun'[m] = begun[m]
        /\ raced \subseteq raced' /\ (m0 \notin raced' => ~Busy(m0) /\ k > begun[m0])
    BY <1>t DEF Begin
  <1>3. \A m \in Msgs : Stored(m)' <=> Stored(m)
    BY DEF Stored
  <1>4. \A m \in Msgs \ {m0} : Busy(m)' <=> Busy(m)
    BY <1>1 DEF Busy, Msgs
  <1>5. ASSUME NEW m \in Msgs \ raced', m # m0
        PROVE  /\ begun'[m] = 0 => ~Stored(m)' /\ ~Busy(m)'
               /\ \A u \in Tasks : task'[u].m = m =>
                    /\ task'[u].status = StatusOf[begun'[m]]
                    /\ task'[u].kind # "receipt" => ~Stored(m)'
                    /\ \A v \in Tasks : task'[v].m = m => v = u
    <2>1. m \in Msgs \ raced /\ begun'[m] = begun[m]
      BY <1>2, <1>5
    <2>2. \A u \in Tasks : task'[u].m = m => u # t /\ task'[u] = task[u]
      BY <1>1, <1>5
    <2> QED
      BY <2>1, <2>2, <1>3, <1>4, <1>5 DEF Carried
  <1>6. ASSUME m0 \notin raced'
        PROVE  /\ begun'[m0] = 0 => ~Stored(m0)' /\ ~Busy(m0)'
               /\ \A u \in Tasks : task'[u].m = m0 =>
                    /\ task'[u].status = StatusOf[begun'[m0]]
                    /\ task'[u].kind # "receipt" => ~Stored(m0)'
                    /\ \A v \in Tasks : task'[v].m = m0 => v = u
    <2>1. ~Busy(m0) /\ k > begun[m0] /\ begun'[m0] = k /\ k > 0 /\ m0 \in Msgs \ raced
      BY <1>2, <1>6, <1>t
    <2>2. \A u \in Tasks : task'[u].m = m0 => u = t
      BY <2>1, <1>1 DEF Busy
    <2>3. local.kind # "receipt" => begun[m0] = 0
      BY <2>1, <1>t
    <2>4. local.kind # "receipt" => ~Stored(m0)'
      BY <2>1, <2>3, <1>3 DEF Carried
    <2> QED
      BY <2>1, <2>2, <2>4, <1>1
  <1>7. Carried'
    BY <1>5, <1>6 DEF Carried
  <1>8. StatusIsLatest'
    <2> SUFFICES ASSUME NEW m \in Out \ raced', Stored(m)', ~Busy(m)'
                 PROVE  msg'[m].status = StatusOf[begun'[m]]
      BY DEF StatusIsLatest
    <2>1. m # m0
      BY <1>1 DEF Busy
    <2> QED
      BY <2>1, <1>2, <1>3, <1>4 DEF StatusIsLatest, Msgs
  <1> QED
    BY <1>7, <1>8

\* A handler goes on with its message.
LEMMA GoesCarried ==
    ASSUME TypeOK, Carried, StatusIsLatest, NEW t \in Tasks,
           begun' = begun, raced \subseteq raced',
           task'[t].m = task[t].m, task'[t].kind = task[t].kind, task'[t].status = task[t].status,
           \A u \in Tasks \ {t} : task'[u] = task[u],
           \A m \in Msgs : Stored(m)' <=> Stored(m),
           \A m \in Out : msg'[m].status = msg[m].status
    PROVE  Carried' /\ StatusIsLatest'
  <1>1. \A u \in Tasks : task'[u].m = task[u].m /\ task'[u].kind = task[u].kind
                                                /\ task'[u].status = task[u].status
    OBVIOUS
  <1>2. \A m : Busy(m)' <=> Busy(m)
    BY <1>1 DEF Busy
  <1>3. Carried'
    BY <1>1, <1>2 DEF Carried
  <1>4. StatusIsLatest'
    BY <1>2 DEF StatusIsLatest, Msgs
  <1> QED
    BY <1>3, <1>4

\* A handler ends and has stored its message, or left it as it should be.
LEMMA EndsCarried ==
    ASSUME TypeOK, Carried, StatusIsLatest, NEW t \in Tasks, NEW m0, task[t].m = m0,
           begun' = begun, raced \subseteq raced', task'[t] = Done,
           \A u \in Tasks \ {t} : task'[u] = task[u],
           \A m \in Msgs \ {m0} : Stored(m)' <=> Stored(m),
           \A m \in Out \ {m0} : msg'[m].status = msg[m].status,
           m0 \in Msgs \ raced' =>
               (Stored(m0)' => msg'[m0].status = task[t].status)
    PROVE  Carried' /\ StatusIsLatest'
  <1> USE InboxAssumption
  <1>1. \A m \in Msgs, u \in Tasks : task'[u].m = m => u # t /\ task'[u] = task[u]
    BY DEF Done, Msgs
  <1>2. \A m \in Msgs \ {m0} : Busy(m)' <=> Busy(m)
    BY <1>1 DEF Busy
  <1>3. ASSUME NEW m \in Msgs \ raced', m # m0
        PROVE  /\ begun'[m] = 0 => ~Stored(m)' /\ ~Busy(m)'
               /\ \A u \in Tasks : task'[u].m = m =>
                    /\ task'[u].status = StatusOf[begun'[m]]
                    /\ task'[u].kind # "receipt" => ~Stored(m)'
                    /\ \A v \in Tasks : task'[v].m = m => v = u
    <2>1. m \in Msgs \ raced
      BY <1>3
    <2> QED
      BY <2>1, <1>1, <1>2, <1>3 DEF Carried
  <1>4. ASSUME m0 \in Msgs \ raced'
        PROVE  /\ begun[m0] # 0 /\ ~Busy(m0)'
               /\ task[t].status = StatusOf[begun[m0]]
    <2>1. m0 \in Msgs \ raced
      BY <1>4
    <2>2. \A u \in Tasks : task[u].m = m0 => u = t
      BY <2>1 DEF Carried
    <2>3. Busy(m0)
      BY DEF Busy
    <2>4. begun[m0] # 0 /\ task[t].status = StatusOf[begun[m0]]
      BY <2>1, <2>3 DEF Carried
    <2>5. ~Busy(m0)'
      BY <2>2, <1>1, <1>4 DEF Busy
    <2> QED
      BY <2>4, <2>5
  <1>5. Carried'
    <2> SUFFICES ASSUME NEW m \in Msgs \ raced'
                 PROVE  /\ begun'[m] = 0 => ~Stored(m)' /\ ~Busy(m)'
                        /\ \A u \in Tasks : task'[u].m = m =>
                             /\ task'[u].status = StatusOf[begun'[m]]
                             /\ task'[u].kind # "receipt" => ~Stored(m)'
                             /\ \A v \in Tasks : task'[v].m = m => v = u
      BY DEF Carried
    <2>1. CASE m # m0
      BY <2>1, <1>3
    <2>2. CASE m = m0
      BY <2>2, <1>4 DEF Busy
    <2> QED
      BY <2>1, <2>2
  <1>6. StatusIsLatest'
    <2> SUFFICES ASSUME NEW m \in Out \ raced', Stored(m)', ~Busy(m)'
                 PROVE  msg'[m].status = StatusOf[begun'[m]]
      BY DEF StatusIsLatest
    <2>0. m \in Msgs
      BY DEF Msgs
    <2>1. CASE m # m0
      BY <2>0, <2>1, <1>2 DEF StatusIsLatest
    <2>2. CASE m = m0
      BY <2>0, <2>2, <1>4
    <2> QED
      BY <2>1, <2>2
  <1> QED
    BY <1>5, <1>6

\* The rank of a receipt.
LEMMA Ranks ==
    \A status \in {"DELIVERED", "READ"} :
        RankOf(status) \in 1..3 /\ StatusOf[RankOf(status)] = status
  <1> SUFFICES ASSUME NEW status \in {"DELIVERED", "READ"}
               PROVE  RankOf(status) \in 1..3 /\ StatusOf[RankOf(status)] = status
    OBVIOUS
  <1>1. StatusOf[2] = "DELIVERED" /\ StatusOf[3] = "READ"
    BY DEF StatusOf
  <1>2. \E k \in 1..3 : StatusOf[k] = status
    BY <1>1
  <1> QED
    BY <1>2 DEF RankOf

LEMMA CarriedStep ==
    ASSUME TypeOK, Staged, Carried, StatusIsLatest, NEW t \in Tasks, Starts(t) \/ Steps(t)
    PROVE  Carried' /\ StatusIsLatest'
  <1> USE InboxAssumption
  <1>t. /\ msg \in [Msgs -> RowType] /\ task \in [Tasks -> TaskRecs] /\ task[t] \in TaskRecs
        /\ begun \in [Msgs -> 0..3] /\ StagedAt(task[t]) /\ Absent.num \notin Numbers
    BY DEF TypeOK, TaskRecs, RowType, Staged, Absent, Numbers
  <1>o. \A u \in Tasks \ {t} : task'[u] = task[u]
    BY OthersKept
  <1>d. /\ StatusOf[1] = "SENT" /\ StatusOf[3] = "READ"
    BY DEF StatusOf
  <1>1. ASSUME NEW m \in Msgs, NEW addr \in Numbers, NEW pair \in BOOLEAN, MessageEvent(t, m, addr, pair)
        PROVE  Carried' /\ StatusIsLatest'
    <2> DEFINE local == [Done EXCEPT !.pc = IF pair THEN "map" ELSE "resolve",
                                   !.kind = "message", !.m = m, !.addr = addr, !.status = "SENT"]
    <2>1. Begin(t, m, 1, local) /\ msg' = msg
      BY <1>1 DEF MessageEvent, rows
    <2>2. local.m = m /\ local.status = StatusOf[1]
      BY <1>d DEF Done
    <2> HIDE DEF local
    <2> QED
      BY <2>1, <2>2, BeginCarried
  <1>2. ASSUME NEW m \in Msgs, NEW addr \in Numbers, NEW pair \in BOOLEAN, HistoryMessage(t, m, addr, pair)
        PROVE  Carried' /\ StatusIsLatest'
    <2> DEFINE local == [Done EXCEPT !.pc = IF pair THEN "map" ELSE "resolve",
                          !.kind = "history", !.m = m, !.addr = addr, !.status = "READ"]
               k == IF begun[m] = 0 THEN 3 ELSE 0
    <2>1. Begin(t, m, k, local) /\ msg' = msg
      BY <1>2 DEF HistoryMessage, rows
    <2>2. local.m = m /\ local.status = StatusOf[3]
      BY <1>d DEF Done
    <2>3. k \in 0..3 /\ (k > 0 => k = 3 /\ begun[m] = 0) /\ (k <= 1 \/ begun[m] = 0)
      OBVIOUS
    <2> HIDE DEF local, k
    <2> QED
      BY <2>1, <2>2, <2>3, BeginCarried
  <1>3. ASSUME NEW m \in Msgs, NEW addr \in Numbers, NEW pair \in BOOLEAN,
               NEW status \in {"DELIVERED", "READ"}, ReceiptEvent(t, m, addr, pair, status)
        PROVE  Carried' /\ StatusIsLatest'
    <2> DEFINE local == [Done EXCEPT !.pc = IF pair THEN "map"
                                            ELSE IF addr = "lid" THEN "original" ELSE "apply",
                          !.kind = "receipt", !.m = m, !.addr = addr, !.status = status]
    <2>1. Begin(t, m, RankOf(status), local) /\ msg' = msg
      BY <1>3 DEF ReceiptEvent, rows
    <2>2. local.m = m /\ local.status = status /\ local.kind = "receipt"
      BY DEF Done
    <2>3. RankOf(status) \in 0..3 /\ StatusOf[RankOf(status)] = status
      BY Ranks
    <2> HIDE DEF local
    <2> QED
      BY <2>1, <2>2, <2>3, BeginCarried
  <1>4. ASSUME NEW m \in Msgs, NEW num \in Numbers, Outgoing(t, m, num)
        PROVE  Carried' /\ StatusIsLatest'
    <2> DEFINE local == [Done EXCEPT !.pc = "contact", !.kind = "outgoing", !.m = m,
                                     !.num = num, !.status = "SENT"]
    <2>1. Begin(t, m, 1, local) /\ msg' = msg
      BY <1>4 DEF Outgoing, rows
    <2>2. local.m = m /\ local.status = StatusOf[1]
      BY <1>d DEF Done
    <2> HIDE DEF local
    <2> QED
      BY <2>1, <2>2, BeginCarried
  <1>5. ASSUME NEW num \in contacts, NEW kind \in {"read", "sendRead"}, ReadRequest(t, num, kind)
        PROVE  Carried' /\ StatusIsLatest'
    <2>1. /\ task[t].m = Nobody /\ task'[t].m = Nobody
          /\ UNCHANGED <<msg, begun, raced>>
      BY <1>5, <1>t DEF ReadRequest, StagedAt, rows, Done
    <2>2. \A m \in Msgs, u \in Tasks : /\ task'[u].m = m <=> task[u].m = m
                                       /\ task[u].m = m => task'[u] = task[u]
      BY <2>1, <1>o DEF Msgs
    <2>3. \A m \in Msgs : (Busy(m)' <=> Busy(m)) /\ (Stored(m)' <=> Stored(m))
      BY <2>1, <2>2 DEF Busy, Stored
    <2>4. Carried'
      BY <2>1, <2>2, <2>3 DEF Carried
    <2>5. StatusIsLatest'
      BY <2>1, <2>3 DEF StatusIsLatest, Msgs
    <2> QED
      BY <2>4, <2>5
  <1>s. Starts(t) => Carried' /\ StatusIsLatest'
    BY <1>1, <1>2, <1>3, <1>4, <1>5 DEF Starts
  <1> DEFINE Going == task'[t].m = task[t].m /\ task'[t].kind = task[t].kind /\ task'[t].status = task[t].status
             Still == begun' = begun /\ raced \subseteq raced'
             Rows == /\ \A m \in Msgs : Stored(m)' <=> Stored(m)
                     /\ \A m \in Out : msg'[m].status = msg[m].status
  <1>r. msg' = msg => Rows
    BY DEF Stored
  <1>g. ASSUME Going, Still, Rows PROVE Carried' /\ StatusIsLatest'
    BY <1>g, <1>o, GoesCarried
  <1>e. ASSUME End(t), Still, Rows, NEW m0, task[t].m = m0,
               m0 \in Msgs \ raced' => (Stored(m0)' => msg'[m0].status = task[t].status)
        PROVE  Carried' /\ StatusIsLatest'
    BY <1>e, <1>o, Fields, EndsCarried
  <1>6. ASSUME \/ MapLid(t) \/ MapLidFails(t) \/ MergeContact(t) \/ MergeDelete(t)
               \/ Conversation(t) \/ SaveContact(t) \/ MarkRead(t)
               \/ (CheckStored(t) \/ MarkReadFails(t)) /\ ~End(t)
        PROVE  Carried' /\ StatusIsLatest'
    <2>1. /\ \E pc : Goto(t, pc)
          /\ UNCHANGED <<msg, begun, raced>>
      BY <1>6 DEF MapLid, MapLidFails, MergeContact, MergeDelete, Conversation, SaveContact,
          MarkRead, CheckStored, MarkReadFails, rows
    <2>2. Going
      BY <2>1, Fields
    <2> QED
      BY <2>1, <2>2, <1>g, <1>r
  <1>7. ASSUME MergeRows(t) PROVE Carried' /\ StatusIsLatest'
    <2>1. Goto(t, AfterMap(t)) /\ UNCHANGED <<begun, raced>>
          /\ msg' = [m \in Msgs |-> IF msg[m].num = "lid" THEN [msg[m] EXCEPT !.num = "pn"] ELSE msg[m]]
      BY <1>7 DEF MergeRows
    <2>2. \A m \in Msgs : msg[m].num = "lid" =>
             [msg[m] EXCEPT !.num = "pn"] # Absent /\ msg[m] # Absent
                 /\ [msg[m] EXCEPT !.num = "pn"].status = msg[m].status
      BY <1>t DEF RowType, Absent, Numbers
    <2>3. Rows
      BY <2>1, <2>2 DEF Stored, Msgs
    <2>4. Going
      BY <2>1, Fields
    <2> QED
      BY <2>1, <2>3, <2>4, <1>g
  <1>8. ASSUME Resolve(t) \/ ResolveFails(t) PROVE Carried' /\ StatusIsLatest'
    <2>1. PICK num \in Numbers : UseNumber(t, num) /\ UNCHANGED <<msg, begun>>
      BY <1>8 DEF Resolve, ResolveFails, Numbers, rows
    <2>2. CASE task[t].kind = "history" /\ num = "lid"
      <3>1. End(t) /\ raced' = raced \cup {task[t].m}
        BY <2>1, <2>2 DEF UseNumber
      <3>2. PICK m0 : task[t].m = m0
        OBVIOUS
      <3> QED
        BY <2>1, <3>1, <3>2, <1>e, <1>r
    <2>3. CASE ~(task[t].kind = "history" /\ num = "lid")
      <3>1. Going
        BY <2>1, <2>3, Fields
      <3>2. raced' = raced
        BY <2>1, <2>3 DEF UseNumber
      <3> QED
        BY <2>1, <3>1, <3>2, <1>g, <1>r
    <2> QED
      BY <2>2, <2>3
  <1>9. ASSUME CheckStored(t), End(t) PROVE Carried' /\ StatusIsLatest'
    <2>1. PICK m0 : task[t].m = m0
      OBVIOUS
    <2>2. task[t].pc = "check" /\ UNCHANGED <<msg, begun, raced>>
      BY <1>9 DEF CheckStored, rows
    <2>3. Stored(m0)
      <3>1. task'[t] = Done
        BY <1>9, Fields
      <3>2. CASE ~Stored(task[t].m)
        <4>1. Goto(t, "contact")
          BY <1>9, <3>2 DEF CheckStored
        <4> QED
          BY <4>1, <3>1, Fields DEF Done
      <3> QED
        BY <3>2, <2>1
    <2>4. task[t].kind = "history"
      BY <2>2, <1>t DEF StagedAt
    <2>5. m0 \in Msgs => m0 \in raced
      BY <2>1, <2>3, <2>4 DEF Carried
    <2> QED
      BY <1>9, <2>1, <2>2, <2>5, <1>e, <1>r
  <1>10. ASSUME SaveRow(t) \/ ApplyReceipt(t) PROVE Carried' /\ StatusIsLatest'
    <2>1. PICK m0 : task[t].m = m0
      OBVIOUS
    <2>2. End(t) /\ UNCHANGED <<begun, raced>> /\ task'[t] = Done
      BY <1>10, Fields DEF SaveRow, ApplyReceipt
    <2>3. /\ \A m \in Msgs \ {m0} : msg'[m] = msg[m]
          /\ m0 \in Msgs /\ msg'[m0] # Absent => msg'[m0].status = task[t].status
      <3>1. CASE SaveRow(t)
        <4>1. msg' = [msg EXCEPT ![m0] = [num |-> task[t].num, status |-> task[t].status]]
          BY <3>1, <2>1 DEF SaveRow
        <4> QED
          BY <4>1, <1>t
      <3>2. CASE ApplyReceipt(t)
        <4>1. msg' = IF msg[m0] # Absent THEN [msg EXCEPT ![m0].status = task[t].status] ELSE msg
          BY <3>2, <2>1 DEF ApplyReceipt, Stored
        <4>2. msg[m0] # Absent /\ m0 \in Msgs => [msg[m0] EXCEPT !.status = task[t].status].status = task[t].status
          BY <1>t DEF RowType
        <4>3. CASE msg[m0] # Absent
          BY <4>1, <4>2, <4>3, <1>t
        <4>4. CASE msg[m0] = Absent
          BY <4>1, <4>4, <1>t
        <4> QED
          BY <4>3, <4>4
      <3> QED
        BY <1>10, <3>1, <3>2
    <2>4. /\ \A m \in Msgs \ {m0} : Stored(m)' <=> Stored(m)
          /\ \A m \in Out \ {m0} : msg'[m].status = msg[m].status
          /\ m0 \in Msgs \ raced' => (Stored(m0)' => msg'[m0].status = task[t].status)
      BY <2>3 DEF Stored, Msgs
    <2> QED
      BY <2>1, <2>2, <2>4, <1>o, EndsCarried
  <1>11. ASSUME Original(t) PROVE Carried' /\ StatusIsLatest'
    <2>1. Going
      BY <1>11, <1>t DEF Original, TaskRecs
    <2>2. UNCHANGED <<msg, begun, raced>>
      BY <1>11 DEF Original, rows
    <2> QED
      BY <2>1, <2>2, <1>g, <1>r
  <1>12. ASSUME ListUnread(t) PROVE Carried' /\ StatusIsLatest'
    <2>1. Going
      BY <1>12, <1>t DEF ListUnread, TaskRecs
    <2>2. UNCHANGED <<msg, begun, raced>>
      BY <1>12 DEF ListUnread, rows
    <2> QED
      BY <2>1, <2>2, <1>g, <1>r
  <1>13. ASSUME MarkReadFails(t), End(t) PROVE Carried' /\ StatusIsLatest'
    <2>1. PICK m0 : task[t].m = m0
      OBVIOUS
    <2>2. m0 \notin Msgs /\ UNCHANGED <<msg, begun, raced>>
      BY <1>13, <2>1, <1>t DEF MarkReadFails, StagedAt, Msgs, rows
    <2> QED
      BY <1>13, <2>1, <2>2, <1>e, <1>r
  <1>14. ASSUME UpdateRead(t) PROVE Carried' /\ StatusIsLatest'
    <2>1. PICK m0 : task[t].m = m0
      OBVIOUS
    <2>2. /\ m0 \notin Msgs /\ UNCHANGED <<begun, raced>> /\ End(t)
          /\ msg' = [m \in Msgs |-> IF m \in Unread(task[t].num)
                                    THEN [msg[m] EXCEPT !.status = "READ"] ELSE msg[m]]
          /\ task[t].num \in Numbers
      BY <1>14, <2>1, <1>t DEF UpdateRead, StagedAt, Msgs
    <2>3. \A m \in Msgs : m \in Unread(task[t].num) =>
             m \in In /\ [msg[m] EXCEPT !.status = "READ"] # Absent /\ msg[m] # Absent
      BY <2>2, <1>t DEF Unread, RowType, Absent, Numbers
    <2>4. Rows
      BY <2>2, <2>3 DEF Stored, Msgs
    <2> QED
      BY <2>1, <2>2, <2>4, <1>e
  <1>15. ASSUME Dies(t) PROVE Carried' /\ StatusIsLatest'
    <2>1. PICK m0 : task[t].m = m0
      OBVIOUS
    <2>2. /\ UNCHANGED <<msg, begun>> /\ End(t) /\ raced' = raced \cup ({m0} \ {Nobody})
      BY <1>15, <2>1 DEF Dies, rows
    <2>3. m0 \notin Msgs \ raced'
      BY <2>2 DEF Msgs
    <2> QED
      BY <2>1, <2>2, <2>3, <1>e, <1>r
  <1> QED
    BY <1>s, <1>6, <1>7, <1>8, <1>9, <1>10, <1>11, <1>12, <1>13, <1>14, <1>15 DEF Steps
-----------------------------------------------------------------------------
(* Reading *)

\* What is unread after a step was so before, or was written while the readers
\* were past their lists.
LEMMA ReadStep ==
    ASSUME TypeOK, Staged, ListKnown, ReadMeansTold, NEW t \in Tasks, Starts(t) \/ Steps(t)
    PROVE  ListKnown' /\ ReadMeansTold'
  <1> USE InboxAssumption
  <1>t. /\ msg \in [Msgs -> RowType] /\ task \in [Tasks -> TaskRecs] /\ task[t] \in TaskRecs
        /\ StagedAt(task[t]) /\ Absent.num \notin Numbers /\ Absent.status # "READ"
        /\ \A m \in In : m \in Msgs /\ m \notin Out
    BY DEF TypeOK, TaskRecs, RowType, Staged, Absent, Numbers, Msgs
  <1>o. \A u \in Tasks \ {t} : task'[u] = task[u]
    BY OthersKept
  <1> DEFINE Grow == /\ told \subseteq told' /\ refused \subseteq refused'
                     /\ overlapped \subseteq overlapped' /\ imported \subseteq imported'
             Away == task'[t].pc \notin {"mark", "update"}
             Seen == \A m \in In : \/ m \in overlapped'
                                   \/ msg'[m].num = msg[m].num /\ msg'[m].status = msg[m].status
                                   \/ msg'[m].status = "READ" \/ Readers \subseteq {t}
             Read == \A m \in In : msg'[m].status = "READ" =>
                        \/ msg[m].status = "READ"
                        \/ m \in told' \cup refused' \cup overlapped' \cup imported'
  <1>r. ASSUME Grow, Read PROVE ReadMeansTold'
    BY <1>r DEF ReadMeansTold
  <1>l. ASSUME Grow, Seen,
               \A m \in In : msg'[m].num = task'[t].num /\ msg'[m].status # "READ" =>
                   /\ task'[t].pc = "mark" => m \in task'[t].seen \cup overlapped'
                   /\ task'[t].pc = "update" => m \in told' \cup refused' \cup overlapped'
        PROVE  ListKnown'
    <2> SUFFICES ASSUME NEW u \in Tasks, NEW m \in In,
                        msg'[m].num = task'[u].num, msg'[m].status # "READ"
                 PROVE  /\ task'[u].pc = "mark" => m \in task'[u].seen \cup overlapped'
                        /\ task'[u].pc = "update" => m \in told' \cup refused' \cup overlapped'
      BY DEF ListKnown
    <2>1. CASE u = t
      BY <2>1, <1>l
    <2>2. CASE u # t /\ task[u].pc \in {"mark", "update"}
      <3>1. task'[u] = task[u] /\ u \in Readers
        BY <2>2, <1>o DEF Readers
      <3>2. m \in overlapped' \/ (msg[m].num = task[u].num /\ msg[m].status # "READ")
        BY <3>1, <2>2, <1>l
      <3> QED
        BY <3>1, <3>2, <1>l DEF ListKnown
    <2>3. CASE u # t /\ task[u].pc \notin {"mark", "update"}
      BY <2>3, <1>o
    <2> QED
      BY <2>1, <2>2, <2>3
  <1>a. ASSUME Grow, Seen, Away, Read PROVE ListKnown' /\ ReadMeansTold'
    BY <1>a, <1>l, <1>r
  <1>s. ASSUME Starts(t) PROVE ListKnown' /\ ReadMeansTold'
    <2>1. Away
      BY <1>s, StartPc
    <2>2. UNCHANGED <<msg, told, refused, overlapped, imported>>
      BY <1>s DEF Starts, MessageEvent, HistoryMessage, ReceiptEvent, Outgoing, ReadRequest, rows, reading
    <2> QED
      BY <2>1, <2>2, <1>a
  <1>1. ASSUME \/ MapLid(t) \/ MapLidFails(t) \/ MergeContact(t) \/ MergeDelete(t) \/ Conversation(t)
               \/ CheckStored(t) \/ SaveContact(t) \/ Original(t) \/ Resolve(t) \/ ResolveFails(t) \/ Dies(t)
        PROVE  ListKnown' /\ ReadMeansTold'
    <2>1. Away
      <3>1. CASE Original(t)
        BY <3>1, <1>t DEF Original, TaskRecs
      <3>2. CASE Resolve(t) \/ ResolveFails(t)
        <4>1. \E num : UseNumber(t, num)
          BY <3>2 DEF Resolve, ResolveFails
        <4> QED
          BY <4>1, Fields DEF Done
      <3>3. CASE ~Original(t) /\ ~Resolve(t) /\ ~ResolveFails(t)
        <4>1. End(t) \/ \E pc \in Stages \ {"mark", "update"} : Goto(t, pc)
          BY <3>3, <1>1 DEF MapLid, MapLidFails, MergeContact, MergeDelete, Conversation, CheckStored,
              SaveContact, Dies, Stages, Merging
        <4> QED
          BY <4>1, Fields DEF Done
      <3> QED
        BY <3>1, <3>2, <3>3
    <2>2. UNCHANGED <<msg, told, refused, overlapped, imported>>
      BY <1>1 DEF MapLid, MapLidFails, MergeContact, MergeDelete, Conversation, CheckStored,
          SaveContact, Original, Resolve, ResolveFails, Dies, rows, reading
    <2> QED
      BY <2>1, <2>2, <1>a
  <1>2. ASSUME MergeRows(t) PROVE ListKnown' /\ ReadMeansTold'
    <2>1. /\ msg' = [m \in Msgs |-> IF msg[m].num = "lid" THEN [msg[m] EXCEPT !.num = "pn"] ELSE msg[m]]
          /\ Overlap({m \in Msgs : msg[m].num = "lid"}) /\ Goto(t, AfterMap(t))
          /\ UNCHANGED <<told, refused, imported>>
          /\ task[t].pc = "mergeRows"
      BY <1>2 DEF MergeRows
    <2>2. Away
      <3>1. AfterMap(t) \notin {"mark", "update"}
        BY DEF AfterMap
      <3> QED
        BY <2>1, <3>1, Fields
    <2>3. \A m \in Msgs : msg'[m].status = msg[m].status
      BY <2>1, <1>t DEF RowType, Absent, Numbers
    <2>4. Grow
      BY <2>1 DEF Overlap
    <2>5. Seen
      BY <2>1, <2>3, <1>t DEF Overlap
    <2>6. Read
      BY <2>3, <1>t
    <2> QED
      BY <2>2, <2>4, <2>5, <2>6, <1>a
  <1>3. ASSUME SaveRow(t) PROVE ListKnown' /\ ReadMeansTold'
    <2> DEFINE m0 == task[t].m
    <2>1. /\ msg' = [msg EXCEPT ![m0] = [num |-> task[t].num, status |-> task[t].status]]
          /\ Overlap({m0}) /\ End(t)
          /\ UNCHANGED <<told, refused>>
          /\ task[t].pc = "row"
          /\ imported' = IF task[t].kind = "history" THEN imported \cup {m0} ELSE imported
      BY <1>3 DEF SaveRow
    <2>2. Away
      BY <2>1, Fields DEF Done
    <2>3. Grow
      BY <2>1 DEF Overlap
    <2>4. \A m \in In : m # m0 => msg'[m] = msg[m]
      BY <2>1, <1>t
    <2>5. m0 \in In => msg'[m0].status = task[t].status
      BY <2>1, <1>t
    <2>6. task[t].status = "READ" => task[t].kind = "history"
      BY <2>1, <1>t DEF StagedAt
    <2> HIDE DEF m0
    <2>7. Seen
      BY <2>1, <2>4 DEF Overlap
    <2>8. Read
      BY <2>1, <2>4, <2>5, <2>6
    <2> QED
      BY <2>2, <2>3, <2>7, <2>8, <1>a
  <1>4. ASSUME ApplyReceipt(t) PROVE ListKnown' /\ ReadMeansTold'
    <2>1. /\ task[t].pc = "apply" /\ End(t)
          /\ UNCHANGED <<told, refused, overlapped, imported>>
          /\ msg' = IF Stored(task[t].m) THEN [msg EXCEPT ![task[t].m].status = task[t].status] ELSE msg
      BY <1>4 DEF ApplyReceipt, reading
    <2>2. task[t].m \in Out
      BY <2>1, <1>t DEF StagedAt
    <2>3. \A m \in In : msg'[m] = msg[m]
      BY <2>1, <2>2, <1>t
    <2>4. Away
      BY <2>1, Fields DEF Done
    <2> QED
      BY <2>1, <2>3, <2>4, <1>a
  <1>5. ASSUME ListUnread(t) PROVE ListKnown' /\ ReadMeansTold'
    <2>1. /\ UNCHANGED <<msg, told, refused, overlapped, imported>>
          /\ task'[t].pc = "mark" /\ task'[t].num = task[t].num /\ task'[t].seen = Unread(task[t].num)
      BY <1>5, <1>t DEF ListUnread, rows, reading, TaskRecs
    <2> QED
      BY <2>1, <1>l, <1>r DEF Unread
  <1>6. ASSUME MarkRead(t) \/ (MarkReadFails(t) /\ ~End(t)) PROVE ListKnown' /\ ReadMeansTold'
    <2>1. /\ UNCHANGED <<msg, overlapped, imported>>
          /\ \/ told' = told \cup task[t].seen /\ refused' = refused
             \/ refused' = refused \cup task[t].seen /\ told' = told
          /\ task[t].pc = "mark" /\ Goto(t, "update")
      BY <1>6 DEF MarkRead, MarkReadFails, rows
    <2>2. task'[t].pc = "update" /\ task'[t].num = task[t].num
      BY <2>1, Fields
    <2> QED
      BY <2>1, <2>2, <1>l, <1>r DEF ListKnown
  <1>7. ASSUME MarkReadFails(t), End(t) PROVE ListKnown' /\ ReadMeansTold'
    <2>1. UNCHANGED <<msg, told, overlapped, imported>> /\ refused \subseteq refused'
      BY <1>7 DEF MarkReadFails, rows
    <2>2. Away
      BY <1>7, Fields DEF Done
    <2> QED
      BY <2>1, <2>2, <1>a
  <1>8. ASSUME UpdateRead(t) PROVE ListKnown' /\ ReadMeansTold'
    <2>1. /\ UNCHANGED <<told, refused, overlapped, imported>>
          /\ task[t].pc = "update" /\ End(t)
          /\ msg' = [m \in Msgs |-> IF m \in Unread(task[t].num)
                                    THEN [msg[m] EXCEPT !.status = "READ"] ELSE msg[m]]
          /\ task[t].num \in Numbers
      BY <1>8, <1>t DEF UpdateRead, reading, StagedAt
    <2>2. \A m \in In : IF msg[m].num = task[t].num /\ msg[m].status # "READ"
                        THEN msg'[m].status = "READ" ELSE msg'[m] = msg[m]
      BY <2>1, <1>t DEF Unread, RowType
    <2>3. Away
      BY <2>1, Fields DEF Done
    <2>4. Read
      BY <2>1, <2>2 DEF ListKnown
    <2> QED
      BY <2>1, <2>2, <2>3, <2>4, <1>a
  <1> QED
    BY <1>s, <1>1, <1>2, <1>3, <1>4, <1>5, <1>6, <1>7, <1>8 DEF Steps
-----------------------------------------------------------------------------
(* The merge *)

LEMMA HomedStep ==
    ASSUME TypeOK, Staged, Homed, NEW t \in Tasks, Starts(t) \/ Steps(t)
    PROVE  Homed'
  <1> USE InboxAssumption
  <1>t. /\ msg \in [Msgs -> RowType] /\ task \in [Tasks -> TaskRecs] /\ task[t] \in TaskRecs
        /\ contacts \subseteq Numbers /\ StagedAt(task[t]) /\ Numbers = {"lid", "pn"}
    BY DEF TypeOK, TaskRecs, RowType, Staged, Numbers
  <1>o. \A u \in Tasks \ {t} : task'[u] = task[u]
    BY OthersKept
  \* A step that stores nothing, and after which t is at an ordinary place.
  <1> DEFINE Here == task'[t].pc \notin Merging \cup {"row"}
             Same == UNCHANGED <<msg, contacts, mapped>>
  <1>1. ASSUME Here, Same, straddled => straddled', task[t].pc \in Merging => straddled',
               ~straddled' /\ mapped => ~LidHolder(t)'
        PROVE  Homed'
    <2>1. \A u \in Tasks : task'[u].pc \in Merging \cup {"row"} => u # t /\ task'[u] = task[u]
      BY <1>1, <1>o
    <2>2. \A u \in Tasks \ {t} : LidHolder(u)' <=> LidHolder(u)
      BY <1>o DEF LidHolder
    <2>3. \A u \in Tasks : task[u].pc \in Merging => straddled' \/ task'[u] = task[u]
      BY <1>1, <1>o
    <2> QED
      BY <1>1, <2>1, <2>2, <2>3 DEF Homed, Merging
  <1>s. ASSUME Starts(t) PROVE Homed'
    <2>1. Here /\ task[t].pc \notin Merging /\ Same
      BY <1>s, StartPc DEF Merging, Starts, MessageEvent, HistoryMessage, ReceiptEvent, Outgoing,
          ReadRequest, rows
    <2>2. (straddled => straddled') /\ (~straddled' /\ mapped => ~LidHolder(t)')
      <3>1. ASSUME NEW m \in Msgs, NEW num \in Numbers, Outgoing(t, m, num)
            PROVE  (straddled => straddled') /\ (~straddled' /\ mapped => ~LidHolder(t)')
        <4>1. task'[t].num = num /\ straddled' = (straddled \/ (mapped /\ num = "lid"))
          BY <3>1, <1>t DEF Outgoing, Begin, Done
        <4> QED
          BY <4>1 DEF LidHolder
      <3>2. ASSUME ~(\E m \in Msgs, num \in Numbers : Outgoing(t, m, num))
            PROVE  straddled' = straddled /\ task'[t].pc \notin {"contact", "row"}
        <4> USE <1>t DEF Begin, Done
        <4>1. \A m \in Msgs, addr \in Numbers, pair \in BOOLEAN : MessageEvent(t, m, addr, pair) =>
                 straddled' = straddled /\ task'[t].pc \notin {"contact", "row"}
          BY DEF MessageEvent
        <4>2. \A m \in Msgs, addr \in Numbers, pair \in BOOLEAN : HistoryMessage(t, m, addr, pair) =>
                 straddled' = straddled /\ task'[t].pc \notin {"contact", "row"}
          BY DEF HistoryMessage
        <4>3. \A m \in Msgs, addr \in Numbers, pair \in BOOLEAN, status \in {"DELIVERED", "READ"} :
                 ReceiptEvent(t, m, addr, pair, status) =>
                     straddled' = straddled /\ task'[t].pc \notin {"contact", "row"}
          BY DEF ReceiptEvent
        <4>4. \A num \in contacts, kind \in {"read", "sendRead"} : ReadRequest(t, num, kind) =>
                 straddled' = straddled /\ task'[t].pc \notin {"contact", "row"}
          BY DEF ReadRequest
        <4> QED
          BY <1>s, <3>2, <4>1, <4>2, <4>3, <4>4 DEF Starts
      <3> QED
        BY <3>1, <3>2 DEF LidHolder
    <2> QED
      BY <2>1, <2>2, <1>1
  <1>2. ASSUME MapLid(t) PROVE Homed'
    <2>1. /\ task[t].pc = "map" /\ mapped' = TRUE /\ straddled' = (\E u \in Tasks : LidHolder(u))
          /\ task'[t].pc = "mergeContact" /\ UNCHANGED <<msg, contacts>>
      BY <1>2, Fields DEF MapLid
    <2>2. \A u \in Tasks : LidHolder(u)' <=> LidHolder(u)
      BY <2>1, <1>o DEF LidHolder
    <2>3. \A u \in Tasks : task'[u].pc \in {"mergeDelete", "mergeRows", "row"} => task'[u] = task[u]
      BY <2>1, <1>o
    <2> QED
      BY <2>1, <2>2, <2>3 DEF Homed, Merging
  <1>3. ASSUME MapLidFails(t) PROVE Homed'
    <2>1. /\ straddled' = TRUE /\ task'[t].pc = "mergeContact" /\ UNCHANGED <<msg, contacts>>
      BY <1>3, Fields DEF MapLidFails, rows
    <2>2. \A u \in Tasks : task'[u].pc \in {"mergeDelete", "mergeRows", "row"} => task'[u] = task[u]
      BY <2>1, <1>o
    <2> QED
      BY <2>1, <2>2 DEF Homed
  <1>4. ASSUME MergeContact(t) PROVE Homed'
    <2>1. /\ task[t].pc = "mergeContact" /\ task'[t].pc = "mergeDelete"
          /\ contacts' = contacts \cup {"pn"} /\ UNCHANGED <<msg, mapped, straddled>>
      BY <1>4, Fields DEF MergeContact
    <2>2. \A u \in Tasks : LidHolder(u)' <=> LidHolder(u)
      BY <2>1, <1>o DEF LidHolder
    <2>3. \A u \in Tasks : u # t => task'[u] = task[u]
      BY <1>o
    <2> QED
      BY <2>1, <2>2, <2>3 DEF Homed, Merging
  <1>5. ASSUME MergeDelete(t) PROVE Homed'
    <2>1. /\ task[t].pc = "mergeDelete" /\ task'[t].pc = "mergeRows"
          /\ contacts' = contacts \ {"lid"} /\ UNCHANGED <<msg, mapped, straddled>>
      BY <1>5, Fields DEF MergeDelete
    <2>2. \A u \in Tasks : LidHolder(u)' <=> LidHolder(u)
      BY <2>1, <1>o DEF LidHolder
    <2>3. \A u \in Tasks : u # t => task'[u] = task[u]
      BY <1>o
    <2>4. mapped \/ straddled
      BY <2>1 DEF Homed, Merging
    <2> QED
      BY <2>1, <2>2, <2>3, <2>4 DEF Homed, Merging
  <1>6. ASSUME MergeRows(t) PROVE Homed'
    <2>1. /\ task[t].pc = "mergeRows" /\ task'[t].pc = AfterMap(t)
          /\ UNCHANGED <<contacts, mapped, straddled>>
          /\ msg' = [m \in Msgs |-> IF msg[m].num = "lid" THEN [msg[m] EXCEPT !.num = "pn"] ELSE msg[m]]
      BY <1>6, Fields DEF MergeRows
    <2>2. AfterMap(t) \notin Merging \cup {"contact", "row"}
      BY DEF AfterMap, Merging
    <2>3. \A u \in Tasks : LidHolder(u)' => LidHolder(u)
      BY <2>1, <2>2, <1>o DEF LidHolder
    <2>4. \A m \in Msgs : msg'[m].num # "lid"
      BY <2>1, <1>t DEF RowType, Absent
    <2>5. "pn" \in contacts' /\ (mapped \/ straddled)
      BY <2>1 DEF Homed, Merging
    <2>6. "lid" \in contacts /\ ~straddled =>
             \E u \in Tasks : task'[u].pc \in {"mergeContact", "mergeDelete"}
      <3>1. "lid" \in contacts /\ ~straddled => \E u \in Tasks : task[u].pc \in {"mergeContact", "mergeDelete"}
        BY <2>5 DEF Homed
      <3>2. \A u \in Tasks : task[u].pc \in {"mergeContact", "mergeDelete"} => task'[u] = task[u]
        BY <2>1, <1>o
      <3> QED
        BY <3>1, <3>2
    <2> QED
      BY <2>1, <2>3, <2>4, <2>5, <2>6 DEF Homed
  <1>7. ASSUME Resolve(t) \/ ResolveFails(t) PROVE Homed'
    <2>1. PICK num \in Numbers : /\ UseNumber(t, num) /\ Same /\ task[t].pc = "resolve"
                                 /\ (straddled => straddled') /\ (~straddled' /\ mapped => num = "pn")
      <3>1. CASE Resolve(t)
        BY <3>1, <1>t DEF Resolve, rows
      <3>2. CASE ResolveFails(t)
        BY <3>2, <1>t DEF ResolveFails, rows
      <3> QED
        BY <1>7, <3>1, <3>2
    <2>2. Here /\ (task'[t].pc \in {"contact", "row"} => task'[t].num = num)
      BY <2>1, Fields DEF Done, Merging
    <2> QED
      BY <2>1, <2>2, <1>1 DEF LidHolder, Merging
  <1>8. ASSUME Conversation(t) PROVE Homed'
    <2>1. /\ task[t].pc = "conversation" /\ task'[t].pc = "check" /\ task[t].num = "pn"
          /\ contacts' = contacts \cup {"pn"} /\ UNCHANGED <<msg, mapped, straddled>>
      BY <1>8, <1>t, Fields DEF Conversation, StagedAt
    <2>2. \A u \in Tasks : LidHolder(u)' <=> LidHolder(u)
      BY <2>1, <1>o DEF LidHolder
    <2>3. \A u \in Tasks : u # t => task'[u] = task[u]
      BY <1>o
    <2> QED
      BY <2>1, <2>2, <2>3 DEF Homed, Merging
  <1>9. ASSUME CheckStored(t) PROVE Homed'
    <2>1. /\ Same /\ straddled' = straddled /\ task[t].pc = "check" /\ task[t].num = "pn"
          /\ task'[t] = Done \/ (task'[t].pc = "contact" /\ task'[t].num = "pn")
      <3>1. task[t].pc = "check" /\ task[t].num = "pn"
        BY <1>9, <1>t DEF CheckStored, StagedAt
      <3> QED
        BY <1>9, <3>1, Fields DEF CheckStored, rows
    <2>2. Here /\ ~LidHolder(t)'
      BY <2>1 DEF LidHolder, Done, Merging
    <2> QED
      BY <2>1, <2>2, <1>1 DEF Merging
  <1>10. ASSUME SaveContact(t) PROVE Homed'
    <2>1. /\ task[t].pc = "contact" /\ task'[t].pc = "row" /\ task'[t].num = task[t].num
          /\ contacts' = contacts \cup {task[t].num} /\ UNCHANGED <<msg, mapped, straddled>>
          /\ task[t].num \in Numbers
      BY <1>10, <1>t, Fields DEF SaveContact, StagedAt
    <2>2. \A u \in Tasks : LidHolder(u)' <=> LidHolder(u)
      BY <2>1, <1>o DEF LidHolder
    <2>3. \A u \in Tasks : u # t => task'[u] = task[u]
      BY <1>o
    <2>4. ~straddled /\ mapped => task[t].num = "pn"
      BY <2>1, <1>t DEF Homed, LidHolder
    <2> QED
      BY <2>1, <2>2, <2>3, <2>4, <1>t DEF Homed, Merging
  <1>11. ASSUME SaveRow(t) PROVE Homed'
    <2> DEFINE m0 == task[t].m
    <2>1. /\ task[t].pc = "row" /\ task'[t] = Done /\ UNCHANGED <<contacts, mapped, straddled>>
          /\ msg' = [msg EXCEPT ![m0] = [num |-> task[t].num, status |-> task[t].status]]
          /\ task[t].num \in Numbers
      BY <1>11, <1>t, Fields DEF SaveRow, StagedAt
    <2>2. \A m \in Msgs : msg'[m].num = msg[m].num \/ msg'[m].num = task[t].num
      BY <2>1, <1>t
    <2>3. \A u \in Tasks : task'[u].pc \in Merging \cup {"contact", "row"} => task'[u] = task[u]
      BY <2>1, <1>o DEF Done, Merging
    <2>4. \A u \in Tasks : task[u].pc \in Merging => task'[u] = task[u]
      BY <2>1, <1>o DEF Merging
    <2>5. \A u \in Tasks : LidHolder(u)' => LidHolder(u)
      BY <2>3 DEF LidHolder
    <2>6. ~straddled /\ mapped => task[t].num = "pn"
      BY <2>1, <1>t DEF Homed, LidHolder
    <2>7. task[t].num = "pn" => "pn" \in contacts
      BY <2>1 DEF Homed
    <2>8. ~straddled /\ ~mapped /\ task[t].num = "lid" => "lid" \in contacts
      BY <2>1 DEF Homed
    <2> HIDE DEF m0
    <2> QED
      BY <2>1, <2>2, <2>3, <2>4, <2>5, <2>6, <2>7, <2>8, <1>t DEF Homed, Merging
  <1>12. ASSUME ApplyReceipt(t) \/ UpdateRead(t) PROVE Homed'
    <2>1. /\ task[t].pc \in {"apply", "update"} /\ task'[t] = Done /\ UNCHANGED <<contacts, mapped, straddled>>
      BY <1>12, Fields DEF ApplyReceipt, UpdateRead
    <2>2. \A m \in Msgs : msg'[m].num = msg[m].num
      <3>1. CASE ApplyReceipt(t)
        <4>1. msg' = IF Stored(task[t].m) THEN [msg EXCEPT ![task[t].m].status = task[t].status] ELSE msg
          BY <3>1 DEF ApplyReceipt
        <4>2. \A m \in Msgs : [msg[m] EXCEPT !.status = task[t].status].num = msg[m].num
          BY <1>t DEF RowType, Absent
        <4> QED
          BY <4>1, <4>2, <1>t
      <3>2. CASE UpdateRead(t)
        <4>1. msg' = [m \in Msgs |-> IF m \in Unread(task[t].num)
                                     THEN [msg[m] EXCEPT !.status = "READ"] ELSE msg[m]]
          BY <3>2 DEF UpdateRead
        <4>2. \A m \in Msgs : [msg[m] EXCEPT !.status = "READ"].num = msg[m].num
          BY <1>t DEF RowType, Absent
        <4> QED
          BY <4>1, <4>2
      <3> QED
        BY <1>12, <3>1, <3>2
    <2>3. \A u \in Tasks : task'[u].pc \in Merging \cup {"contact", "row"} => task'[u] = task[u]
      BY <2>1, <1>o DEF Done, Merging
    <2>4. \A u \in Tasks : task[u].pc \in Merging => task'[u] = task[u]
      BY <2>1, <1>o DEF Merging
    <2>5. \A u \in Tasks : LidHolder(u)' => LidHolder(u)
      BY <2>3 DEF LidHolder
    <2> QED
      BY <2>1, <2>2, <2>3, <2>4, <2>5 DEF Homed, Merging
  <1>13. ASSUME Original(t) \/ ListUnread(t) \/ MarkRead(t) \/ MarkReadFails(t) PROVE Homed'
    <2>1. Same /\ straddled' = straddled /\ task[t].pc \in {"original", "list", "mark"}
      BY <1>13 DEF Original, ListUnread, MarkRead, MarkReadFails, rows
    <2>2. task'[t].pc \in {"map", "apply", "mark", "update", "idle"}
      <3>1. CASE Original(t) \/ ListUnread(t)
        BY <3>1, <1>t DEF Original, ListUnread, TaskRecs
      <3>2. CASE MarkRead(t) \/ MarkReadFails(t)
        BY <3>2, Fields DEF MarkRead, MarkReadFails, Done
      <3> QED
        BY <1>13, <3>1, <3>2
    <2> QED
      BY <2>1, <2>2, <1>1 DEF LidHolder, Merging
  <1>14. ASSUME Dies(t) PROVE Homed'
    <2>1. /\ Same /\ task'[t] = Done /\ straddled' = (straddled \/ task[t].pc \in Merging)
      BY <1>14, Fields DEF Dies, rows
    <2>2. Here /\ ~LidHolder(t)'
      BY <2>1 DEF LidHolder, Merging, Done
    <2>3. (straddled => straddled') /\ (task[t].pc \in Merging => straddled')
      BY <2>1
    <2> QED
      BY <2>1, <2>2, <2>3, <1>1
  <1> QED
    BY <1>s, <1>2, <1>3, <1>4, <1>5, <1>6, <1>7, <1>8, <1>9, <1>10, <1>11, <1>12, <1>13, <1>14 DEF Steps
-----------------------------------------------------------------------------
(* The cleanup *)

\* The cleanup and the clock touch no handler, and a truncation loses all rows.
Cleanup == CleanStart \/ CleanTruncate \/ CleanRecord \/ CleanFails \/ NextPeriod

LEMMA CleanupStep == IInv /\ Cleanup => (Staged /\ Carried /\ StatusIsLatest /\ ListKnown
                                            /\ ReadMeansTold /\ Homed)'
  <1> SUFFICES ASSUME IInv, Cleanup
               PROVE  (Staged /\ Carried /\ StatusIsLatest /\ ListKnown /\ ReadMeansTold /\ Homed)'
    OBVIOUS
  <1> USE InboxAssumption
  <1>1. UNCHANGED <<task, contacts, mapped, told, refused, overlapped, imported, begun, raced, straddled>>
    BY DEF Cleanup, CleanStart, CleanTruncate, CleanRecord, CleanFails, NextPeriod, rows, reading
  <1>2. \A m \in Msgs : msg'[m] = msg[m] \/ msg'[m] = Absent
    BY DEF Cleanup, CleanStart, CleanTruncate, CleanRecord, CleanFails, NextPeriod, rows
  <1>3. \A m \in Msgs : (Busy(m)' <=> Busy(m)) /\ (Stored(m)' => Stored(m) /\ msg'[m] = msg[m])
    BY <1>1, <1>2 DEF Busy, Stored
  <1>4. Staged' /\ Carried'
    BY <1>1, <1>3 DEF IInv, Staged, Carried
  <1>5. StatusIsLatest'
    BY <1>1, <1>3 DEF IInv, StatusIsLatest, Msgs
  <1>a. Absent.num = "none" /\ Absent.status = "none"
    BY DEF Absent
  <1>6. ReadMeansTold'
    BY <1>1, <1>2, <1>a DEF IInv, ReadMeansTold, Msgs
  <1>7. ListKnown'
    <2> SUFFICES ASSUME NEW t \in Tasks, NEW m \in In,
                        msg'[m].num = task[t].num, msg'[m].status # "READ"
                 PROVE  /\ task[t].pc = "mark" => m \in task[t].seen \cup overlapped
                        /\ task[t].pc = "update" => m \in told \cup refused \cup overlapped
      BY <1>1 DEF ListKnown
    <2>1. CASE msg'[m] = msg[m]
      BY <2>1 DEF IInv, ListKnown
    <2>2. CASE msg'[m] = Absent
      BY <2>2, <1>a DEF IInv, Staged, StagedAt, Numbers
    <2> QED
      BY <2>1, <2>2, <1>2 DEF Msgs
  <1>8. Homed'
    <2>1. \A u \in Tasks : LidHolder(u)' <=> LidHolder(u)
      BY <1>1 DEF LidHolder
    <2>2. \A m \in Msgs : msg'[m].num \in {"lid", "pn"} => msg'[m] = msg[m]
      BY <1>2, <1>a
    <2> QED
      BY <1>1, <2>1, <2>2 DEF IInv, Homed
  <1> QED
    BY <1>4, <1>5, <1>6, <1>7, <1>8

\* A truncation is repeated only after a failure.
LEMMA CleanStep == TypeOK /\ CleanInv /\ Next => CleanInv'
  <1> SUFFICES ASSUME TypeOK, CleanInv, Next PROVE CleanInv'
    OBVIOUS
  <1>t. cleans \in Nat /\ faults \in Nat /\ cleaner \in {"idle", "due", "truncated"}
    BY InboxAssumption DEF TypeOK
  <1>f. Fault => faults' = faults + 1
    BY DEF Fault
  <1>1. CASE CleanStart
    BY <1>1 DEF CleanStart, CleanInv, CleanedOnce
  <1>2. CASE CleanTruncate
    BY <1>2, <1>t DEF CleanTruncate, CleanInv, CleanedOnce
  <1>3. CASE CleanRecord
    BY <1>3, <1>t DEF CleanRecord, CleanInv, CleanedOnce
  <1>4. CASE CleanFails
    BY <1>4, <1>t, <1>f DEF CleanFails, CleanInv, CleanedOnce
  <1>5. CASE NextPeriod
    BY <1>5, <1>t DEF NextPeriod, CleanInv, CleanedOnce
  <1>6. ASSUME NEW t \in Tasks, Starts(t) \/ Steps(t) PROVE CleanInv'
    <2>1. UNCHANGED cleaning
      BY <1>6 DEF Starts, MessageEvent, HistoryMessage, ReceiptEvent, Outgoing, ReadRequest,
          Steps, MapLid, MapLidFails, MergeContact, MergeDelete, MergeRows, Resolve,
          ResolveFails, Conversation, CheckStored, SaveContact, SaveRow, Original, ApplyReceipt,
          ListUnread, MarkRead, MarkReadFails, UpdateRead, Dies, cleaning, reading, rows
    <2>2. faults' = faults \/ faults' = faults + 1
      <3>1. Starts(t) => faults' = faults
        BY DEF Starts, MessageEvent, HistoryMessage, ReceiptEvent, Outgoing, ReadRequest
      <3>2. Steps(t) => faults' = faults \/ faults' = faults + 1
        BY <1>f DEF Steps, MapLid, MapLidFails, MergeContact, MergeDelete, MergeRows, Resolve,
          ResolveFails, Conversation, CheckStored, SaveContact, SaveRow, Original, ApplyReceipt,
          ListUnread, MarkRead, MarkReadFails, UpdateRead, Dies
      <3> QED
        BY <1>6, <3>1, <3>2
    <2> QED
      BY <2>1, <2>2, <1>t DEF cleaning, CleanInv, CleanedOnce
  <1> QED
    BY <1>1, <1>2, <1>3, <1>4, <1>5, <1>6 DEF Next
-----------------------------------------------------------------------------
(* Theorems *)

LEMMA NextInv == IInv /\ Next => IInv'
  <1> SUFFICES ASSUME IInv, Next PROVE IInv'
    OBVIOUS
  <1>1. TypeOK' /\ CleanInv'
    BY StepType, CleanStep DEF IInv
  <1>2. ASSUME NEW t \in Tasks, Starts(t) \/ Steps(t)
        PROVE  (Staged /\ Carried /\ StatusIsLatest /\ ListKnown /\ ReadMeansTold /\ Homed)'
    BY <1>2, StagedStep, CarriedStep, ReadStep, HomedStep DEF IInv
  <1>3. Cleanup => (Staged /\ Carried /\ StatusIsLatest /\ ListKnown /\ ReadMeansTold /\ Homed)'
    BY CleanupStep
  <1> QED
    BY <1>1, <1>2, <1>3 DEF IInv, Next, Cleanup

LEMMA StutterInv == IInv /\ UNCHANGED vars => IInv'
  BY DEF IInv, vars, TypeOK, Staged, Carried, StatusIsLatest, ListKnown, ReadMeansTold, Homed, CleanInv,
         CleanedOnce, Stored, Busy, LidHolder

\* The strengthened invariant holds in every reachable state, for every set of
\* messages and handlers.
THEOREM Invariance == Spec => []IInv
  <1>1. IInv /\ [Next]_vars => IInv'
    BY NextInv, StutterInv
  <1> QED
    BY InitInv, <1>1, PTL DEF Spec

\* Types of the rows, handlers and observers (webhooks/whatsapp/route.ts).
THEOREM TypeCorrect == Spec => []TypeOK
  <1>1. IInv => TypeOK
    BY DEF IInv
  <1> QED
    BY <1>1, Invariance, PTL

\* The status of a sent message is the last one reported, unless its events
\* overlap, fail, or come twice or out of order (webhooks/whatsapp/route.ts:1327-1373).
THEOREM StatusIsLatestAlways == Spec => []StatusIsLatest
  <1>1. IInv => StatusIsLatest
    BY DEF IInv
  <1> QED
    BY <1>1, Invariance, PTL

\* A received message shown as read was reported read, but for the named cases
\* (chat/read/route.ts:32-63).
THEOREM ReadMeansToldAlways == Spec => []ReadMeansTold
  <1>1. IInv => ReadMeansTold
    BY DEF IInv
  <1> QED
    BY <1>1, Invariance, PTL

\* After a merge nothing is left under the lid, and every message has its
\* contact, unless a handler straddled the merge (webhooks/whatsapp/route.ts:89-147).
THEOREM LidIsMergedAlways == Spec => []LidIsMerged
  <1>1. IInv => LidIsMerged
    <2> SUFFICES ASSUME IInv PROVE LidIsMerged
      OBVIOUS
    <2>1. NothingUnderLid
      BY DEF IInv, Homed, NothingUnderLid, Quiet, Merging
    <2>2. \A m \in Msgs : Stored(m) => msg[m].num \in {"lid", "pn"}
      BY DEF IInv, TypeOK, Stored, Numbers
    <2>3. MessageHasContact
      BY <2>2 DEF IInv, Homed, MessageHasContact, Quiet
    <2> QED
      BY <2>1, <2>3 DEF LidIsMerged
  <1> QED
    BY <1>1, Invariance, PTL

\* The messages are deleted once in five days, and once more for every failure
\* (message-cleanup/route.ts:82-89).
THEOREM CleanedOnceAlways == Spec => []CleanedOnce
  <1>1. IInv => CleanedOnce
    BY DEF IInv, CleanInv
  <1> QED
    BY <1>1, Invariance, PTL

\* A message read by the user stays read while it is stored, unless its events
\* come twice or overlap (inbox-store.ts:129-133).
THEOREM ReadStaysAlways == Spec => ReadStays
  <1> DEFINE Stay == \A m \in In : msg[m].status = "READ" /\ msg'[m] # Absent /\ m \notin raced'
                        => msg'[m].status = "READ"
  <1>1. ASSUME IInv, Next PROVE Stay
    <2> USE InboxAssumption
    <2>t. /\ msg \in [Msgs -> RowType] /\ task \in [Tasks -> TaskRecs] /\ Staged /\ Carried
          /\ Absent.status = "none" /\ Absent.num = "none" /\ \A m \in In : m \in Msgs /\ m \notin Out
      BY <1>1 DEF IInv, TypeOK, TaskRecs, RowType, Absent, Msgs
    <2>1. ASSUME NEW t \in Tasks, MergeRows(t) PROVE Stay
      <3>1. msg' = [m \in Msgs |-> IF msg[m].num = "lid" THEN [msg[m] EXCEPT !.num = "pn"] ELSE msg[m]]
        BY <2>1 DEF MergeRows
      <3>2. \A m \in Msgs : msg'[m].status = msg[m].status
        BY <3>1, <2>t DEF RowType
      <3> QED
        BY <3>2, <2>t
    <2>2. ASSUME NEW t \in Tasks, UpdateRead(t) PROVE Stay
      <3>1. msg' = [m \in Msgs |-> IF m \in Unread(task[t].num) THEN [msg[m] EXCEPT !.status = "READ"] ELSE msg[m]]
        BY <2>2 DEF UpdateRead
      <3>2. \A m \in Msgs : m \in Unread(task[t].num) => msg[m].status # "READ"
        BY DEF Unread
      <3> QED
        BY <3>1, <3>2, <2>t
    <2>3. ASSUME NEW t \in Tasks, ApplyReceipt(t) PROVE Stay
      <3>1. /\ task[t].pc = "apply"
            /\ msg' = IF Stored(task[t].m) THEN [msg EXCEPT ![task[t].m].status = task[t].status] ELSE msg
        BY <2>3 DEF ApplyReceipt
      <3>2. task[t].m \in Out
        BY <3>1, <2>t DEF Staged, StagedAt
      <3> QED
        BY <3>1, <3>2, <2>t
    <2>4. ASSUME NEW t \in Tasks, SaveRow(t) PROVE Stay
      <3> SUFFICES ASSUME NEW m \in In, msg[m].status = "READ", m \notin raced'
                   PROVE  msg'[m] = msg[m]
        OBVIOUS
      <3>1. /\ task[t].pc = "row" /\ raced' = raced
            /\ msg' = [msg EXCEPT ![task[t].m] = [num |-> task[t].num, status |-> task[t].status]]
        BY <2>4 DEF SaveRow
      <3>2. task[t].kind # "receipt"
        BY <3>1, <2>t DEF Staged, StagedAt
      <3>3. Stored(m)
        BY <2>t DEF Stored
      <3>4. task[t].m # m
        BY <3>1, <3>2, <3>3, <2>t DEF Carried
      <3> QED
        BY <3>1, <3>4, <2>t
    <2>5. ASSUME Cleanup PROVE Stay
      <3>1. \A m \in Msgs : msg'[m] = msg[m] \/ msg'[m] = Absent
        BY <2>5 DEF Cleanup, CleanStart, CleanTruncate, CleanRecord, CleanFails, NextPeriod, rows
      <3> QED
        BY <3>1, <2>t
    <2>6. ASSUME NEW t \in Tasks, Starts(t) \/ Steps(t),
                 ~MergeRows(t), ~UpdateRead(t), ~ApplyReceipt(t), ~SaveRow(t)
          PROVE  msg' = msg
      BY <2>6 DEF Starts, MessageEvent, HistoryMessage, ReceiptEvent, Outgoing, ReadRequest,
          Steps, MapLid, MapLidFails, MergeContact, MergeDelete, Resolve,
          ResolveFails, Conversation, CheckStored, SaveContact, Original,
          ListUnread, MarkRead, MarkReadFails, Dies, rows
    <2>7. msg' = msg => Stay
      OBVIOUS
    <2> QED
      BY <1>1, <2>1, <2>2, <2>3, <2>4, <2>5, <2>6, <2>7 DEF Next, Cleanup
  <1>2. IInv /\ [Next]_vars => [Stay]_vars
    BY <1>1
  <1> QED
    BY <1>2, Invariance, PTL DEF Spec, ReadStays
-----------------------------------------------------------------------------
(* The refinement of ChatView *)

\* What the refinement mapping substitutes for the variables of ChatView that
\* are no variables of Inbox.
shownOf  == [m \in Msgs |-> msg[m].status]
untoldOf == refused \cup overlapped \cup imported
viewed   == <<shownOf, begun, told, untoldOf, raced>>

\* The steps of ChatView, read through the mapping.
LEMMA Mapping ==
    ASSUME TypeOK
    PROVE  /\ viewed' = viewed => UNCHANGED View!vars
           /\ \A m \in Msgs, k \in 0..3 :
                /\ begun' = [begun EXCEPT ![m] = IF k > @ THEN k ELSE @]
                /\ raced' \in {raced, raced \cup {m}} /\ (k <= begun[m] => m \in raced')
                /\ shownOf' = shownOf /\ told' = told /\ untoldOf' = untoldOf
                => View!Next
           /\ \A m \in Msgs :
                /\ raced' = raced \cup {m}
                /\ shownOf' = shownOf /\ begun' = begun /\ told' = told /\ untoldOf' = untoldOf
                => View!Next
           /\ \A m \in Msgs, s \in {"SENT", "DELIVERED", "READ"} :
                /\ m \in raced \/ (shownOf[m] = "none" /\ begun[m] > 0 /\ s = StatusOf[begun[m]])
                /\ \E some \in SUBSET Msgs : untoldOf' = untoldOf \cup some
                /\ m \in In /\ s = "READ" => m \in told \cup untoldOf'
                /\ shownOf' = [shownOf EXCEPT ![m] = s]
                /\ begun' = begun /\ told' = told /\ raced' = raced
                => View!Next
           /\ \A m \in Out, k \in 1..3 :
                /\ k < begun[m] /\ shownOf[m] = StatusOf[k]
                /\ shownOf' = [shownOf EXCEPT ![m] = StatusOf[begun[m]]]
                /\ begun' = begun /\ told' = told /\ untoldOf' = untoldOf /\ raced' = raced
                => View!Next
           /\ \A some \in SUBSET In :
                /\ told' = told \cup some
                /\ shownOf' = shownOf /\ begun' = begun /\ untoldOf' = untoldOf /\ raced' = raced
                => View!Next
           /\ \A some \in SUBSET Msgs :
                /\ untoldOf' = untoldOf \cup some
                /\ shownOf' = shownOf /\ begun' = begun /\ told' = told /\ raced' = raced
                => View!Next
           /\ \A some \in SUBSET In :
                /\ some \subseteq told \cup untoldOf /\ \A m \in some : shownOf[m] # "none"
                /\ shownOf' = [m \in Msgs |-> IF m \in some THEN "READ" ELSE shownOf[m]]
                /\ begun' = begun /\ told' = told /\ untoldOf' = untoldOf /\ raced' = raced
                => View!Next
           /\ /\ shownOf' = [m \in Msgs |-> "none"]
              /\ begun' = begun /\ told' = told /\ untoldOf' = untoldOf /\ raced' = raced
              => View!Next
  <1> USE DEF shownOf, untoldOf
  <1>0. View!All = Msgs /\ View!StatusOf = StatusOf
    BY DEF View!All, View!StatusOf, Msgs, StatusOf
  <1>1. viewed' = viewed => UNCHANGED View!vars
    BY DEF viewed, View!vars
  <1>2. ASSUME NEW m \in Msgs, NEW k \in 0..3,
               begun' = [begun EXCEPT ![m] = IF k > @ THEN k ELSE @],
               raced' \in {raced, raced \cup {m}}, k <= begun[m] => m \in raced',
               shownOf' = shownOf, told' = told, untoldOf' = untoldOf
        PROVE  View!Report(m, k)
    BY <1>2 DEF View!Report
  <1>3. ASSUME NEW m \in Msgs, raced' = raced \cup {m},
               shownOf' = shownOf, begun' = begun, told' = told, untoldOf' = untoldOf
        PROVE  View!GoAstray(m)
    BY <1>3 DEF View!GoAstray
  <1>4. ASSUME NEW m \in Msgs, NEW s \in {"SENT", "DELIVERED", "READ"},
               m \in raced \/ (shownOf[m] = "none" /\ begun[m] > 0 /\ s = StatusOf[begun[m]]),
               \E some \in SUBSET Msgs : untoldOf' = untoldOf \cup some,
               m \in In /\ s = "READ" => m \in told \cup untoldOf',
               shownOf' = [shownOf EXCEPT ![m] = s],
               begun' = begun, told' = told, raced' = raced
        PROVE  View!Show(m, s)
    BY <1>4, <1>0 DEF View!Show
  <1>5. ASSUME NEW m \in Out, NEW k \in 1..3, k < begun[m], shownOf[m] = StatusOf[k],
               shownOf' = [shownOf EXCEPT ![m] = StatusOf[begun[m]]],
               begun' = begun, told' = told, untoldOf' = untoldOf, raced' = raced
        PROVE  m \in Msgs /\ View!Rise(m)
    <2>1. m \in Msgs /\ k \in 1..(begun[m] - 1)
      BY <1>5, InboxAssumption DEF Msgs, TypeOK
    <2> QED
      BY <1>5, <1>0, <2>1 DEF View!Rise
  <1>6. ASSUME NEW some, told' = told \cup some,
               shownOf' = shownOf, begun' = begun, untoldOf' = untoldOf, raced' = raced
        PROVE  View!Tell(some)
    BY <1>6 DEF View!Tell
  <1>7. ASSUME NEW some, untoldOf' = untoldOf \cup some,
               shownOf' = shownOf, begun' = begun, told' = told, raced' = raced
        PROVE  View!LeaveUntold(some)
    BY <1>7 DEF View!LeaveUntold
  <1>8. ASSUME NEW some, some \subseteq told \cup untoldOf, \A m \in some : shownOf[m] # "none",
               shownOf' = [m \in Msgs |-> IF m \in some THEN "READ" ELSE shownOf[m]],
               begun' = begun, told' = told, untoldOf' = untoldOf, raced' = raced
        PROVE  View!Read(some)
    BY <1>8, <1>0 DEF View!Read
  <1>9. ASSUME shownOf' = [m \in Msgs |-> "none"],
               begun' = begun, told' = told, untoldOf' = untoldOf, raced' = raced
        PROVE  View!Forget
    BY <1>9, <1>0 DEF View!Forget
  <1> HIDE DEF shownOf, untoldOf
  <1>n. /\ \A m \in Msgs, k \in 0..3 : View!Report(m, k) => View!Next
        /\ \A m \in Msgs : View!GoAstray(m) \/ View!Rise(m) => View!Next
        /\ \A m \in Msgs, s \in {"SENT", "DELIVERED", "READ"} : View!Show(m, s) => View!Next
        /\ \A some \in SUBSET In : View!Tell(some) \/ View!Read(some) => View!Next
        /\ \A some \in SUBSET Msgs : View!LeaveUntold(some) => View!Next
        /\ View!Forget => View!Next
    BY <1>0 DEF View!Next
  <1> QED
    BY <1>1, <1>2, <1>3, <1>4, <1>5, <1>6, <1>7, <1>8, <1>9, <1>n

\* A stored message of which a receipt is on its way shows an earlier status.
Rising == \A m \in Out \ raced : Stored(m) /\ Busy(m) =>
              \E k \in 1..3 : k < begun[m] /\ msg[m].status = StatusOf[k]

LEMMA StatusKept ==
    ASSUME TypeOK, Staged, NEW t \in Tasks,
           Starts(t) \/ Steps(t), ~SaveRow(t), ~ApplyReceipt(t), ~UpdateRead(t)
    PROVE  \A m \in Msgs : msg'[m].status = msg[m].status /\ (Stored(m)' => Stored(m))
  <1>1. CASE MergeRows(t)
    <2>1. msg \in [Msgs -> RowType] /\ Absent.num # "lid"
      BY DEF TypeOK, RowType, Absent
    <2>2. msg' = [m \in Msgs |-> IF msg[m].num = "lid" THEN [msg[m] EXCEPT !.num = "pn"] ELSE msg[m]]
      BY <1>1 DEF MergeRows
    <2> QED
      BY <2>1, <2>2 DEF RowType, Stored
  <1>2. CASE ~MergeRows(t)
    <2>1. msg' = msg
      BY <1>2 DEF Starts, MessageEvent, HistoryMessage, ReceiptEvent, Outgoing, ReadRequest,
          Steps, MapLid, MapLidFails, MergeContact, MergeDelete, Resolve,
          ResolveFails, Conversation, CheckStored, SaveContact, Original,
          ListUnread, MarkRead, MarkReadFails, Dies, rows
    <2> QED
      BY <2>1 DEF Stored
  <1> QED
    BY <1>1, <1>2

\* What a start tells about its message.
LEMMA StartReports ==
    ASSUME TypeOK, NEW t \in Tasks, Starts(t)
    PROVE  /\ UNCHANGED <<msg, told, refused, overlapped, imported>>
           /\ \/ UNCHANGED <<begun, raced>> /\ \A m \in Msgs : Busy(m)' => Busy(m)
              \/ \E m \in Msgs, k \in 0..3 :
                    /\ begun' = [begun EXCEPT ![m] = IF k > @ THEN k ELSE @]
                    /\ raced' = IF Busy(m) \/ k <= begun[m] THEN raced \cup {m} ELSE raced
                    /\ \A n \in Msgs \ {m} : Busy(n)' => Busy(n)
  <1> USE InboxAssumption
  <1>t. task \in [Tasks -> TaskRecs]
    BY DEF TypeOK, TaskRecs
  <1> DEFINE Told(m, k) == /\ begun' = [begun EXCEPT ![m] = IF k > @ THEN k ELSE @]
                           /\ raced' = IF Busy(m) \/ k <= begun[m] THEN raced \cup {m} ELSE raced
                           /\ \A n \in Msgs \ {m} : Busy(n)' => Busy(n)
             Still == UNCHANGED <<msg, told, refused, overlapped, imported>>
  <1>1. ASSUME NEW m \in Msgs, NEW k, NEW local, Begin(t, m, k, local), local.m = m
        PROVE  Told(m, k)
    <2>1. task'[t].m = m /\ \A u \in Tasks \ {t} : task'[u] = task[u]
      BY <1>1, <1>t DEF Begin
    <2> QED
      BY <1>1, <2>1 DEF Begin, Busy
  <1>k. \A status \in {"DELIVERED", "READ"} : RankOf(status) \in 0..3
    BY Ranks
  <1>2. ASSUME NEW m \in Msgs, NEW addr \in Numbers, NEW pair \in BOOLEAN, MessageEvent(t, m, addr, pair)
        PROVE  Told(m, 1) /\ Still
    <2> DEFINE local == [Done EXCEPT !.pc = IF pair THEN "map" ELSE "resolve",
                                   !.kind = "message", !.m = m, !.addr = addr, !.status = "SENT"]
    <2>1. Begin(t, m, 1, local) /\ Still
      BY <1>2 DEF MessageEvent, rows, reading
    <2>2. local.m = m
      BY DEF Done
    <2> HIDE DEF local, Told
    <2> QED
      BY <2>1, <2>2, <1>1
  <1>3. ASSUME NEW m \in Msgs, NEW addr \in Numbers, NEW pair \in BOOLEAN, HistoryMessage(t, m, addr, pair)
        PROVE  (\E k \in 0..3 : Told(m, k)) /\ Still
    <2> DEFINE local == [Done EXCEPT !.pc = IF pair THEN "map" ELSE "resolve",
                          !.kind = "history", !.m = m, !.addr = addr, !.status = "READ"]
               k == IF begun[m] = 0 THEN 3 ELSE 0
    <2>1. Begin(t, m, k, local) /\ Still
      BY <1>3 DEF HistoryMessage, rows, reading
    <2>2. local.m = m /\ k \in 0..3
      BY DEF Done
    <2> HIDE DEF local, k, Told
    <2> QED
      BY <2>1, <2>2, <1>1
  <1>4. ASSUME NEW m \in Msgs, NEW addr \in Numbers, NEW pair \in BOOLEAN,
               NEW status \in {"DELIVERED", "READ"}, ReceiptEvent(t, m, addr, pair, status)
        PROVE  Told(m, RankOf(status)) /\ Still
    <2> DEFINE local == [Done EXCEPT !.pc = IF pair THEN "map"
                                            ELSE IF addr = "lid" THEN "original" ELSE "apply",
                          !.kind = "receipt", !.m = m, !.addr = addr, !.status = status]
    <2>1. Begin(t, m, RankOf(status), local) /\ Still
      BY <1>4 DEF ReceiptEvent, rows, reading
    <2>2. local.m = m
      BY DEF Done
    <2> HIDE DEF local, Told
    <2> QED
      BY <2>1, <2>2, <1>1
  <1>5. ASSUME NEW m \in Msgs, NEW num \in Numbers, Outgoing(t, m, num)
        PROVE  Told(m, 1) /\ Still
    <2> DEFINE local == [Done EXCEPT !.pc = "contact", !.kind = "outgoing", !.m = m,
                                     !.num = num, !.status = "SENT"]
    <2>1. Begin(t, m, 1, local) /\ Still
      BY <1>5 DEF Outgoing, rows, reading
    <2>2. local.m = m
      BY DEF Done
    <2> HIDE DEF local, Told
    <2> QED
      BY <2>1, <2>2, <1>1
  <1>6. ASSUME NEW num \in contacts, NEW kind, ReadRequest(t, num, kind)
        PROVE  Still /\ UNCHANGED <<begun, raced>> /\ \A m \in Msgs : Busy(m)' => Busy(m)
    <2>1. task'[t].m = Nobody /\ \A u \in Tasks \ {t} : task'[u] = task[u]
      BY <1>6, <1>t DEF ReadRequest, Done
    <2> QED
      BY <1>6, <2>1 DEF ReadRequest, Busy, rows, reading, Msgs
  <1>7. 1 \in 0..3
    OBVIOUS
  <1> HIDE DEF Told, Still
  <1>8. \/ Still /\ UNCHANGED <<begun, raced>> /\ \A m \in Msgs : Busy(m)' => Busy(m)
        \/ Still /\ \E m \in Msgs, k \in 0..3 : Told(m, k)
    BY <1>2, <1>3, <1>4, <1>5, <1>6, <1>7, <1>k DEF Starts
  <1> QED
    BY <1>8 DEF Still, Told

\* A handler keeps its message, or is done with it.
LEMMA StepMessage ==
    ASSUME TypeOK, NEW t \in Tasks, Steps(t)
    PROVE  task'[t].m \in {task[t].m, Nobody}
  <1>t. task \in [Tasks -> TaskRecs] /\ Done.m = Nobody
    BY DEF TypeOK, TaskRecs, Done
  <1>1. CASE Resolve(t) \/ ResolveFails(t)
    <2>1. \E num : UseNumber(t, num)
      BY <1>1 DEF Resolve, ResolveFails
    <2> QED
      BY <2>1, <1>t, Fields
  <1>2. CASE Original(t)
    BY <1>2, <1>t DEF Original, TaskRecs
  <1>3. CASE ListUnread(t)
    BY <1>3, <1>t DEF ListUnread, TaskRecs
  <1>4. CASE ~Resolve(t) /\ ~ResolveFails(t) /\ ~Original(t) /\ ~ListUnread(t)
    <2>1. End(t) \/ \E pc : Goto(t, pc)
      BY <1>4 DEF Steps, MapLid, MapLidFails, MergeContact, MergeDelete, MergeRows,
          Conversation, CheckStored, SaveContact, SaveRow, ApplyReceipt,
          MarkRead, MarkReadFails, UpdateRead, Dies
    <2> QED
      BY <2>1, <1>t, Fields
  <1> QED
    BY <1>1, <1>2, <1>3, <1>4

LEMMA RisingStep == IInv /\ Rising /\ [Next]_vars => Rising'
  <1> SUFFICES ASSUME IInv, Rising, [Next]_vars PROVE Rising'
    OBVIOUS
  <1> USE InboxAssumption
  <1>t. /\ TypeOK /\ Staged /\ Carried /\ StatusIsLatest
        /\ begun \in [Msgs -> 0..3] /\ task \in [Tasks -> TaskRecs] /\ msg \in [Msgs -> RowType]
        /\ \A m \in Out : m \in Msgs
    BY DEF IInv, TypeOK, TaskRecs, RowType, Msgs
  <1>1. ASSUME NEW t \in Tasks, Starts(t) PROVE Rising'
    <2>1. \A m \in Msgs : Stored(m)' => Stored(m) /\ msg'[m].status = msg[m].status
      BY <1>1, StartReports, <1>t DEF Stored
    <2>2. CASE UNCHANGED <<begun, raced>> /\ \A m \in Msgs : Busy(m)' => Busy(m)
      BY <2>1, <2>2, <1>t DEF Rising
    <2>3. ASSUME NEW m \in Msgs, NEW k \in 0..3,
                 begun' = [begun EXCEPT ![m] = IF k > @ THEN k ELSE @],
                 raced' = IF Busy(m) \/ k <= begun[m] THEN raced \cup {m} ELSE raced,
                 \A n \in Msgs \ {m} : Busy(n)' => Busy(n)
          PROVE  Rising'
      <3> SUFFICES ASSUME NEW n \in Out \ raced', Stored(n)', Busy(n)'
                   PROVE  \E j \in 1..3 : j < begun'[n] /\ msg'[n].status = StatusOf[j]
        BY DEF Rising
      <3>1. CASE n # m
        BY <3>1, <2>1, <2>3, <1>t DEF Rising
      <3>2. CASE n = m
        <4>1. m \in Out \ raced /\ ~Busy(m) /\ k > begun[m] /\ begun'[m] = k
          BY <3>2, <2>3, <1>t
        <4>2. Stored(m) /\ msg'[m].status = msg[m].status
          BY <3>2, <2>1
        <4>3. begun[m] # 0
          BY <4>1, <4>2, <1>t DEF Carried
        <4>4. msg[m].status = StatusOf[begun[m]]
          BY <4>1, <4>2, <1>t DEF StatusIsLatest
        <4>5. begun[m] \in 1..3 /\ begun[m] < k
          BY <4>1, <4>3, <1>t
        <4> QED
          BY <3>2, <4>1, <4>2, <4>4, <4>5
      <3> QED
        BY <3>1, <3>2
    <2> QED
      BY <1>1, <1>t, <2>2, <2>3, StartReports
  <1>2. ASSUME NEW t \in Tasks, Steps(t) PROVE Rising'
    <2>1. begun' = begun /\ raced \subseteq raced'
      BY <1>2 DEF Steps, MapLid, MapLidFails, MergeContact, MergeDelete, MergeRows, Resolve,
          ResolveFails, UseNumber, Conversation, CheckStored, SaveContact, SaveRow, Original, ApplyReceipt,
          ListUnread, MarkRead, MarkReadFails, UpdateRead, Dies
    <2>2. task'[t].m \in {task[t].m, Nobody}
      BY <1>2, <1>t, StepMessage
    <2>3. \A m \in Msgs : Busy(m)' => Busy(m)
      BY <1>2, <2>2, <1>t, OthersKept DEF Busy, Msgs
    <2>4. CASE SaveRow(t) \/ ApplyReceipt(t)
      <3>1. PICK m0 : m0 = task[t].m
        OBVIOUS
      <3>2. task'[t] = Done /\ \A n \in Msgs \ {m0} : msg'[n] = msg[n]
        BY <2>4, <3>1, <1>t, Fields DEF SaveRow, ApplyReceipt
      <3>3. m0 \in Msgs \ raced => ~Busy(m0)'
        BY <3>1, <3>2, <1>2, <1>t, OthersKept DEF Busy, Carried, Done, Msgs
      <3>4. \A n \in Msgs \ {m0} : Stored(n)' => Stored(n)
        BY <3>2 DEF Stored
      <3> QED
        BY <2>1, <2>3, <3>2, <3>3, <3>4, <1>t DEF Rising
    <2>5. CASE UpdateRead(t)
      <3>1. \A m \in Out : msg'[m] = msg[m]
        BY <2>5, <1>t DEF UpdateRead, Unread
      <3> QED
        BY <2>1, <2>3, <3>1, <1>t DEF Rising, Stored
    <2>6. CASE ~SaveRow(t) /\ ~ApplyReceipt(t) /\ ~UpdateRead(t)
      BY <2>6, <2>1, <2>3, <1>2, <1>t, StatusKept DEF Rising
    <2> QED
      BY <2>4, <2>5, <2>6
  <1>3. CASE Cleanup
    <2>1. UNCHANGED <<task, begun, raced>> /\ \A m \in Msgs : msg'[m] = msg[m] \/ msg'[m] = Absent
      BY <1>3 DEF Cleanup, CleanStart, CleanTruncate, CleanRecord, CleanFails, NextPeriod, rows
    <2> QED
      BY <2>1, <1>t DEF Rising, Stored, Busy
  <1>4. CASE UNCHANGED vars
    BY <1>4 DEF vars, Rising, Stored, Busy
  <1> QED
    BY <1>1, <1>2, <1>3, <1>4 DEF Next, Cleanup

\* A step of a handler is a step of ChatView or invisible to the user.
LEMMA HandlerKept ==
    ASSUME IInv, Rising, NEW t \in Tasks, Steps(t)
    PROVE  View!Next \/ UNCHANGED View!vars
  <1> USE InboxAssumption
  <1>t. /\ TypeOK /\ Staged /\ Carried /\ StagedAt(task[t]) /\ task[t] \in TaskRecs
        /\ begun \in [Msgs -> 0..3] /\ task \in [Tasks -> TaskRecs] /\ msg \in [Msgs -> RowType]
        /\ Absent.num \notin Numbers /\ Absent.status = "none"
        /\ \A m \in Out : m \in Msgs
    BY DEF IInv, TypeOK, TaskRecs, RowType, Msgs, Staged, Absent, Numbers
  <1>b. begun' = begun
    BY DEF Steps, MapLid, MapLidFails, MergeContact, MergeDelete, MergeRows, Resolve,
        ResolveFails, UseNumber, Conversation, CheckStored, SaveContact, SaveRow, Original, ApplyReceipt,
        ListUnread, MarkRead, MarkReadFails, UpdateRead, Dies
  <1>s. ASSUME ~SaveRow(t), ~ApplyReceipt(t), ~UpdateRead(t) PROVE shownOf' = shownOf
    BY <1>s, <1>t, StatusKept DEF shownOf
  \* The handler gives its message up.
  <1>1. ASSUME Resolve(t) \/ ResolveFails(t) \/ Dies(t) PROVE View!Next \/ UNCHANGED View!vars
    <2>1. UNCHANGED <<told, untoldOf>>
      BY <1>1 DEF Resolve, ResolveFails, Dies, reading, untoldOf
    <2>2. shownOf' = shownOf
      BY <1>1 DEF Resolve, ResolveFails, Dies, rows, shownOf
    <2>3. \/ raced' = raced
          \/ task[t].m \in Msgs /\ raced' = raced \cup {task[t].m}
      <3>1. CASE Dies(t)
        BY <3>1, <1>t DEF Dies, TaskRecs
      <3>2. CASE Resolve(t) \/ ResolveFails(t)
        <4>1. task[t].m \in Msgs
          BY <3>2, <1>t DEF Resolve, ResolveFails, StagedAt, TaskRecs
        <4> QED
          BY <3>2, <4>1 DEF Resolve, ResolveFails, UseNumber
      <3> QED
        BY <1>1, <3>1, <3>2
    <2> QED
      BY <2>1, <2>2, <2>3, <1>b, <1>t, Mapping DEF viewed
  <1>2. ASSUME MergeRows(t) PROVE View!Next \/ UNCHANGED View!vars
    <2>1. PICK some \in SUBSET Msgs : overlapped' = overlapped \cup some
      BY <1>2 DEF MergeRows, Overlap, Msgs
    <2>2. UNCHANGED <<told, refused, imported, raced>>
      BY <1>2 DEF MergeRows
    <2>3. shownOf' = shownOf
      BY <1>2, <1>t DEF MergeRows, RowType, shownOf
    <2>4. untoldOf' = untoldOf \cup some
      BY <2>1, <2>2 DEF untoldOf
    <2> QED
      BY <2>2, <2>3, <2>4, <1>b, <1>t, Mapping
  <1>3. ASSUME SaveRow(t) PROVE View!Next
    <2>0. PICK m0 \in Msgs : m0 = task[t].m
      BY <1>3, <1>t DEF SaveRow, StagedAt, TaskRecs
    <2>1. PICK s \in {"SENT", "DELIVERED", "READ"} : s = task[t].status
      BY <1>3, <1>t DEF SaveRow, StagedAt
    <2>2. /\ msg' = [msg EXCEPT ![m0] = [num |-> task[t].num, status |-> s]]
          /\ imported' = IF task[t].kind = "history" THEN imported \cup {m0} ELSE imported
          /\ UNCHANGED <<told, refused, raced>>
      BY <1>3, <2>0, <2>1 DEF SaveRow
    <2>3. PICK some \in SUBSET Msgs : overlapped' = overlapped \cup some
      BY <1>3, <2>0 DEF SaveRow, Overlap, Msgs
    <2>4. shownOf' = [shownOf EXCEPT ![m0] = s]
      BY <2>2, <1>t DEF shownOf
    <2>5. \E more \in SUBSET Msgs : untoldOf' = untoldOf \cup more
      <3>1. untoldOf' = untoldOf \cup (IF task[t].kind = "history" THEN some \cup {m0} ELSE some)
        BY <2>2, <2>3 DEF untoldOf
      <3> QED
        BY <3>1
    <2>6. s = "READ" => m0 \in untoldOf'
      <3>1. s = "READ" => task[t].kind = "history"
        BY <2>1, <1>3, <1>t DEF StagedAt, SaveRow
      <3> QED
        BY <3>1, <2>2 DEF untoldOf
    <2>7. m0 \in raced \/ (shownOf[m0] = "none" /\ begun[m0] > 0 /\ s = StatusOf[begun[m0]])
      <3> SUFFICES ASSUME m0 \notin raced
                   PROVE  shownOf[m0] = "none" /\ begun[m0] > 0 /\ s = StatusOf[begun[m0]]
        OBVIOUS
      <3>1. Busy(m0)
        BY <2>0 DEF Busy
      <3>2. begun[m0] # 0 /\ s = StatusOf[begun[m0]]
        BY <2>0, <2>1, <3>1, <1>t DEF Carried
      <3>3. task[t].kind # "receipt"
        BY <1>3, <1>t DEF SaveRow, StagedAt
      <3>4. msg[m0] = Absent
        BY <2>0, <3>3, <1>t DEF Carried, Stored
      <3> QED
        BY <3>2, <3>4, <1>t DEF shownOf
    <2> QED
      BY <2>2, <2>4, <2>5, <2>6, <2>7, <1>b, <1>t, Mapping
  <1>4. ASSUME ApplyReceipt(t) PROVE View!Next \/ UNCHANGED View!vars
    <2>0. PICK m0 \in Out : m0 = task[t].m
      BY <1>4, <1>t DEF ApplyReceipt, StagedAt
    <2>1. PICK s \in {"SENT", "DELIVERED", "READ"} : s = task[t].status
      BY <1>4, <1>t DEF ApplyReceipt, StagedAt
    <2>2. /\ msg' = IF Stored(m0) THEN [msg EXCEPT ![m0].status = s] ELSE msg
          /\ UNCHANGED <<told, refused, overlapped, imported, raced>>
      BY <1>4, <2>0, <2>1 DEF ApplyReceipt, reading
    <2>3. UNCHANGED <<told, untoldOf, raced>>
      BY <2>2 DEF untoldOf
    <2>4. CASE ~Stored(m0)
      <3>1. shownOf' = shownOf
        BY <2>2, <2>4 DEF shownOf
      <3> QED
        BY <2>3, <3>1, <1>b, <1>t, Mapping DEF viewed
    <2>5. CASE Stored(m0)
      <3>1. shownOf' = [shownOf EXCEPT ![m0] = s]
        <4>1. [msg[m0] EXCEPT !.status = s].status = s
          BY <2>5, <1>t DEF RowType, Stored
        <4> QED
          BY <2>2, <2>5, <4>1, <1>t DEF shownOf
      <3>2. CASE m0 \in raced
        <4>1. m0 \notin In /\ m0 \in Msgs /\ untoldOf' = untoldOf \cup {}
          BY <2>3 DEF Msgs
        <4> QED
          BY <2>3, <3>1, <3>2, <4>1, <1>b, <1>t, Mapping
      <3>3. CASE m0 \notin raced
        <4>1. Busy(m0) /\ m0 \in Msgs
          BY <2>0 DEF Busy, Msgs
        <4>2. s = StatusOf[begun[m0]]
          BY <2>0, <2>1, <3>3, <4>1, <1>t DEF Carried
        <4>3. PICK k \in 1..3 : k < begun[m0] /\ msg[m0].status = StatusOf[k]
          BY <2>5, <3>3, <4>1 DEF Rising
        <4>4. shownOf[m0] = StatusOf[k]
          BY <4>1, <4>3 DEF shownOf
        <4> QED
          BY <2>3, <3>1, <4>2, <4>3, <4>4, <1>b, <1>t, Mapping
      <3> QED
        BY <3>2, <3>3
    <2> QED
      BY <2>4, <2>5
  <1>5. ASSUME MarkRead(t) \/ MarkReadFails(t) PROVE View!Next \/ UNCHANGED View!vars
    <2>1. task[t].seen \in SUBSET In /\ task[t].seen \in SUBSET Msgs
      BY <1>t DEF TaskRecs, Msgs
    <2>2. UNCHANGED <<overlapped, imported, raced>>
      BY <1>5 DEF MarkRead, MarkReadFails
    <2>3. shownOf' = shownOf
      BY <1>5 DEF MarkRead, MarkReadFails, rows, shownOf
    <2>4. \/ told' = told \cup task[t].seen /\ refused' = refused
          \/ refused' = refused \cup task[t].seen /\ told' = told
          \/ UNCHANGED <<told, refused>>
      BY <1>5 DEF MarkRead, MarkReadFails
    <2>5. CASE told' = told \cup task[t].seen /\ refused' = refused
      <3>1. untoldOf' = untoldOf
        BY <2>2, <2>5 DEF untoldOf
      <3> QED
        BY <2>1, <2>2, <2>3, <2>5, <3>1, <1>b, <1>t, Mapping
    <2>6. CASE refused' = refused \cup task[t].seen /\ told' = told
      <3>1. untoldOf' = untoldOf \cup task[t].seen
        BY <2>2, <2>6 DEF untoldOf
      <3> QED
        BY <2>1, <2>2, <2>3, <2>6, <3>1, <1>b, <1>t, Mapping
    <2>7. CASE UNCHANGED <<told, refused>>
      BY <2>2, <2>3, <2>7, <1>b, <1>t, Mapping DEF viewed, untoldOf
    <2> QED
      BY <2>4, <2>5, <2>6, <2>7
  <1>6. ASSUME UpdateRead(t) PROVE View!Next
    <2>1. PICK some \in SUBSET In : some = Unread(task[t].num)
      BY DEF Unread
    <2>2. /\ msg' = [m \in Msgs |-> IF m \in some THEN [msg[m] EXCEPT !.status = "READ"] ELSE msg[m]]
          /\ UNCHANGED <<told, refused, overlapped, imported, raced>>
      BY <1>6, <2>1 DEF UpdateRead, reading
    <2>3. \A m \in some : m \in Msgs /\ msg[m] # Absent /\ m \in told \cup untoldOf
      <3> SUFFICES ASSUME NEW m \in some
                   PROVE  m \in Msgs /\ msg[m] # Absent /\ m \in told \cup untoldOf
        OBVIOUS
      <3>1. m \in In /\ msg[m].num = task[t].num /\ msg[m].status # "READ"
        BY <2>1 DEF Unread
      <3>2. task[t].pc = "update" /\ task[t].num \in Numbers
        BY <1>6, <1>t DEF UpdateRead, StagedAt
      <3>3. m \in told \cup refused \cup overlapped
        BY <3>1, <3>2 DEF IInv, ListKnown
      <3> QED
        BY <3>1, <3>2, <3>3, <1>t DEF untoldOf, Msgs
    <2>4. shownOf' = [m \in Msgs |-> IF m \in some THEN "READ" ELSE shownOf[m]]
      <3>1. \A m \in some : [msg[m] EXCEPT !.status = "READ"].status = "READ"
        BY <2>3, <1>t DEF RowType
      <3> QED
        BY <2>2, <3>1 DEF shownOf
    <2>5. \A m \in some : shownOf[m] # "none"
      BY <2>3, <1>t DEF shownOf, RowType
    <2>6. UNCHANGED <<told, untoldOf, raced>>
      BY <2>2 DEF untoldOf
    <2>7. some \subseteq told \cup untoldOf
      BY <2>3
    <2> QED
      BY <2>4, <2>5, <2>6, <2>7, <1>b, <1>t, Mapping
  <1>7. ASSUME ~Resolve(t), ~ResolveFails(t), ~Dies(t), ~MergeRows(t), ~SaveRow(t), ~ApplyReceipt(t),
               ~MarkRead(t), ~MarkReadFails(t), ~UpdateRead(t)
        PROVE  UNCHANGED View!vars
    <2>1. UNCHANGED <<told, refused, overlapped, imported, raced>>
      BY <1>7 DEF Steps, MapLid, MapLidFails, MergeContact, MergeDelete, Conversation, CheckStored,
          SaveContact, Original, ListUnread, reading
    <2> QED
      BY <2>1, <1>s, <1>7, <1>b, <1>t, Mapping DEF viewed, untoldOf
  <1> QED
    BY <1>1, <1>2, <1>3, <1>4, <1>5, <1>6, <1>7

\* So is every step.
LEMMA StepKept == IInv /\ Rising /\ [Next]_vars => [View!Next]_(View!vars)
  <1> SUFFICES ASSUME IInv, Rising, [Next]_vars PROVE View!Next \/ UNCHANGED View!vars
    OBVIOUS
  <1>t. TypeOK /\ begun \in [Msgs -> 0..3]
    BY DEF IInv, TypeOK
  <1>1. ASSUME NEW t \in Tasks, Starts(t) PROVE View!Next \/ UNCHANGED View!vars
    <2>1. UNCHANGED <<shownOf, told, untoldOf>>
      BY <1>1, <1>t, StartReports DEF shownOf, untoldOf
    <2>2. CASE UNCHANGED <<begun, raced>>
      BY <2>1, <2>2, <1>t, Mapping DEF viewed
    <2>3. ASSUME NEW m \in Msgs, NEW k \in 0..3,
                 begun' = [begun EXCEPT ![m] = IF k > @ THEN k ELSE @],
                 raced' = IF Busy(m) \/ k <= begun[m] THEN raced \cup {m} ELSE raced
          PROVE  View!Next
      <3>1. raced' \in {raced, raced \cup {m}} /\ (k <= begun[m] => m \in raced')
        BY <2>3
      <3> QED
        BY <2>1, <2>3, <3>1, <1>t, Mapping
    <2> QED
      BY <1>1, <2>2, <2>3, <1>t, StartReports
  <1>2. ASSUME Cleanup PROVE View!Next \/ UNCHANGED View!vars
    <2>1. UNCHANGED <<begun, told, refused, overlapped, imported, raced>>
          /\ (msg' = msg \/ msg' = [m \in Msgs |-> Absent])
      BY <1>2 DEF Cleanup, CleanStart, CleanTruncate, CleanRecord, CleanFails, NextPeriod, rows, reading
    <2>2. untoldOf' = untoldOf
      BY <2>1 DEF untoldOf
    <2>3. CASE msg' = msg
      BY <2>1, <2>2, <2>3, <1>t, Mapping DEF viewed, shownOf
    <2>4. CASE msg' = [m \in Msgs |-> Absent]
      <3>1. shownOf' = [m \in Msgs |-> "none"]
        BY <2>4 DEF shownOf, Absent
      <3> QED
        BY <2>1, <2>2, <3>1, <1>t, Mapping
    <2> QED
      BY <2>1, <2>3, <2>4
  <1>3. CASE UNCHANGED vars
    BY <1>3, <1>t, Mapping DEF vars, viewed, shownOf, untoldOf
  <1> QED
    BY <1>1, <1>2, <1>3, HandlerKept DEF Next, Cleanup

LEMMA InitKept == Init => View!Init /\ Rising
  <1> SUFFICES ASSUME Init PROVE View!Init /\ Rising
    OBVIOUS
  <1>1. View!Init
    BY DEF Init, View!Init, View!All, Msgs, Absent
  <1>2. Rising
    BY DEF Init, Rising, Stored, Msgs
  <1> QED
    BY <1>1, <1>2

\* The inbox implements what its user is promised (webhooks/whatsapp/route.ts:
\* 89-147, 1262-1373, chat/read/route.ts:32-63): a message appears with the
\* status last reported, the status of a sent message never goes back unless
\* its own events raced, and a received one is shown as read only if its sender
\* was told or one of the named accidents happened.
THEOREM ShowsTheLatestAlways == Spec => ShowsTheLatest
  <1>1. IInv /\ Rising /\ [Next]_vars => Rising'
    BY RisingStep
  <1> QED
    BY <1>1, InitKept, StepKept, Invariance, PTL DEF Spec, ShowsTheLatest, View!Spec
=============================================================================
