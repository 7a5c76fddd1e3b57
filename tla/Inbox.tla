-------------------------------- MODULE Inbox --------------------------------
(***************************************************************************)
(* The inbox of one WhatsApp instance of the portal: the InboxMessage and  *)
(* ChatContact rows of one conversation, written by the webhook            *)
(* (api/webhooks/whatsapp), the inbox itself (api/chat/send, api/chat/read), *)
(* the chatbot, the import of the history and the periodic cleanup         *)
(* (api/internal/message-cleanup).                                         *)
(*                                                                         *)
(* The other party is known by two numbers: the phone number "pn" and the  *)
(* hidden "lid". A message that names both teaches the mapping, and the     *)
(* conversation stored under the lid is merged into the one of the number.  *)
(* Nothing is done in a transaction: the handlers interleave at every await. *)
(* Names, texts and the MessageLog, which is written alongside, are left   *)
(* out.                                                                    *)
(***************************************************************************)
EXTENDS Integers, FiniteSets

CONSTANTS
    Tasks,      \* handlers that may be in progress
    In, Out,    \* messages of the other party, and of the owner
    Nobody,     \* the message of a handler that concerns none
    MaxTasks,   \* bound: handlers started
    MaxFaults,  \* bound: failures of the database or engine, deaths of handlers
    MaxPeriods  \* bound: times a cleanup becomes due

ASSUME InboxAssumption ==
    /\ In \cap Out = {} /\ Nobody \notin In \cup Out
    /\ MaxTasks \in Nat /\ MaxFaults \in Nat /\ MaxPeriods \in Nat

VARIABLES
    msg,        \* the InboxMessage row of every message
    contacts,   \* the numbers with a ChatContact row
    mapped,     \* whatsmeow_lid_map has the row lid -> pn
    task,       \* the local state of every handler
    due,        \* five days have passed since MaintenanceState.lastRunAt
    cleaner,    \* where the cleanup stands; its database lock admits one
    (* observers: they never guard a step of the program *)
    started,    \* handlers started
    faults,
    begun,      \* rank of the latest status of a message any handler carries
    raced,      \* messages whose handlers overlapped, failed, or came twice or
                \* out of order
    told,       \* messages the other party was told were read
    refused,    \* messages in a read receipt the engine did not send
    overlapped, \* messages written while a read request was past its list
    imported,   \* messages the history brought in as read
    straddled,  \* something was, or may be, stored under the lid after the mapping
    cleans,     \* truncations since the cleanup became due
    periods

vars == <<msg, contacts, mapped, task, due, cleaner, started, faults, begun, raced,
          told, refused, overlapped, imported, straddled, cleans, periods>>

rows     == <<msg, contacts, mapped>>
cleaning == <<due, cleaner, cleans, periods>>
reading  == <<told, refused, overlapped, imported>>

Msgs     == In \cup Out
Numbers  == {"lid", "pn"}
Absent   == [num |-> "none", status |-> "none"]
StatusOf == <<"SENT", "DELIVERED", "READ">>
RankOf(status) == CHOOSE k \in 1..3 : StatusOf[k] = status

Done == [pc |-> "idle", kind |-> "none", m |-> Nobody, addr |-> "pn", num |-> "none",
         status |-> "none", seen |-> {}]

Merging == {"mergeContact", "mergeDelete", "mergeRows"}
Stages  == {"idle", "map", "resolve", "original", "apply", "conversation", "check",
            "contact", "row", "list", "mark", "update"} \cup Merging
Kinds   == {"none", "message", "receipt", "outgoing", "history", "read", "sendRead"}

TypeOK ==
    /\ msg \in [Msgs -> {Absent} \cup [num : Numbers, status : {"SENT", "DELIVERED", "READ"}]]
    /\ contacts \subseteq Numbers
    /\ mapped \in BOOLEAN
    /\ task \in [Tasks -> [pc : Stages, kind : Kinds, m : Msgs \cup {Nobody}, addr : Numbers,
                           num : Numbers \cup {"none"},
                           status : {"none", "SENT", "DELIVERED", "READ"}, seen : SUBSET In]]
    /\ due \in BOOLEAN /\ cleaner \in {"idle", "due", "truncated"}
    /\ started \in 0..MaxTasks /\ faults \in 0..MaxFaults
    /\ begun \in [Msgs -> 0..3] /\ raced \subseteq Msgs
    /\ told \subseteq In /\ refused \subseteq In /\ overlapped \subseteq In
    /\ imported \subseteq Msgs
    /\ straddled \in BOOLEAN /\ cleans \in Nat /\ periods \in 0..MaxPeriods

Init ==
    /\ msg = [m \in Msgs |-> Absent]
    /\ contacts = {} /\ mapped = FALSE
    /\ task = [t \in Tasks |-> Done]
    /\ due = TRUE /\ cleaner = "idle"
    /\ started = 0 /\ faults = 0
    /\ begun = [m \in Msgs |-> 0]
    /\ raced = {} /\ told = {} /\ refused = {} /\ overlapped = {} /\ imported = {}
    /\ straddled = FALSE /\ cleans = 0 /\ periods = 0

-----------------------------------------------------------------------------
(* Helpers *)

Stored(m)  == msg[m] # Absent
Busy(m)    == \E t \in Tasks : task[t].m = m
Goto(t, pc) == task' = [task EXCEPT ![t].pc = pc]
End(t)     == task' = [task EXCEPT ![t] = Done]
Fault      == faults < MaxFaults /\ faults' = faults + 1

\* Handlers that are about to store something under the lid.
LidHolder(t) == task[t].num = "lid" /\ task[t].pc \in {"contact", "row"}
Readers == {t \in Tasks : task[t].pc \in {"mark", "update"}}

\* A handler starts; it carries the status of rank k of message m.
Begin(t, m, k, local) ==
    /\ task[t].pc = "idle" /\ started < MaxTasks
    /\ started' = started + 1
    /\ task' = [task EXCEPT ![t] = local]
    /\ begun' = [begun EXCEPT ![m] = IF k > @ THEN k ELSE @]
    /\ raced' = IF Busy(m) \/ k <= begun[m] THEN raced \cup {m} ELSE raced

Overlap(written) ==
    overlapped' = IF Readers = {} THEN overlapped ELSE overlapped \cup (written \cap In)

-----------------------------------------------------------------------------
(* The starts *)

\* A Message event; `pair` says that its payload names both numbers.
MessageEvent(t, m, addr, pair) ==
    /\ Begin(t, m, 1, [Done EXCEPT !.pc = IF pair THEN "map" ELSE "resolve",
                                   !.kind = "message", !.m = m, !.addr = addr,
                                   !.status = "SENT"])
    /\ UNCHANGED <<rows, cleaning, reading, faults, straddled>>

\* A Receipt event of a message that was sent.
ReceiptEvent(t, m, addr, pair, status) ==
    /\ m \in Out
    /\ Begin(t, m, RankOf(status),
             [Done EXCEPT !.pc = IF pair THEN "map"
                                 ELSE IF addr = "lid" THEN "original" ELSE "apply",
                          !.kind = "receipt", !.m = m, !.addr = addr, !.status = status])
    /\ UNCHANGED <<rows, cleaning, reading, faults, straddled>>

\* A message of the portal was sent and is stored: one the user wrote in a
\* conversation, or a reply of the chatbot, which goes to the number of the
\* incoming address without resolving it.
Outgoing(t, m, num) ==
    /\ m \in Out /\ begun[m] = 0
    /\ Begin(t, m, 1, [Done EXCEPT !.pc = "contact", !.kind = "outgoing", !.m = m,
                                   !.num = num, !.status = "SENT"])
    /\ straddled' = (straddled \/ (mapped /\ num = "lid"))
    /\ UNCHANGED <<rows, cleaning, reading, faults>>

\* A message of a HistorySync event.
HistoryMessage(t, m, addr, pair) ==
    /\ Begin(t, m, IF begun[m] = 0 THEN 3 ELSE 0,
             [Done EXCEPT !.pc = IF pair THEN "map" ELSE "resolve",
                          !.kind = "history", !.m = m, !.addr = addr, !.status = "READ"])
    /\ UNCHANGED <<rows, cleaning, reading, faults, straddled>>

\* The user opens the conversation, or sends in it, which reads it as well.
ReadRequest(t, num, kind) ==
    /\ task[t].pc = "idle" /\ started < MaxTasks
    /\ started' = started + 1
    /\ task' = [task EXCEPT ![t] = [Done EXCEPT !.pc = "list", !.kind = kind, !.num = num]]
    /\ UNCHANGED <<rows, cleaning, reading, faults, begun, raced, straddled>>

-----------------------------------------------------------------------------
(* rememberLidPnMapping and mergeLidConversation *)

\* The mapping is stored. A conversation that is being stored under the lid
\* at this moment escapes the merge; if there is none, this merge is complete.
MapLid(t) ==
    /\ task[t].pc = "map"
    /\ mapped' = TRUE
    /\ straddled' = \E u \in Tasks : LidHolder(u)
    /\ Goto(t, "mergeContact")
    /\ UNCHANGED <<msg, contacts, cleaning, reading, started, faults, begun, raced>>

\* The error is logged, and the merge goes on.
MapLidFails(t) ==
    /\ task[t].pc = "map" /\ Fault
    /\ straddled' = TRUE
    /\ Goto(t, "mergeContact")
    /\ UNCHANGED <<rows, cleaning, reading, started, begun, raced>>

MergeContact(t) ==
    /\ task[t].pc = "mergeContact"
    /\ contacts' = contacts \cup {"pn"}
    /\ Goto(t, "mergeDelete")
    /\ UNCHANGED <<msg, mapped, cleaning, reading, started, faults, begun, raced, straddled>>

MergeDelete(t) ==
    /\ task[t].pc = "mergeDelete"
    /\ contacts' = contacts \ {"lid"}
    /\ Goto(t, "mergeRows")
    /\ UNCHANGED <<msg, mapped, cleaning, reading, started, faults, begun, raced, straddled>>

\* What a handler does after the mappings of its payload.
AfterMap(t) ==
    IF task[t].kind # "receipt" THEN "resolve"
    ELSE IF task[t].addr = "lid" THEN "original" ELSE "apply"

\* Slip: the rows are rewritten with the default status.
MergeRowsAnew(t) ==
    /\ task[t].pc = "mergeRows"
    /\ msg' = [m \in Msgs |-> IF msg[m].num = "lid"
                              THEN [num |-> "pn", status |-> "SENT"] ELSE msg[m]]
    /\ Overlap({m \in Msgs : msg[m].num = "lid"})
    /\ Goto(t, AfterMap(t))
    /\ UNCHANGED <<contacts, mapped, cleaning, told, refused, imported, started, faults,
                   begun, raced, straddled>>

\* Slip: only the messages received are renumbered.
MergeReceived(t) ==
    /\ task[t].pc = "mergeRows"
    /\ msg' = [m \in Msgs |-> IF msg[m].num = "lid" /\ m \in In
                              THEN [msg[m] EXCEPT !.num = "pn"] ELSE msg[m]]
    /\ Overlap({m \in Msgs : msg[m].num = "lid"})
    /\ Goto(t, AfterMap(t))
    /\ UNCHANGED <<contacts, mapped, cleaning, told, refused, imported, started, faults,
                   begun, raced, straddled>>

MergeRows(t) ==
    /\ task[t].pc = "mergeRows"
    /\ msg' = [m \in Msgs |-> IF msg[m].num = "lid"
                              THEN [msg[m] EXCEPT !.num = "pn"] ELSE msg[m]]
    /\ Overlap({m \in Msgs : msg[m].num = "lid"})
    /\ Goto(t, AfterMap(t))
    /\ UNCHANGED <<contacts, mapped, cleaning, told, refused, imported, started, faults,
                   begun, raced, straddled>>

-----------------------------------------------------------------------------
(* resolveLidToPn and saveInboxMessage *)

\* An unresolved lid is used as it is, but a history message is skipped.
UseNumber(t, num) ==
    IF task[t].kind = "history" /\ num = "lid"
    THEN /\ End(t)
         /\ raced' = raced \cup {task[t].m}
    ELSE /\ task' = [task EXCEPT ![t].num = num,
                                 ![t].pc = IF task[t].kind = "history"
                                           THEN "conversation" ELSE "contact"]
         /\ UNCHANGED raced

Resolve(t) ==
    /\ task[t].pc = "resolve"
    /\ UseNumber(t, IF task[t].addr = "lid" /\ ~mapped THEN "lid" ELSE "pn")
    /\ UNCHANGED <<rows, cleaning, reading, started, faults, begun, straddled>>

\* The query fails: as if there were no mapping.
ResolveFails(t) ==
    /\ task[t].pc = "resolve" /\ task[t].addr = "lid" /\ Fault
    /\ UseNumber(t, "lid")
    /\ straddled' = (straddled \/ mapped)
    /\ UNCHANGED <<rows, cleaning, reading, started, begun>>

\* The history upserts the contact of a conversation before its messages.
Conversation(t) ==
    /\ task[t].pc = "conversation"
    /\ contacts' = contacts \cup {task[t].num}
    /\ Goto(t, "check")
    /\ UNCHANGED <<msg, mapped, cleaning, reading, started, faults, begun, raced, straddled>>

\* It skips a message that is stored.
CheckStored(t) ==
    /\ task[t].pc = "check"
    /\ IF Stored(task[t].m) THEN End(t) ELSE Goto(t, "contact")
    /\ UNCHANGED <<rows, cleaning, reading, started, faults, begun, raced, straddled>>

SaveContact(t) ==
    /\ task[t].pc = "contact"
    /\ contacts' = contacts \cup {task[t].num}
    /\ Goto(t, "row")
    /\ UNCHANGED <<msg, mapped, cleaning, reading, started, faults, begun, raced, straddled>>

\* The upsert writes the number and the status, also of a row that exists.
SaveRow(t) ==
    LET m == task[t].m IN
    /\ task[t].pc = "row"
    /\ msg' = [msg EXCEPT ![m] = [num |-> task[t].num, status |-> task[t].status]]
    /\ imported' = IF task[t].kind = "history" THEN imported \cup {m} ELSE imported
    /\ Overlap({m})
    /\ End(t)
    /\ UNCHANGED <<contacts, mapped, cleaning, told, refused, started, faults, begun,
                   raced, straddled>>

-----------------------------------------------------------------------------
(* Receipt events *)

\* A receipt of a lid chat: a message stored under a phone number teaches the
\* mapping, and is the reason for a merge.
Original(t) ==
    /\ task[t].pc = "original"
    /\ task' = IF msg[task[t].m].num = "pn"
               THEN [task EXCEPT ![t].pc = "map", ![t].addr = "pn"]
               ELSE [task EXCEPT ![t].pc = "apply"]
    /\ UNCHANGED <<rows, cleaning, reading, started, faults, begun, raced, straddled>>

\* Slip: the receipt does not touch a message that is delivered already.
ApplyOnce(t) ==
    LET m == task[t].m IN
    /\ task[t].pc = "apply"
    /\ msg' = IF Stored(m) /\ msg[m].status # "DELIVERED"
              THEN [msg EXCEPT ![m].status = task[t].status] ELSE msg
    /\ End(t)
    /\ UNCHANGED <<contacts, mapped, cleaning, reading, started, faults, begun, raced, straddled>>

\* updateMany by id: a message that is not stored yet loses the receipt.
ApplyReceipt(t) ==
    LET m == task[t].m IN
    /\ task[t].pc = "apply"
    /\ msg' = IF Stored(m) THEN [msg EXCEPT ![m].status = task[t].status] ELSE msg
    /\ End(t)
    /\ UNCHANGED <<contacts, mapped, cleaning, reading, started, faults, begun, raced, straddled>>

-----------------------------------------------------------------------------
(* Reading a conversation *)

Unread(num) == {m \in In : msg[m].num = num /\ msg[m].status # "READ"}

\* Slip: one unread message is taken for the list.
ListOne(t) ==
    /\ task[t].pc = "list"
    /\ \E some \in SUBSET Unread(task[t].num) :
          /\ Cardinality(some) <= 1
          /\ task' = [task EXCEPT ![t].pc = "mark", ![t].seen = some]
    /\ UNCHANGED <<rows, cleaning, reading, started, faults, begun, raced, straddled>>

ListUnread(t) ==
    /\ task[t].pc = "list"
    /\ task' = [task EXCEPT ![t].pc = "mark", ![t].seen = Unread(task[t].num)]
    /\ UNCHANGED <<rows, cleaning, reading, started, faults, begun, raced, straddled>>

\* The engine sends the receipts of the list; an empty list needs no call.
MarkRead(t) ==
    /\ task[t].pc = "mark"
    /\ told' = told \cup task[t].seen
    /\ Goto(t, "update")
    /\ UNCHANGED <<rows, cleaning, refused, overlapped, imported, started, faults, begun,
                   raced, straddled>>

\* The call fails: /chat/read goes on, the request that sends gives up.
MarkReadFails(t) ==
    /\ task[t].pc = "mark" /\ task[t].seen # {} /\ Fault
    /\ IF task[t].kind = "read"
       THEN /\ refused' = refused \cup task[t].seen
            /\ Goto(t, "update")
       ELSE End(t) /\ UNCHANGED refused
    /\ UNCHANGED <<rows, cleaning, told, overlapped, imported, started, begun, raced, straddled>>

\* Slip: the update does not ask for the direction of a message.
UpdateReadBoth(t) ==
    /\ task[t].pc = "update"
    /\ msg' = [m \in Msgs |-> IF msg[m].num = task[t].num
                              THEN [msg[m] EXCEPT !.status = "READ"] ELSE msg[m]]
    /\ End(t)
    /\ UNCHANGED <<contacts, mapped, cleaning, reading, started, faults, begun, raced, straddled>>

\* The update selects anew what is unread.
UpdateRead(t) ==
    /\ task[t].pc = "update"
    /\ msg' = [m \in Msgs |-> IF m \in Unread(task[t].num)
                              THEN [msg[m] EXCEPT !.status = "READ"] ELSE msg[m]]
    /\ End(t)
    /\ UNCHANGED <<contacts, mapped, cleaning, reading, started, faults, begun, raced, straddled>>

-----------------------------------------------------------------------------
(* The cleanup, and what fails *)

\* Slip: the cleanup does not ask when it ran last.
CleanStartUnasked ==
    /\ cleaner = "idle" /\ cleans < 3
    /\ cleaner' = "due"
    /\ UNCHANGED <<rows, reading, task, due, started, faults, begun, raced, straddled, cleans, periods>>

\* GET_LOCK, and five days have passed since the last run.
CleanStart ==
    /\ cleaner = "idle" /\ due
    /\ cleaner' = "due"
    /\ UNCHANGED <<rows, reading, task, due, started, faults, begun, raced, straddled, cleans, periods>>

CleanTruncate ==
    /\ cleaner = "due"
    /\ msg' = [m \in Msgs |-> Absent]
    /\ cleans' = cleans + 1
    /\ cleaner' = "truncated"
    /\ UNCHANGED <<contacts, mapped, reading, task, due, started, faults, begun, raced,
                   straddled, periods>>

\* The run is recorded and the lock released.
CleanRecord ==
    /\ cleaner = "truncated"
    /\ cleaner' = "idle" /\ due' = FALSE
    /\ UNCHANGED <<rows, reading, task, started, faults, begun, raced, straddled, cleans, periods>>

\* A query of the cleanup fails or its process dies: the lock is released.
CleanFails ==
    /\ cleaner # "idle" /\ Fault
    /\ cleaner' = "idle"
    /\ UNCHANGED <<rows, reading, task, due, started, begun, raced, straddled, cleans, periods>>

NextPeriod ==
    /\ ~due /\ cleaner = "idle" /\ periods < MaxPeriods
    /\ due' = TRUE /\ cleans' = 0 /\ periods' = periods + 1
    /\ UNCHANGED <<rows, reading, task, cleaner, started, faults, begun, raced, straddled>>

\* A handler ends in the middle: a query throws or its process dies.
Dies(t) ==
    /\ task[t].pc # "idle" /\ Fault
    /\ raced' = raced \cup ({task[t].m} \ {Nobody})
    /\ straddled' = (straddled \/ task[t].pc \in Merging)
    /\ End(t)
    /\ UNCHANGED <<rows, cleaning, reading, started, begun>>

Starts(t) ==
    \/ \E m \in Msgs, addr \in Numbers, pair \in BOOLEAN :
          \/ MessageEvent(t, m, addr, pair) \/ HistoryMessage(t, m, addr, pair)
          \/ \E status \in {"DELIVERED", "READ"} : ReceiptEvent(t, m, addr, pair, status)
    \/ \E m \in Msgs, num \in Numbers : Outgoing(t, m, num)
    \/ \E num \in contacts, kind \in {"read", "sendRead"} : ReadRequest(t, num, kind)

Steps(t) ==
    \/ MapLid(t) \/ MapLidFails(t) \/ MergeContact(t) \/ MergeDelete(t) \/ MergeRows(t)
    \/ Resolve(t) \/ ResolveFails(t) \/ Conversation(t) \/ CheckStored(t)
    \/ SaveContact(t) \/ SaveRow(t) \/ Original(t) \/ ApplyReceipt(t)
    \/ ListUnread(t) \/ MarkRead(t) \/ MarkReadFails(t) \/ UpdateRead(t) \/ Dies(t)

Next ==
    \/ \E t \in Tasks : Starts(t) \/ Steps(t)
    \/ CleanStart \/ CleanTruncate \/ CleanRecord \/ CleanFails \/ NextPeriod

Spec == Init /\ [][Next]_vars

-----------------------------------------------------------------------------
(* Properties *)

\* The status shown for a sent message is the last one reported
\* (route.ts:1327-1373, inbox-store.ts:117-133): only events of the message
\* that overlap, fail, or come twice or out of order make it wrong.
StatusIsLatest ==
    \A m \in Out \ raced :
        Stored(m) /\ ~Busy(m) => msg[m].status = StatusOf[begun[m]]

\* A received message shown as read was reported read to its sender
\* (chat/read/route.ts:32-63), or the engine refused the report, or it was
\* written while a read request was past its list, or came with the history.
ReadMeansTold ==
    \A m \in In : msg[m].status = "READ" => m \in told \cup refused \cup overlapped \cup imported

\* A message read by the user does not become unread again, unless its event
\* comes twice (inbox-store.ts:129-133); a merge, in particular, keeps it read.
ReadStays ==
    [][\A m \in In : msg[m].status = "READ" /\ msg'[m] # Absent /\ m \notin raced'
                        => msg'[m].status = "READ"]_vars

Quiet == \A t \in Tasks : task[t].pc \notin Merging

\* Once the mapping is known nothing stays under the lid (route.ts:89-147),
\* unless it was stored by a handler that had the lid in hand when the mapping
\* came, by a reply of the chatbot (route.ts:745, 1210), or after a failure;
\* and the next complete merge brings that home.
NothingUnderLid ==
    mapped /\ Quiet /\ ~straddled =>
        /\ "lid" \notin contacts
        /\ \A m \in Msgs : msg[m].num # "lid"

\* Every message belongs to a contact: the merge may leave one without only
\* when a handler straddles it (route.ts:124-142).
MessageHasContact ==
    Quiet /\ ~straddled => \A m \in Msgs : Stored(m) => msg[m].num \in contacts

\* The merge of the conversation (route.ts:89-147) leaves nothing under the lid
\* and no message without its contact.
LidIsMerged == NothingUnderLid /\ MessageHasContact

\* The messages are deleted once in five days, and once more for every run
\* that failed before it was recorded (message-cleanup/route.ts:82-89).
CleanedOnce == cleans <= 1 + faults

-----------------------------------------------------------------------------
(* The refinement *)

\* What the user sees of the conversation (module ChatView): the status of the
\* stored messages, whichever number they are stored under.
View == INSTANCE ChatView WITH
    shown  <- [m \in Msgs |-> msg[m].status],
    latest <- begun,
    told   <- told,
    untold <- refused \cup overlapped \cup imported,
    astray <- raced

\* The handlers of the webhook, the inbox and the cleanup (route.ts:89-147,
\* 1262-1373, chat/read/route.ts:32-63) keep the promise of ChatView, however
\* they interleave: a step of one of them shows the user a new message with its
\* latest status, raises the status of a sent one, reads received ones that are
\* accounted for, or shows no change; only a message whose own events raced may
\* have its status go back.
ShowsTheLatest == View!Spec
=============================================================================
