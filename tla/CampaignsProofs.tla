-------------------------- MODULE CampaignsProofs --------------------------
(***************************************************************************)
(* Proofs about Campaigns, for every set of campaigns, recipients, loops   *)
(* and requests and every number of restarts.                              *)
(***************************************************************************)
EXTENDS Campaigns, FiniteSetTheorems, TLAPS

\* A loop between the choice of a recipient and its last record of it.
Busy == {"reserve", "send", "resend", "recordSent", "log", "recordFailed",
         "recordQuota", "pauseQuota"}
Loaded == Busy \cup {"mark", "check"}

\* A loop works for a campaign that was created; it has a current recipient
\* exactly when it is busy with one.
LoopKnown(l) ==
    /\ loop[l].pc = "idle" => loop[l] = IdleLoop
    /\ loop[l].pc # "idle" => loop[l].camp \in Camps /\ status[loop[l].camp] # "none"
    /\ loop[l].pc \in Busy => loop[l].cur \in Rcpts
    /\ loop[l].pc \notin Busy => loop[l].cur = Nil

\* The recipients still PENDING are those the loop has in hand: it may report
\* COMPLETED when it has none left.
WorkInHand(l) ==
    /\ loop[l].pc \in Loaded =>
          Pending(loop[l].camp) \subseteq loop[l].todo \cup {loop[l].cur}
    /\ loop[l].pc \in {"log", "pauseQuota"} =>
          row[loop[l].camp][loop[l].cur] # "PENDING"

\* Every message after the campaign stopped went to one recipient, the current
\* one while the loop is busy.
LateOnce(l) ==
    /\ loop[l].pc \in Busy => loop[l].late \subseteq {loop[l].cur}
    /\ loop[l].pc \in {"load", "mark"} => loop[l].late = {}
    /\ \A x, y \in loop[l].late : x = y

\* A request past its insert works for a campaign that was created.
ReqKnown(q) ==
    req[q].pc \notin {"idle", "insert"} =>
        req[q].camp \in Camps /\ status[req[q].camp] # "none"

LoopInv == \A l \in Loops : LoopKnown(l) /\ WorkInHand(l) /\ LateOnce(l)
ReqInv == \A q \in Reqs : ReqKnown(q)

IInv == TypeOK /\ LoopInv /\ ReqInv /\ CompletedMeansAllAttempted

-----------------------------------------------------------------------------
(* Types *)

LEMMA InitType == Init => TypeOK
  <1> USE CampaignsAssumption
  <1>1. IdleLoop \in LoopStates /\ IdleReq \in ReqStates
    BY DEF IdleLoop, IdleReq, LoopStates, ReqStates, LoopPcs
  <1> QED
    BY <1>1 DEF Init, TypeOK, Statuses, Active

\* A step of a loop changes that loop's state only, within its type.
LEMMA LoopStepType ==
    ASSUME TypeOK, NEW l \in Loops, LoopStep(l)
    PROVE  /\ loop'[l] \in LoopStates
           /\ loop' = [loop EXCEPT ![l] = loop'[l]]
  <1> USE DEF LoopStates, LoopPcs
  <1>t. loop \in [Loops -> LoopStates] /\ loop[l] \in LoopStates
    BY DEF TypeOK
  <1>i. IdleLoop \in LoopStates
    BY DEF IdleLoop
  <1>1. ASSUME Load(l) PROVE loop'[l] \in LoopStates
    BY <1>1, <1>t DEF Load, Pending
  <1>2. ASSUME LoadRefused(l) \/ CheckStops(l) \/ Complete(l) \/ PauseForQuota(l) \/ LoopDies(l)
        PROVE  loop'[l] \in LoopStates
    BY <1>2, <1>t, <1>i DEF LoadRefused, CheckStops, Complete, PauseForQuota, LoopDies, StopLoop
  <1>3. ASSUME Check(l) PROVE loop'[l] \in LoopStates
    BY <1>3, <1>t DEF Check
  <1>4. ASSUME EngineDelivers(l) PROVE loop'[l] \in LoopStates
    <2>1. loop'[l] = [loop[l] EXCEPT !.got = TRUE, !.late = loop'[l].late]
      BY <1>4, <1>t DEF EngineDelivers
    <2>2. loop'[l].late \subseteq Rcpts
      BY <1>4, <1>t DEF EngineDelivers
    <2> QED
      BY <2>1, <2>2, <1>t
  <1>6. ASSUME SendRetried(l) PROVE loop'[l] \in LoopStates
    <2>1. loop'[l] = [loop[l] EXCEPT !.pc = "resend", !.got = FALSE]
      BY <1>6, <1>t DEF SendRetried
    <2> QED
      BY <2>1, <1>t
  <1>5. ASSUME MarkRunning(l) \/ Reserve(l) \/ SendReturns(l) \/ SendThrows(l)
               \/ RecordSent(l) \/ RecordSentThrows(l) \/ WriteLog(l) \/ RecordFailed(l)
        PROVE  loop'[l] \in LoopStates
    BY <1>5, <1>t DEF MarkRunning, Reserve, SendReturns, SendThrows, RecordSent,
        RecordSentThrows, WriteLog, RecordFailed, Goto, NextRecipient
  <1> QED
    BY <1>1, <1>2, <1>3, <1>4, <1>5, <1>6, <1>t DEF LoopStep, Load, LoadRefused, MarkRunning, Check,
        CheckStops, Complete, Reserve, EngineDelivers, SendReturns, SendThrows, SendRetried,
        RecordSent, RecordSentThrows, WriteLog, RecordFailed, PauseForQuota, LoopDies,
        StopLoop, Goto, NextRecipient

\* A loop only changes the status of campaigns that were created, and takes no
\* recipient back to PENDING.
LEMMA LoopStepTables ==
    ASSUME TypeOK, LoopInv, NEW l \in Loops, LoopStep(l)
    PROVE  /\ TypeOK'
           /\ req' = req
           /\ \A c \in Camps : status[c] = "none" <=> status'[c] = "none"
           /\ \A c \in Camps : Pending(c)' \subseteq Pending(c)
  <1> USE CampaignsAssumption DEF Statuses, Active
  <1>l. /\ loop' \in [Loops -> LoopStates]
        /\ loop[l].pc # "idle" /\ loop[l].camp \in Camps
        /\ loop[l].pc \in Busy => loop[l].cur \in Rcpts
    <2>1. loop' \in [Loops -> LoopStates]
      BY LoopStepType DEF TypeOK
    <2>2. loop[l].pc # "idle"
      BY DEF LoopStep, Load, LoadRefused, MarkRunning, Check, CheckStops, Complete, Reserve,
             EngineDelivers, SendReturns, SendThrows, SendRetried, RecordSent,
             RecordSentThrows, WriteLog, RecordFailed, PauseForQuota, LoopDies
    <2> QED
      BY <2>1, <2>2 DEF LoopInv, LoopKnown
  <1>t. /\ status \in [Camps -> Statuses \cup {"none", "deleted"}]
        /\ row \in [Camps -> [Rcpts -> {"PENDING", "SENT", "FAILED"}]]
        /\ delivered \in [Camps -> [Rcpts -> 0..2]]
        /\ exposed \subseteq Camps /\ orphaned \subseteq Camps
        /\ crashes \in 0..MaxCrashes /\ req \in [Reqs -> ReqStates]
    BY DEF TypeOK
  <1> DEFINE Same == /\ req' \in [Reqs -> ReqStates] /\ req' = req
                     /\ status' \in [Camps -> Statuses \cup {"none", "deleted"}]
                     /\ row' \in [Camps -> [Rcpts -> {"PENDING", "SENT", "FAILED"}]]
                     /\ delivered' \in [Camps -> [Rcpts -> 0..2]]
                     /\ exposed' \subseteq Camps /\ orphaned' \subseteq Camps
                     /\ crashes' \in 0..MaxCrashes
                     /\ \A c \in Camps : status[c] = "none" <=> status'[c] = "none"
                     /\ \A c \in Camps : Pending(c)' \subseteq Pending(c)
  <1>1. ASSUME Load(l) \/ LoadRefused(l) \/ Check(l) \/ CheckStops(l) \/ Reserve(l)
               \/ SendReturns(l) \/ SendThrows(l) \/ RecordSentThrows(l) \/ WriteLog(l)
        PROVE  Same
    BY <1>1, <1>t DEF Load, LoadRefused, Check, CheckStops, Reserve, SendReturns, SendThrows,
        RecordSentThrows, WriteLog, observers, Pending
  <1>2. ASSUME MarkRunning(l) \/ Complete(l) \/ PauseForQuota(l) PROVE Same
    BY <1>2, <1>t, <1>l DEF MarkRunning, Complete, PauseForQuota, SetStatus, Exists, observers, Pending
  <1>3. ASSUME RecordSent(l) \/ RecordFailed(l) PROVE Same
    <2>1. loop[l].cur \in Rcpts
      BY <1>3, <1>l DEF RecordSent, RecordFailed, Busy
    <2> DEFINE c == loop[l].camp
               x == loop[l].cur
    <2>2. PICK s \in {"SENT", "FAILED"} : row' = [row EXCEPT ![c] = [row[c] EXCEPT ![x] = s]]
      BY <1>3 DEF RecordSent, RecordFailed
    <2>3. /\ row' \in [Camps -> [Rcpts -> {"PENDING", "SENT", "FAILED"}]]
          /\ \A d \in Camps : Pending(d)' \subseteq Pending(d)
      BY <2>1, <2>2, <1>l, <1>t DEF Pending
    <2> QED
      BY <1>3, <2>3, <1>t DEF RecordSent, RecordFailed, observers
  <1>4. ASSUME EngineDelivers(l) PROVE Same
    <2> DEFINE c == loop[l].camp
               x == loop[l].cur
    <2>1. x \in Rcpts
      BY <1>4, <1>l DEF EngineDelivers, Busy
    <2>2. PICK n \in 0..2 : delivered' = [delivered EXCEPT ![c] = [delivered[c] EXCEPT ![x] = n]]
      <3>1. delivered[c] \in [Rcpts -> 0..2]
        BY <1>l, <1>t
      <3>2. delivered[c][x] \in 0..2
        BY <2>1, <3>1
      <3>3. \A d \in 0..2 : (IF d < 2 THEN d + 1 ELSE 2) \in 0..2
        OBVIOUS
      <3> QED
        BY <3>2, <3>3, <1>4 DEF EngineDelivers
    <2>3. delivered' \in [Camps -> [Rcpts -> 0..2]]
      BY <2>1, <2>2, <1>l, <1>t
    <2> QED
      BY <1>4, <2>3, <1>t DEF EngineDelivers, Pending
  <1>5. ASSUME SendRetried(l) \/ LoopDies(l) PROVE Same
    BY <1>5, <1>t, <1>l DEF SendRetried, LoopDies, Pending
  <1>6. Same
    BY <1>1, <1>2, <1>3, <1>4, <1>5 DEF LoopStep
  <1> QED
    BY <1>6, <1>l DEF TypeOK

\* A loop keeps its own account of what is left to do.
LEMMA LoopStepInv ==
    ASSUME IInv, NEW l \in Loops, LoopStep(l)
    PROVE  IInv'
  <1> USE CampaignsAssumption DEF Busy, Loaded, IdleLoop
  <1>t. /\ loop \in [Loops -> LoopStates] /\ loop[l] \in LoopStates
        /\ LoopKnown(l) /\ WorkInHand(l) /\ LateOnce(l)
    BY DEF IInv, TypeOK, LoopInv
  <1>s. /\ TypeOK' /\ req' = req
        /\ \A c \in Camps : status[c] = "none" <=> status'[c] = "none"
        /\ \A c \in Camps : Pending(c)' \subseteq Pending(c)
    BY LoopStepTables DEF IInv
  <1>m. \A m \in Loops \ {l} : loop'[m] = loop[m]
    BY LoopStepType, <1>t DEF IInv
  <1>1. ASSUME NEW m \in Loops \ {l} PROVE (LoopKnown(m) /\ WorkInHand(m) /\ LateOnce(m))'
    BY <1>1, <1>s, <1>m DEF IInv, LoopInv, LoopKnown, WorkInHand, LateOnce, Pending, TypeOK, LoopStates
  <1>2. LoopKnown(l)'
    <2>1. \/ loop'[l] = IdleLoop
          \/ /\ loop'[l].pc # "idle" /\ loop'[l].camp = loop[l].camp
             /\ loop'[l].pc \in Busy => loop'[l].cur \in Rcpts
             /\ loop'[l].pc \notin Busy => loop'[l].cur = Nil
      <3> USE <1>t DEF LoopStates, LoopKnown
      <3>1. CASE LoadRefused(l) \/ CheckStops(l) \/ Complete(l) \/ PauseForQuota(l) \/ LoopDies(l)
        BY <3>1 DEF LoadRefused, CheckStops, Complete, PauseForQuota, LoopDies, StopLoop
      <3>2. CASE Load(l)
        BY <3>2 DEF Load
      <3>5. CASE Check(l)
        BY <3>5 DEF Check
      <3>3. CASE EngineDelivers(l) \/ SendRetried(l)
        BY <3>3 DEF EngineDelivers, SendRetried
      <3>4. CASE MarkRunning(l) \/ Reserve(l) \/ SendReturns(l) \/ SendThrows(l)
                 \/ RecordSent(l) \/ RecordSentThrows(l) \/ WriteLog(l) \/ RecordFailed(l)
        BY <3>4 DEF MarkRunning, Reserve, SendReturns, SendThrows, RecordSent,
            RecordSentThrows, WriteLog, RecordFailed, Goto, NextRecipient
      <3> QED
        BY <3>1, <3>2, <3>3, <3>4, <3>5 DEF LoopStep
    <2>2. loop[l].pc # "idle"
      BY DEF LoopStep, Load, LoadRefused, MarkRunning, Check, CheckStops, Complete, Reserve,
             EngineDelivers, SendReturns, SendThrows, SendRetried, RecordSent,
             RecordSentThrows, WriteLog, RecordFailed, PauseForQuota, LoopDies
    <2> QED
      BY <2>1, <2>2, <1>s, <1>t DEF LoopKnown
  <1>3. WorkInHand(l)'
    <2> USE <1>t, <1>s DEF LoopStates, WorkInHand, LoopKnown, TypeOK
    <2>1. CASE LoadRefused(l) \/ CheckStops(l) \/ Complete(l) \/ PauseForQuota(l) \/ LoopDies(l)
      BY <2>1 DEF LoadRefused, CheckStops, Complete, PauseForQuota, LoopDies, StopLoop
    <2>2. CASE Load(l)
      <3>1. /\ loop'[l].camp = loop[l].camp /\ loop'[l].pc \in {"check", "mark"}
            /\ loop'[l].todo = Pending(loop[l].camp)
            /\ loop[l].camp \in Camps
        BY <2>2 DEF Load
      <3> HIDE DEF WorkInHand
      <3>2. \A c \in Camps : c = loop[l].camp => Pending(c)' \subseteq loop'[l].todo
        BY <3>1
      <3> QED
        BY <3>1, <3>2 DEF WorkInHand, Pending
    <2>3. CASE Check(l)
      BY <2>3 DEF Check, Pending
    <2>4. CASE EngineDelivers(l) \/ SendRetried(l)
      BY <2>4 DEF EngineDelivers, SendRetried, Pending
    <2>5. CASE MarkRunning(l) \/ Reserve(l) \/ SendReturns(l) \/ SendThrows(l) \/ RecordSentThrows(l)
      BY <2>5 DEF MarkRunning, Reserve, SendReturns, SendThrows, RecordSentThrows, Goto
    <2>6. CASE RecordSent(l) \/ RecordFailed(l)
      BY <2>6 DEF RecordSent, RecordFailed, Goto, NextRecipient, Pending
    <2>7. CASE WriteLog(l)
      BY <2>7 DEF WriteLog, Goto, NextRecipient, Pending
    <2> QED
      BY <2>1, <2>2, <2>3, <2>4, <2>5, <2>6, <2>7 DEF LoopStep
  <1>4. LateOnce(l)'
    <2> USE <1>t DEF LoopStates, LateOnce, LoopKnown
    <2>1. CASE LoadRefused(l) \/ CheckStops(l) \/ Complete(l) \/ PauseForQuota(l) \/ LoopDies(l)
      BY <2>1 DEF LoadRefused, CheckStops, Complete, PauseForQuota, LoopDies, StopLoop
    <2>2. CASE Load(l)
      BY <2>2 DEF Load
    <2>5. CASE Check(l)
      BY <2>5 DEF Check
    <2>3. CASE EngineDelivers(l) \/ SendRetried(l)
      BY <2>3 DEF EngineDelivers, SendRetried
    <2>4. CASE MarkRunning(l) \/ Reserve(l) \/ SendReturns(l) \/ SendThrows(l)
               \/ RecordSent(l) \/ RecordSentThrows(l) \/ WriteLog(l) \/ RecordFailed(l)
      BY <2>4 DEF MarkRunning, Reserve, SendReturns, SendThrows, RecordSent,
          RecordSentThrows, WriteLog, RecordFailed, Goto, NextRecipient
    <2> QED
      BY <2>1, <2>2, <2>3, <2>4, <2>5 DEF LoopStep
  <1>5. ReqInv'
    BY <1>s DEF IInv, ReqInv, ReqKnown, TypeOK, ReqStates
  <1>6. CompletedMeansAllAttempted'
    <2> SUFFICES ASSUME NEW c \in Camps, status'[c] = "COMPLETED" PROVE Pending(c)' = {}
      BY DEF CompletedMeansAllAttempted
    <2>1. CASE status[c] = "COMPLETED"
      BY <2>1, <1>s DEF IInv, CompletedMeansAllAttempted
    <2>2. CASE status[c] # "COMPLETED"
      <3>1. Complete(l) /\ c = loop[l].camp
        BY <2>2 DEF LoopStep, Load, LoadRefused, MarkRunning, Check, CheckStops, Complete, Reserve,
             EngineDelivers, SendReturns, SendThrows, SendRetried, RecordSent, SetStatus, observers,
             RecordSentThrows, WriteLog, RecordFailed, PauseForQuota, LoopDies, IInv, TypeOK
      <3>2. loop[l].todo = {} /\ loop[l].cur = Nil /\ Pending(c) \subseteq {Nil}
        BY <3>1, <1>t DEF Complete, LoopKnown, WorkInHand
      <3> QED
        BY <3>2, <1>s DEF Pending
    <2> QED
      BY <2>1, <2>2
  <1>7. LoopInv'
    BY <1>1, <1>2, <1>3, <1>4 DEF LoopInv
  <1> QED
    BY <1>s, <1>5, <1>6, <1>7 DEF IInv

\* A step of a request changes that request's state only, within its type; a
\* request that goes on works for an existing campaign.
LEMMA ReqStepType ==
    ASSUME NEW q \in Reqs, TypeOK, ReqKnown(q), ReqStep(q)
    PROVE  /\ req'[q] \in ReqStates
           /\ req' = [req EXCEPT ![q] = req'[q]]
           /\ req'[q].pc \notin {"idle", "insert"} =>
                  req'[q].camp \in Camps /\ status'[req'[q].camp] # "none"
  <1> USE DEF ReqStates, IdleReq, ReqKnown
  <1>t. /\ req \in [Reqs -> ReqStates] /\ req[q] \in ReqStates
        /\ status \in [Camps -> Statuses \cup {"none", "deleted"}]
    BY DEF TypeOK
  <1> DEFINE Known == /\ req'[q] \in ReqStates
                      /\ req' = [req EXCEPT ![q] = req'[q]]
                      /\ req'[q].pc \notin {"idle", "insert"} =>
                            req'[q].camp \in Camps /\ status'[req'[q].camp] # "none"
  <1>i. IdleReq \in ReqStates
    OBVIOUS
  <1>1. ASSUME EndReq(q) PROVE Known
    BY <1>1, <1>t, <1>i DEF EndReq
  <1>2. ASSUME CreateChecked(q) PROVE Known
    BY <1>2, <1>t DEF CreateChecked
  <1>3. ASSUME CreateInserted(q) PROVE Known
    <2>1. PICK c \in Camps, next \in {"start", "config"} :
              /\ status[c] = "none" /\ status' = [status EXCEPT ![c] = "PENDING"]
              /\ req' = [req EXCEPT ![q].pc = next, ![q].camp = c]
      BY <1>3 DEF CreateInserted, SetStatus
    <2>2. req'[q] = [req[q] EXCEPT !.pc = next, !.camp = c]
      BY <2>1, <1>t
    <2>3. req'[q] \in ReqStates /\ req' = [req EXCEPT ![q] = req'[q]]
      BY <2>1, <2>2, <1>t
    <2>4. req'[q].camp = c /\ status'[c] = "PENDING"
      BY <2>1, <2>2, <1>t
    <2> QED
      BY <2>3, <2>4
  <1>4. ASSUME ConfigUpdated(q) PROVE Known
    <2>1. CASE EndReq(q)
      BY <2>1, <1>1
    <2>2. CASE req' = [req EXCEPT ![q].pc = "start"]
      <3>1. req'[q] = [req[q] EXCEPT !.pc = "start"]
        BY <2>2, <1>t
      <3>2. req'[q] \in ReqStates /\ req' = [req EXCEPT ![q] = req'[q]]
        BY <2>2, <3>1, <1>t
      <3> QED
        BY <1>4, <3>1, <3>2, <1>t DEF ConfigUpdated
    <2> QED
      BY <1>4, <2>1, <2>2 DEF ConfigUpdated
  <1>5. ASSUME PauseChecked(q) \/ ResumeChecked(q) PROVE Known
    <2>1. PICK c \in Camps, pc \in {"pause", "count"} :
              /\ status[c] \in Statuses /\ req' = [req EXCEPT ![q].pc = pc, ![q].camp = c]
      BY <1>5 DEF PauseChecked, ResumeChecked, ActiveCamps, Statuses, Active
    <2>2. req'[q] = [req[q] EXCEPT !.pc = pc, !.camp = c]
      BY <2>1, <1>t
    <2>3. req'[q] \in ReqStates /\ req' = [req EXCEPT ![q] = req'[q]]
      BY <2>1, <2>2, <1>t
    <2>4. req'[q].camp = c /\ status' = status /\ status[c] # "none"
      BY <2>1, <2>2, <1>t, <1>5 DEF PauseChecked, ResumeChecked, Statuses, Active
    <2> QED
      BY <2>3, <2>4
  <1>6. ASSUME ResumeCounted(q) PROVE Known
    BY <1>6, <1>t DEF ResumeCounted
  <1>7. ASSUME ResumeWritten(q) PROVE Known
    <2>1. req'[q] = [req[q] EXCEPT !.pc = "start", !.resumed = TRUE]
      BY <1>7, <1>t DEF ResumeWritten
    <2>2. req'[q] \in ReqStates /\ req' = [req EXCEPT ![q] = req'[q]]
      BY <1>7, <2>1, <1>t DEF ResumeWritten
    <2>3. req'[q].camp = req[q].camp /\ req[q].camp \in Camps
      BY <1>7, <2>1, <1>t DEF ResumeWritten
    <2>4. status'[req[q].camp] = "RUNNING"
      BY <1>7, <2>3, <1>t DEF ResumeWritten, SetStatus
    <2> QED
      BY <2>2, <2>3, <2>4
  <1> QED
    BY <1>1, <1>2, <1>3, <1>4, <1>5, <1>6, <1>7
    DEF ReqStep, ReqContinues, StartLoop, PauseWritten, ReqFails

\* What a request does to one campaign keeps every loop's account: only a
\* campaign no loop works for gets its recipients.
LEMMA ReqStepInv ==
    ASSUME IInv, NEW q \in Reqs, ReqStep(q)
    PROVE  IInv'
  <1> USE CampaignsAssumption DEF Statuses, Active, IdleReq, ReqStates
  <1>t. /\ loop \in [Loops -> LoopStates] /\ req \in [Reqs -> ReqStates]
        /\ status \in [Camps -> Statuses \cup {"none", "deleted"}]
        /\ row \in [Camps -> [Rcpts -> {"PENDING", "SENT", "FAILED"}]]
        /\ LoopInv /\ ReqInv /\ ReqKnown(q) /\ CompletedMeansAllAttempted
        /\ delivered \in [Camps -> [Rcpts -> 0..2]]
        /\ exposed \subseteq Camps /\ orphaned \subseteq Camps /\ crashes \in 0..MaxCrashes
    BY DEF IInv, TypeOK, ReqInv
  <1>r. ASSUME \A c \in Camps : status[c] # "none" => status'[c] # "none"
        PROVE  req' \in [Reqs -> ReqStates] /\ ReqInv'
    <2>1. /\ req'[q] \in ReqStates /\ req' = [req EXCEPT ![q] = req'[q]]
          /\ ReqKnown(q)'
      BY ReqStepType, <1>t DEF IInv, ReqKnown
    <2>2. \A p \in Reqs \ {q} : req'[p] = req[p]
      BY <2>1, <1>t
    <2>3. \A p \in Reqs : ReqKnown(p)'
      BY <2>1, <2>2, <1>r, <1>t DEF ReqInv, ReqKnown
    <2> QED
      BY <2>1, <2>3, <1>t DEF ReqInv
  <1>1. CASE CreateChecked(q) \/ PauseChecked(q) \/ ResumeChecked(q) \/ ResumeCounted(q)
             \/ ReqFails(q) \/ ConfigUpdated(q)
    <2>1. /\ UNCHANGED <<status, row, loop, delivered, exposed, crashes>>
          /\ orphaned' \subseteq Camps
      BY <1>1, <1>t DEF CreateChecked, PauseChecked, ResumeChecked, ResumeCounted, ReqFails,
          ConfigUpdated, observers, ReqKnown
    <2>2. req' \in [Reqs -> ReqStates] /\ ReqInv'
      BY <1>r, <2>1
    <2>3. LoopInv' /\ CompletedMeansAllAttempted'
      BY <2>1, <1>t DEF LoopInv, LoopKnown, WorkInHand, LateOnce, Pending, CompletedMeansAllAttempted
    <2> QED
      BY <2>1, <2>2, <2>3, <1>t DEF IInv, TypeOK
  <1>2. CASE PauseWritten(q) \/ ResumeWritten(q)
    <2>1. /\ UNCHANGED <<row, loop, delivered, exposed, crashes>>
          /\ orphaned' \subseteq Camps
          /\ req[q].camp \in Camps /\ status[req[q].camp] # "none"
      BY <1>2, <1>t DEF PauseWritten, ResumeWritten, observers, ReqKnown
    <2>2. PICK t \in {"PAUSED", "RUNNING"} : status' = [status EXCEPT ![req[q].camp] = t]
      BY <1>2 DEF PauseWritten, ResumeWritten, SetStatus
    <2>3. /\ status' \in [Camps -> Statuses \cup {"none", "deleted"}]
          /\ \A c \in Camps : status[c] # "none" => status'[c] # "none"
          /\ \A c \in Camps : status'[c] = "COMPLETED" => status[c] = "COMPLETED"
      BY <2>1, <2>2, <1>t
    <2>4. req' \in [Reqs -> ReqStates] /\ ReqInv'
      BY <1>r, <2>3
    <2>5. LoopInv' /\ CompletedMeansAllAttempted'
      BY <2>1, <2>3, <1>t DEF LoopInv, LoopKnown, WorkInHand, LateOnce, Pending,
          CompletedMeansAllAttempted
    <2> QED
      BY <2>1, <2>3, <2>4, <2>5, <1>t DEF IInv, TypeOK
  <1>3. CASE CreateInserted(q)
    <2>1. PICK c \in Camps, next \in {"start", "config"} :
              /\ status[c] = "none" /\ status' = [status EXCEPT ![c] = "PENDING"]
              /\ row' = [row EXCEPT ![c] = [x \in Rcpts |-> "PENDING"]]
              /\ req' = [req EXCEPT ![q].pc = next, ![q].camp = c]
      BY <1>3 DEF CreateInserted, SetStatus
    <2>2. UNCHANGED <<loop, delivered, exposed, orphaned, crashes>>
      BY <1>3 DEF CreateInserted, observers
    <2>3. /\ status' \in [Camps -> Statuses \cup {"none", "deleted"}]
          /\ row' \in [Camps -> [Rcpts -> {"PENDING", "SENT", "FAILED"}]]
          /\ \A d \in Camps \ {c} : status'[d] = status[d] /\ row'[d] = row[d]
          /\ status'[c] = "PENDING"
      BY <2>1, <1>t
    <2>4. req' \in [Reqs -> ReqStates] /\ ReqInv'
      BY <1>r, <2>3, <1>t
    <2>5. LoopInv'
      <3>1. \A l \in Loops : loop[l].camp # c \/ loop[l].pc = "idle"
        BY <2>1, <1>t DEF LoopInv, LoopKnown
      <3> QED
        BY <3>1, <2>2, <2>3, <1>t DEF LoopInv, LoopKnown, WorkInHand, LateOnce, Pending,
            Loaded, Busy, IdleLoop
    <2>6. CompletedMeansAllAttempted'
      BY <2>3, <1>t DEF CompletedMeansAllAttempted, Pending
    <2> QED
      BY <2>2, <2>3, <2>4, <2>5, <2>6, <1>t DEF IInv, TypeOK
  <1>4. CASE StartLoop(q)
    <2>1. PICK l \in Loops :
              /\ loop[l].pc = "idle"
              /\ loop' = [loop EXCEPT ![l] = [IdleLoop EXCEPT
                        !.pc = "load", !.camp = req[q].camp, !.resumed = req[q].resumed]]
      BY <1>4 DEF StartLoop
    <2>2. /\ UNCHANGED <<status, row, delivered, orphaned, crashes>>
          /\ req[q].camp \in Camps /\ status[req[q].camp] # "none"
          /\ exposed' \subseteq Camps
      BY <1>4, <1>t DEF StartLoop, ReqKnown
    <2>3. loop' \in [Loops -> LoopStates] /\ LoopInv'
      <3> DEFINE new == [IdleLoop EXCEPT !.pc = "load", !.camp = req[q].camp,
                                         !.resumed = req[q].resumed]
      <3>1. /\ new.pc = "load" /\ new.camp = req[q].camp /\ new.cur = Nil /\ new.late = {}
            /\ new \in LoopStates
        BY <2>2, <1>t DEF IdleLoop, LoopStates, LoopPcs
      <3> HIDE DEF new
      <3>2. /\ loop' \in [Loops -> LoopStates] /\ loop'[l] = new
            /\ \A m \in Loops \ {l} : loop'[m] = loop[m]
        BY <2>1, <3>1, <1>t DEF new
      <3>3. (LoopKnown(l) /\ WorkInHand(l) /\ LateOnce(l))'
        BY <3>1, <3>2, <2>2 DEF LoopKnown, WorkInHand, LateOnce, Loaded, Busy
      <3>4. ASSUME NEW m \in Loops \ {l} PROVE (LoopKnown(m) /\ WorkInHand(m) /\ LateOnce(m))'
        BY <3>2, <3>4, <2>2, <1>t DEF LoopInv, LoopKnown, WorkInHand, LateOnce, Pending
      <3> QED
        BY <3>2, <3>3, <3>4 DEF LoopInv
    <2>4. req' \in [Reqs -> ReqStates] /\ ReqInv'
      BY <1>r, <2>2
    <2>5. CompletedMeansAllAttempted'
      BY <2>2, <1>t DEF CompletedMeansAllAttempted, Pending
    <2> QED
      BY <2>2, <2>3, <2>4, <2>5, <1>t DEF IInv, TypeOK
  <1> QED
    BY <1>1, <1>2, <1>3, <1>4 DEF ReqStep, ReqContinues

\* So do a deletion and a restart, which only end work.
LEMMA OtherStepInv ==
    ASSUME IInv, (\E c \in Camps : Delete(c)) \/ Crash \/ UNCHANGED vars
    PROVE  IInv'
  <1> USE CampaignsAssumption DEF Statuses, Active
  <1>t. TypeOK /\ LoopInv /\ ReqInv /\ CompletedMeansAllAttempted
    BY DEF IInv
  <1>1. ASSUME NEW c \in Camps, Delete(c) PROVE IInv'
    <2>1. /\ status' = [status EXCEPT ![c] = "deleted"]
          /\ UNCHANGED <<row, loop, req, delivered, exposed, orphaned, crashes>>
          /\ status[c] # "none"
      BY <1>1 DEF Delete, SetStatus, Exists, observers
    <2>2. TypeOK'
      BY <2>1, <1>t DEF TypeOK
    <2>3. LoopInv' /\ ReqInv' /\ CompletedMeansAllAttempted'
      BY <2>1, <1>t DEF TypeOK, LoopInv, LoopKnown, WorkInHand, LateOnce, Pending, ReqInv, ReqKnown,
          CompletedMeansAllAttempted
    <2> QED
      BY <2>2, <2>3 DEF IInv
  <1>2. ASSUME Crash PROVE IInv'
    <2>1. IdleLoop \in LoopStates /\ IdleReq \in ReqStates
      BY DEF IdleLoop, IdleReq, LoopStates, ReqStates
    <2>2. TypeOK'
      BY <1>2, <2>1, <1>t DEF Crash, TypeOK, ActiveCamps
    <2>3. LoopInv' /\ ReqInv' /\ CompletedMeansAllAttempted'
      BY <1>2, <1>t DEF Crash, LoopInv, LoopKnown, WorkInHand, LateOnce, Pending, ReqInv, ReqKnown,
          CompletedMeansAllAttempted, IdleLoop, IdleReq, Loaded, Busy
    <2> QED
      BY <2>2, <2>3 DEF IInv
  <1>3. ASSUME UNCHANGED vars PROVE IInv'
    BY <1>3, <1>t DEF vars, IInv, TypeOK, LoopInv, LoopKnown, WorkInHand, LateOnce, Pending, ReqInv,
        ReqKnown, CompletedMeansAllAttempted
  <1> QED
    BY <1>1, <1>2, <1>3

LEMMA InitInv == Init => IInv
  <1> SUFFICES ASSUME Init PROVE IInv
    OBVIOUS
  <1>1. LoopInv
    BY DEF Init, LoopInv, LoopKnown, WorkInHand, LateOnce, IdleLoop, Loaded, Busy
  <1>2. ReqInv
    BY DEF Init, ReqInv, ReqKnown, IdleReq
  <1> QED
    BY <1>1, <1>2, InitType DEF IInv, Init, CompletedMeansAllAttempted

-----------------------------------------------------------------------------
(* Who drives a campaign, and what was sent for it *)

\* A campaign that was not created has no messages and no results.
Fresh ==
    \A c \in Camps : status[c] = "none" =>
        \A x \in Rcpts : delivered[c][x] = 0 /\ row[c][x] = "PENDING"

\* A loop that took the engine's answer for a delivery had one.
GotKnown(l) ==
    /\ loop[l].pc \in {"load", "mark", "check", "reserve"} => ~loop[l].got
    /\ loop[l].pc \in {"send", "resend"} /\ loop[l].got =>
          delivered[loop[l].camp][loop[l].cur] > 0
    /\ loop[l].pc = "recordSent" => delivered[loop[l].camp][loop[l].cur] > 0

\* A campaign still PENDING is driven only by the loop of its creation, which has
\* not yet set it RUNNING.
CreatedOnly ==
    /\ \A q \in Reqs : req[q].resumed => req[q].pc = "start"
    /\ \A c \in Camps : status[c] = "PENDING" =>
          /\ \A l \in Loops : loop[l].camp = c =>
                ~loop[l].resumed /\ loop[l].pc \in {"load", "mark"}
          /\ \A q \in Reqs : req[q].camp = c =>
                req[q].pc \notin {"count", "resume"} /\ ~req[q].resumed

\* What the engine was told about a recipient is on its row or in the hands of
\* the campaign's one loop.
Once(c) ==
    /\ \A l, m \in Loops : loop[l].camp = c /\ loop[m].camp = c => l = m
    /\ \A x \in Rcpts :
          /\ delivered[c][x] <= 1
          /\ delivered[c][x] = 1 /\ row[c][x] = "PENDING" =>
                \E l \in Loops : loop[l].camp = c /\ loop[l].cur = x
    /\ \A l \in Loops : loop[l].camp = c =>
          /\ loop[l].cur \notin loop[l].todo
          /\ \A x \in loop[l].todo : delivered[c][x] = 0
          /\ loop[l].pc \in {"reserve", "send", "resend"} /\ ~loop[l].got =>
                delivered[c][loop[l].cur] = 0

Ledger ==
    /\ Fresh /\ CreatedOnly /\ ActiveHasDriver
    /\ \A l \in Loops : GotKnown(l)
    /\ \A c \in Camps \ exposed : Once(c)

LInv == IInv /\ Ledger

\* The steps of a loop that change the status, the rows or the messages.
LEMMA LoopEffect ==
    ASSUME IInv, NEW l \in Loops, LoopStep(l)
    PROVE  /\ loop[l].pc # "idle" /\ loop[l].camp \in Camps /\ status[loop[l].camp] # "none"
           /\ loop \in [Loops -> LoopStates] /\ loop' \in [Loops -> LoopStates]
           /\ \A m \in Loops \ {l} : loop'[m] = loop[m]
           /\ loop'[l] = IdleLoop \/ (/\ loop'[l].camp = loop[l].camp
                                      /\ loop'[l].resumed = loop[l].resumed)
           /\ \A c \in Camps \ {loop[l].camp} :
                status'[c] = status[c] /\ row'[c] = row[c] /\ delivered'[c] = delivered[c]
           /\ req' = req
<1>1. loop[l].pc # "idle"
    BY DEF LoopStep, Load, LoadRefused, MarkRunning, Check, CheckStops, Complete, Reserve,
           EngineDelivers, SendReturns, SendThrows, SendRetried, RecordSent,
           RecordSentThrows, WriteLog, RecordFailed, PauseForQuota, LoopDies
<1>2. loop[l].camp \in Camps /\ status[loop[l].camp] # "none"
    BY <1>1 DEF IInv, LoopInv, LoopKnown
<1>3. /\ loop \in [Loops -> LoopStates] /\ loop' \in [Loops -> LoopStates] /\ req' = req
      /\ \A m \in Loops \ {l} : loop'[m] = loop[m]
    BY LoopStepType, LoopStepTables DEF IInv, TypeOK
<1>4. loop'[l] = IdleLoop \/ (/\ loop'[l].camp = loop[l].camp
                              /\ loop'[l].resumed = loop[l].resumed)
  <2> USE <1>3 DEF LoopStates
  <2>1. CASE LoadRefused(l) \/ CheckStops(l) \/ Complete(l) \/ PauseForQuota(l) \/ LoopDies(l)
      BY <2>1 DEF LoadRefused, CheckStops, Complete, PauseForQuota, LoopDies, StopLoop
  <2>2. CASE Load(l)
      BY <2>2 DEF Load
  <2>3. CASE Check(l)
      BY <2>3 DEF Check
  <2>4. CASE EngineDelivers(l) \/ SendRetried(l)
      BY <2>4 DEF EngineDelivers, SendRetried
  <2>5. CASE MarkRunning(l) \/ Reserve(l) \/ SendReturns(l) \/ SendThrows(l)
               \/ RecordSent(l) \/ RecordSentThrows(l) \/ WriteLog(l) \/ RecordFailed(l)
      BY <2>5 DEF MarkRunning, Reserve, SendReturns, SendThrows, RecordSent,
          RecordSentThrows, WriteLog, RecordFailed, Goto, NextRecipient
  <2> QED
      BY <2>1, <2>2, <2>3, <2>4, <2>5 DEF LoopStep
<1>5. \A c \in Camps \ {loop[l].camp} :
          status'[c] = status[c] /\ row'[c] = row[c] /\ delivered'[c] = delivered[c]
  <2> USE DEF IInv, TypeOK, observers, SetStatus
  <2>1. CASE MarkRunning(l) \/ Complete(l) \/ PauseForQuota(l)
      BY <2>1 DEF MarkRunning, Complete, PauseForQuota
  <2>2. CASE RecordSent(l) \/ RecordFailed(l)
      BY <2>2 DEF RecordSent, RecordFailed
  <2>3. CASE EngineDelivers(l)
      BY <2>3 DEF EngineDelivers
  <2>4. CASE Load(l) \/ LoadRefused(l) \/ Check(l) \/ CheckStops(l) \/ Reserve(l)
               \/ SendReturns(l) \/ SendThrows(l) \/ SendRetried(l) \/ RecordSentThrows(l)
               \/ WriteLog(l) \/ LoopDies(l)
      BY <2>4 DEF Load, LoadRefused, Check, CheckStops, Reserve, SendReturns, SendThrows,
                  SendRetried, RecordSentThrows, WriteLog, LoopDies
  <2> QED
      BY <2>1, <2>2, <2>3, <2>4 DEF LoopStep
<1> QED
    BY <1>1, <1>2, <1>3, <1>4, <1>5

\* A delivery adds one to the loop's own recipient; nothing else changes what was
\* delivered.
LEMMA LoopDelivered ==
    ASSUME IInv, NEW l \in Loops, LoopStep(l)
    PROVE  \/ /\ EngineDelivers(l) /\ loop[l].cur \in Rcpts
              /\ \A x \in Rcpts \ {loop[l].cur} :
                    delivered'[loop[l].camp][x] = delivered[loop[l].camp][x]
              /\ delivered'[loop[l].camp][loop[l].cur] =
                    IF delivered[loop[l].camp][loop[l].cur] < 2
                    THEN delivered[loop[l].camp][loop[l].cur] + 1 ELSE 2
           \/ delivered' = delivered
<1> USE DEF observers
<1>1. CASE EngineDelivers(l)
  <2>1. loop[l].cur \in Rcpts
      BY <1>1 DEF IInv, LoopInv, LoopKnown, Busy, EngineDelivers
  <2>2. PICK c \in Camps : c = loop[l].camp
      BY LoopEffect
  <2>3. delivered \in [Camps -> [Rcpts -> 0..2]]
      BY DEF IInv, TypeOK
  <2> QED
      BY <1>1, <2>1, <2>2, <2>3 DEF EngineDelivers
<1>2. CASE ~EngineDelivers(l)
    BY <1>2 DEF LoopStep, Load, LoadRefused, MarkRunning, Check, CheckStops, Complete, Reserve,
           SendReturns, SendThrows, SendRetried, RecordSent,
           RecordSentThrows, WriteLog, RecordFailed, PauseForQuota, LoopDies
<1> QED
    BY <1>1, <1>2

\* A loop keeps its evidence that the engine delivered.
LEMMA LoopGot ==
    ASSUME IInv, \A m \in Loops : GotKnown(m), NEW l \in Loops, LoopStep(l)
    PROVE  \A m \in Loops : GotKnown(m)'
<1>1. /\ loop[l] \in LoopStates /\ loop[l].camp \in Camps
      /\ loop' \in [Loops -> LoopStates] /\ loop \in [Loops -> LoopStates]
      /\ \A m \in Loops \ {l} : loop'[m] = loop[m]
    BY LoopEffect
<1>2. delivered \in [Camps -> [Rcpts -> 0..2]] /\ delivered' \in [Camps -> [Rcpts -> 0..2]]
    BY LoopStepTables DEF IInv, TypeOK
<1>3. \A c \in Camps, x \in Rcpts : delivered[c][x] > 0 => delivered'[c][x] > 0
    BY <1>2, LoopDelivered, LoopEffect
<1>4. ASSUME NEW m \in Loops \ {l} PROVE GotKnown(m)'
  <2>1. loop[m].pc \in {"send", "resend", "recordSent"} =>
            loop[m].camp \in Camps /\ loop[m].cur \in Rcpts
      BY DEF IInv, LoopInv, LoopKnown, Busy
  <2> QED
      BY <1>1, <1>3, <2>1 DEF GotKnown
<1>5. GotKnown(l)'
  <2> USE <1>1 DEF LoopStates, GotKnown
  <2>1. CASE LoadRefused(l) \/ CheckStops(l) \/ Complete(l) \/ PauseForQuota(l) \/ LoopDies(l)
      BY <2>1 DEF LoadRefused, CheckStops, Complete, PauseForQuota, LoopDies, StopLoop, IdleLoop
  <2>2. CASE Load(l)
      BY <2>2 DEF Load
  <2>3. CASE Check(l)
      BY <2>3 DEF Check
  <2>4. CASE EngineDelivers(l)
    <3>1. loop[l].cur \in Rcpts
        BY <2>4 DEF IInv, LoopInv, LoopKnown, Busy, EngineDelivers
    <3>2. delivered[loop[l].camp][loop[l].cur] \in 0..2
        BY <1>2, <3>1
    <3>3. delivered'[loop[l].camp][loop[l].cur] > 0
        BY <2>4, <3>1, <3>2, <1>2 DEF EngineDelivers
    <3>4. loop'[l].camp = loop[l].camp /\ loop'[l].cur = loop[l].cur /\ loop'[l].pc = loop[l].pc
        BY <2>4 DEF EngineDelivers
    <3> QED
        BY <2>4, <3>3, <3>4 DEF EngineDelivers
  <2>5. CASE MarkRunning(l) \/ Reserve(l) \/ SendThrows(l)
               \/ RecordSent(l) \/ RecordSentThrows(l) \/ WriteLog(l) \/ RecordFailed(l)
      BY <2>5 DEF MarkRunning, Reserve, SendThrows, RecordSent,
          RecordSentThrows, WriteLog, RecordFailed, Goto, NextRecipient
  <2>6. CASE SendReturns(l)
      BY <2>6 DEF SendReturns, Goto, observers
  <2>7. CASE SendRetried(l)
      BY <2>7 DEF SendRetried
  <2> QED
      BY <2>1, <2>2, <2>3, <2>4, <2>5, <2>6, <2>7 DEF LoopStep
<1> QED
    BY <1>4, <1>5

\* Loops leave the campaigns that were not created alone.
LEMMA LoopFresh ==
    ASSUME IInv, Fresh, NEW l \in Loops, LoopStep(l)
    PROVE  Fresh'
<1> SUFFICES ASSUME NEW c \in Camps, status'[c] = "none"
             PROVE  c # loop[l].camp /\ status[c] = "none"
    BY LoopEffect DEF Fresh
<1> QED
    BY LoopStepTables, LoopEffect DEF IInv

\* The loop of a creation leaves the campaign PENDING only until it marks it RUNNING.
LEMMA LoopCreated ==
    ASSUME IInv, CreatedOnly, NEW l \in Loops, LoopStep(l)
    PROVE  CreatedOnly'
<1> USE CampaignsAssumption DEF LoopStates
<1>1. req' = req
    BY LoopEffect
<1> SUFFICES ASSUME NEW c \in Camps, status'[c] = "PENDING"
             PROVE  /\ status[c] = "PENDING"
                    /\ \A m \in Loops : loop'[m].camp = c =>
                          ~loop'[m].resumed /\ loop'[m].pc \in {"load", "mark"}
    BY <1>1 DEF CreatedOnly
<1>2. status[c] = "PENDING"
    BY DEF LoopStep, Load, LoadRefused, MarkRunning, Check, CheckStops, Complete, Reserve,
           EngineDelivers, SendReturns, SendThrows, SendRetried, RecordSent, SetStatus, observers,
           RecordSentThrows, WriteLog, RecordFailed, PauseForQuota, LoopDies, IInv, TypeOK
<1>3. ASSUME NEW m \in Loops, loop'[m].camp = c
      PROVE  ~loop'[m].resumed /\ loop'[m].pc \in {"load", "mark"}
  <2>1. CASE m # l
      BY <1>2, <1>3, <2>1, LoopEffect DEF CreatedOnly
  <2>2. CASE m = l
    <3>1. loop'[l] # IdleLoop
        BY <1>3, <2>2 DEF IdleLoop
    <3>2. loop[l].camp = c /\ ~loop[l].resumed /\ loop[l].pc \in {"load", "mark"}
          /\ ~loop'[l].resumed
        BY <1>2, <1>3, <2>2, <3>1, LoopEffect DEF CreatedOnly
    <3>3. ~MarkRunning(l)
        BY <3>2, LoopStepTables DEF MarkRunning, SetStatus, IInv, TypeOK
    <3>4. Load(l)
        BY <3>1, <3>2, <3>3, LoopEffect
           DEF LoopStep, Load, LoadRefused, MarkRunning, Check, CheckStops, Complete, Reserve,
           EngineDelivers, SendReturns, SendThrows, SendRetried, RecordSent,
           RecordSentThrows, WriteLog, RecordFailed, PauseForQuota, LoopDies, StopLoop
    <3> QED
        BY <2>2, <3>2, <3>4, LoopEffect DEF Load
  <2> QED
      BY <2>1, <2>2
<1> QED
    BY <1>2, <1>3

\* A loop that ends leaves its campaign inactive, or orphans it.
LEMMA LoopDriver ==
    ASSUME IInv, CreatedOnly, ActiveHasDriver, NEW l \in Loops, LoopStep(l)
    PROVE  ActiveHasDriver'
<1> USE DEF Active
<1> SUFFICES ASSUME NEW c \in Camps, status'[c] \in Active, c \notin orphaned', ~Starting(c)',
                    \A m \in Loops : loop'[m].camp # c
             PROVE  FALSE
    BY DEF ActiveHasDriver, ActiveCamps, LiveOn
<1>1. ~Starting(c) /\ c \notin orphaned
    BY LoopEffect DEF Starting, LoopStep, Load, LoadRefused, MarkRunning, Check, CheckStops, Complete,
           Reserve, EngineDelivers, SendReturns, SendThrows, SendRetried, RecordSent, observers,
           RecordSentThrows, WriteLog, RecordFailed, PauseForQuota, LoopDies
<1>2. CASE loop[l].camp # c
    BY <1>1, <1>2, LoopEffect DEF ActiveHasDriver, ActiveCamps, LiveOn
<1>3. CASE loop[l].camp = c
  <2>1. loop'[l] = IdleLoop /\ LiveOn(c) = {l}
      BY <1>3, LoopEffect DEF LiveOn
  <2>2. CASE LoadRefused(l)
      BY <1>3, <2>2 DEF LoadRefused, MayRun, CreatedOnly, Exists, Statuses, observers
  <2>3. CASE CheckStops(l)
      BY <1>3, <2>3 DEF CheckStops, CreatedOnly, observers
  <2>4. CASE Complete(l) \/ PauseForQuota(l)
      BY <1>3, <2>4 DEF Complete, PauseForQuota, SetStatus, IInv, TypeOK
  <2>5. CASE LoopDies(l)
      BY <1>1, <1>3, <2>1, <2>5 DEF LoopDies
  <2>6. CASE ~(LoadRefused(l) \/ CheckStops(l) \/ Complete(l) \/ PauseForQuota(l) \/ LoopDies(l))
    <3>1. loop'[l].camp = loop[l].camp
      <4> USE LoopEffect DEF LoopStates
      <4>1. CASE Load(l)
          BY <4>1 DEF Load
      <4>4. CASE Check(l)
          BY <4>4 DEF Check
      <4>2. CASE EngineDelivers(l) \/ SendRetried(l)
          BY <4>2 DEF EngineDelivers, SendRetried
      <4>3. CASE MarkRunning(l) \/ Reserve(l) \/ SendReturns(l) \/ SendThrows(l)
               \/ RecordSent(l) \/ RecordSentThrows(l) \/ WriteLog(l) \/ RecordFailed(l)
          BY <4>3 DEF MarkRunning, Reserve, SendReturns, SendThrows, RecordSent,
              RecordSentThrows, WriteLog, RecordFailed, Goto, NextRecipient
      <4> QED
          BY <2>6, <4>1, <4>2, <4>3, <4>4 DEF LoopStep
    <3> QED
        BY <1>3, <3>1
  <2> QED
      BY <2>2, <2>3, <2>4, <2>5, <2>6
<1> QED
    BY <1>2, <1>3

\* The one loop of an unexposed campaign never sends what was sent before: its list
\* holds recipients without a message, and it drops the current one only when a row
\* records it or the campaign is exposed.
LEMMA LoopOnce ==
    ASSUME LInv, NEW l \in Loops, LoopStep(l), NEW c \in Camps, c \notin exposed'
    PROVE  Once(c)'
<1> USE CampaignsAssumption DEF LoopStates
<1>0. IInv /\ \A m \in Loops : GotKnown(m)
    BY DEF LInv, Ledger
<1>1. c \notin exposed
    BY DEF LoopStep, Load, LoadRefused, MarkRunning, Check, CheckStops, Complete, Reserve,
           EngineDelivers, SendReturns, SendThrows, SendRetried, RecordSent, observers,
           RecordSentThrows, WriteLog, RecordFailed, PauseForQuota, LoopDies
<1>2. Once(c)
    BY <1>1 DEF LInv, Ledger
<1>3. /\ loop[l] \in LoopStates /\ loop[l].camp \in Camps
      /\ loop \in [Loops -> LoopStates] /\ loop' \in [Loops -> LoopStates]
      /\ \A m \in Loops \ {l} : loop'[m] = loop[m]
      /\ loop'[l] = IdleLoop \/ loop'[l].camp = loop[l].camp
      /\ IdleLoop.camp = Nil /\ IdleLoop.cur = Nil
    BY <1>0, LoopEffect DEF IdleLoop
<1>4. CASE loop[l].camp # c
  <2>1. delivered'[c] = delivered[c] /\ row'[c] = row[c] /\ loop'[l].camp # c
      BY <1>0, <1>3, <1>4, LoopEffect
  <2> QED
      BY <1>2, <1>3, <1>4, <2>1 DEF Once
<1>5. CASE loop[l].camp = c
  <2>1. \A m \in Loops : loop[m].camp = c => m = l
      BY <1>2, <1>5 DEF Once
  <2>2. \A m \in Loops : loop'[m].camp = c => m = l
      BY <1>3, <2>1
  <2>3. /\ delivered \in [Camps -> [Rcpts -> 0..2]] /\ delivered' \in [Camps -> [Rcpts -> 0..2]]
        /\ row \in [Camps -> [Rcpts -> {"PENDING", "SENT", "FAILED"}]]
      BY <1>0, LoopStepTables DEF IInv, TypeOK
\* What the one loop has to show for the campaign's messages.
  <2> DEFINE d == delivered[c]
             d1 == delivered'[c]
             Told == \A x \in Rcpts : d1[x] = 1 /\ row'[c][x] = "PENDING" => loop'[l].cur = x /\ loop'[l].camp = c
             Todo == loop'[l].camp = c =>
                        /\ loop'[l].cur \notin loop'[l].todo
                        /\ \A x \in loop'[l].todo : d1[x] = 0
                        /\ loop'[l].pc \in {"reserve", "send", "resend"} /\ ~loop'[l].got =>
                              d1[loop'[l].cur] = 0
  <2>4. SUFFICES (\A x \in Rcpts : d1[x] <= 1) /\ Told /\ Todo
      BY <2>2 DEF Once
  <2>5. /\ \A x \in Rcpts : d[x] <= 1
        /\ \A x \in Rcpts : d[x] = 1 /\ row[c][x] = "PENDING" => loop[l].cur = x
        /\ loop[l].cur \notin loop[l].todo
        /\ \A x \in loop[l].todo : d[x] = 0
        /\ loop[l].pc \in {"reserve", "send", "resend"} /\ ~loop[l].got => d[loop[l].cur] = 0
      BY <1>2, <1>5, <2>1 DEF Once
  <2>6. /\ loop[l].pc \in Busy => loop[l].cur \in Rcpts
        /\ loop[l].pc \notin Busy => loop[l].cur = Nil
        /\ loop[l].pc \in {"log", "pauseQuota"} => row[c][loop[l].cur] # "PENDING"
        /\ loop[l].todo \subseteq Rcpts
      BY <1>0, <1>3, <1>5 DEF IInv, LoopInv, LoopKnown, WorkInHand
  <2>7. d \in [Rcpts -> 0..2]
      BY <1>3, <1>5, <2>3
  <2> HIDE DEF d
  <2>8. /\ loop[l] \in LoopStates /\ loop[l].camp = c
        /\ loop \in [Loops -> LoopStates]
      BY <1>3, <1>5
  <2>s. ASSUME delivered' = delivered, row' = row
        PROVE  d1 = d /\ row'[c] = row[c]
      BY <2>s DEF d
  <2>9. CASE LoadRefused(l) \/ CheckStops(l) \/ Complete(l) \/ PauseForQuota(l)
    <3>1. loop'[l] = IdleLoop /\ delivered' = delivered /\ row' = row
        BY <2>9, <1>3 DEF LoadRefused, CheckStops, Complete, PauseForQuota, StopLoop, observers
    <3>2. loop[l].cur = Nil \/ row[c][loop[l].cur] # "PENDING"
        BY <2>9, <2>6 DEF LoadRefused, CheckStops, Complete, PauseForQuota, Busy
    <3> QED
        BY <3>1, <3>2, <2>s, <2>5, <1>3
  <2>10. CASE LoopDies(l)
    <3>1. loop'[l] = IdleLoop /\ delivered' = delivered /\ row' = row
        BY <2>10, <1>3 DEF LoopDies, StopLoop
    <3>2. ~Unrecorded(l)
        BY <2>10, <1>5 DEF LoopDies
    <3>3. \A x \in Rcpts : d[x] = 1 /\ row[c][x] = "PENDING" => loop[l].cur # x
        BY <3>2, <1>5 DEF Unrecorded, d
    <3> QED
        BY <3>1, <3>3, <2>s, <2>5, <1>3
  <2>11. CASE Load(l)
    <3>1. /\ delivered' = delivered /\ row' = row
          /\ loop'[l].todo = Pending(c) /\ loop'[l].cur = loop[l].cur /\ loop'[l].camp = c
          /\ loop'[l].pc \in {"check", "mark"}
        BY <2>11, <2>8, <1>5 DEF Load, observers
    <3>2. loop[l].cur = Nil
        BY <2>11, <2>6 DEF Load, Busy
    <3>3. \A x \in Pending(c) : d[x] = 0
        BY <3>2, <2>5, <2>7 DEF Pending
    <3>4. Nil \notin Pending(c)
        BY DEF Pending
    <3> QED
        BY <3>1, <3>2, <3>3, <3>4, <2>s, <2>5
  <2>12. CASE MarkRunning(l) \/ Reserve(l) \/ SendReturns(l) \/ SendThrows(l) \/ RecordSentThrows(l)
    <3>1. /\ delivered' = delivered /\ row' = row
          /\ loop'[l].todo = loop[l].todo /\ loop'[l].cur = loop[l].cur /\ loop'[l].camp = c
          /\ loop'[l].got = loop[l].got
          /\ loop'[l].pc \in {"reserve", "send", "resend"} => loop[l].pc = "reserve"
        BY <2>12, <2>8 DEF MarkRunning, Reserve, SendReturns, SendThrows, RecordSentThrows, Goto, observers
    <3> QED
        BY <3>1, <2>s, <2>5
  <2>13. CASE Check(l)
    <3>1. delivered' = delivered /\ row' = row
        BY <2>13 DEF Check, observers
    <3>2. PICK x \in loop[l].todo :
              loop'[l].cur = x /\ loop'[l].todo = loop[l].todo \ {x}
        BY <2>13, <2>8 DEF Check
    <3>3. loop[l].cur = Nil
        BY <2>13, <2>6 DEF Check, Busy
    <3>4. \A y \in Rcpts : ~(d[y] = 1 /\ row[c][y] = "PENDING")
        BY <3>3, <2>5
    <3> QED
        BY <3>1, <3>2, <3>4, <2>s, <2>5
  <2>14. CASE EngineDelivers(l)
    <3>1. /\ row' = row /\ loop[l].cur \in Rcpts
          /\ loop'[l].todo = loop[l].todo /\ loop'[l].cur = loop[l].cur /\ loop'[l].camp = c
          /\ loop'[l].got
        BY <2>14, <2>8, <2>6 DEF EngineDelivers, Busy
    <3>2. d[loop[l].cur] = 0
        BY <2>14, <2>5 DEF EngineDelivers
    <3>3. /\ d1[loop[l].cur] = 1
          /\ \A x \in Rcpts \ {loop[l].cur} : d1[x] = d[x]
        BY <2>14, <3>1, <3>2, <2>3, <2>8 DEF EngineDelivers, d
    <3> QED
        BY <3>1, <3>2, <3>3, <2>5, <2>6, <2>7
  <2>15. CASE SendRetried(l)
    <3>1. /\ delivered' = delivered /\ row' = row
          /\ loop'[l].todo = loop[l].todo /\ loop'[l].cur = loop[l].cur /\ loop'[l].camp = c
          /\ loop[l].pc = "send"
        BY <2>15, <2>8 DEF SendRetried
    <3>2. ~loop[l].got
        BY <2>15, <1>5 DEF SendRetried
    <3> QED
        BY <3>1, <3>2, <2>s, <2>5
  <2>16. CASE RecordSent(l) \/ RecordFailed(l)
    <3>1. /\ delivered' = delivered /\ loop[l].cur \in Rcpts
          /\ loop'[l].todo = loop[l].todo /\ loop'[l].camp = c
          /\ loop'[l].cur \in {loop[l].cur, Nil}
          /\ loop'[l].pc \notin {"reserve", "send", "resend"}
        BY <2>16, <2>8, <2>6 DEF RecordSent, RecordFailed, Goto, NextRecipient, observers, Busy
    <3>2. PICK s \in {"SENT", "FAILED"} : row' = [row EXCEPT ![c] = [row[c] EXCEPT ![loop[l].cur] = s]]
        BY <2>16, <2>8 DEF RecordSent, RecordFailed
    <3>3. /\ row'[c][loop[l].cur] # "PENDING"
          /\ \A x \in Rcpts \ {loop[l].cur} : row'[c][x] = row[c][x]
        BY <3>1, <3>2, <2>3
    <3>4. d1 = d
        BY <3>1 DEF d
    <3> QED
        BY <3>1, <3>3, <3>4, <2>5, <2>6
  <2>17. CASE WriteLog(l)
    <3>1. /\ delivered' = delivered /\ row' = row
          /\ loop'[l].todo = loop[l].todo /\ loop'[l].camp = c
          /\ loop'[l].cur \in {loop[l].cur, Nil}
          /\ loop'[l].pc \notin {"reserve", "send", "resend"}
          /\ row[c][loop[l].cur] # "PENDING"
        BY <2>17, <2>8, <2>6 DEF WriteLog, Goto, NextRecipient, observers
    <3> QED
        BY <3>1, <2>s, <2>5, <2>6
  <2> QED
      BY <2>9, <2>10, <2>11, <2>12, <2>13, <2>14, <2>15, <2>16, <2>17 DEF LoopStep
<1> QED
    BY <1>4, <1>5

\* A request starts a second loop only under an exposed campaign, and creates a
\* campaign nothing is known about yet.
LEMMA ReqLedger ==
    ASSUME LInv, NEW q \in Reqs, ReqStep(q)
    PROVE  Ledger'
<1> USE CampaignsAssumption DEF ReqStates, IdleReq
<1>i. IInv /\ Ledger
    BY DEF LInv
<1>t. /\ loop \in [Loops -> LoopStates] /\ req \in [Reqs -> ReqStates] /\ req[q] \in ReqStates
      /\ status \in [Camps -> Statuses \cup {"none", "deleted"}]
      /\ row \in [Camps -> [Rcpts -> {"PENDING", "SENT", "FAILED"}]]
      /\ delivered \in [Camps -> [Rcpts -> 0..2]]
    BY <1>i DEF IInv, TypeOK
<1>k. /\ \A p \in Reqs : ReqKnown(p)
      /\ \A m \in Loops : LoopKnown(m)
    BY <1>i DEF IInv, ReqInv, LoopInv
<1>r. /\ req'[q] \in ReqStates
      /\ \A p \in Reqs \ {q} : req'[p] = req[p]
    BY ReqStepType, <1>t, <1>k, <1>i DEF IInv
<1>d. delivered' = delivered
    BY DEF ReqStep, ReqContinues, CreateChecked, CreateInserted, ConfigUpdated, StartLoop, PauseChecked,
           PauseWritten, ResumeChecked, ResumeCounted, ResumeWritten, ReqFails, observers
<1>1. CASE CreateInserted(q)
  <2>1. PICK c \in Camps, next \in {"start", "config"} :
            /\ status[c] = "none" /\ status' = [status EXCEPT ![c] = "PENDING"]
            /\ row' = [row EXCEPT ![c] = [x \in Rcpts |-> "PENDING"]]
            /\ req' = [req EXCEPT ![q].pc = next, ![q].camp = c]
            /\ req[q].pc = "insert"
      BY <1>1 DEF CreateInserted, SetStatus
  <2>2. UNCHANGED <<loop, exposed, orphaned>>
      BY <1>1 DEF CreateInserted, observers
  <2>3. /\ status'[c] = "PENDING"
        /\ \A x \in Rcpts : row'[c][x] = "PENDING"
        /\ \A d \in Camps \ {c} : status'[d] = status[d] /\ row'[d] = row[d]
      BY <2>1, <1>t
  <2>4. req'[q].pc = next /\ req'[q].camp = c /\ req'[q].resumed = req[q].resumed
      BY <2>1, <1>t
  <2>5. \A m \in Loops : loop[m].camp # c
      BY <2>1, <1>k DEF LoopKnown, IdleLoop
  <2>6. \A x \in Rcpts : delivered[c][x] = 0
      BY <2>1, <1>i DEF Ledger, Fresh
  <2>7. Fresh'
      BY <2>3, <1>d, <1>i DEF Ledger, Fresh
  <2>8. \A m \in Loops : GotKnown(m)'
      BY <2>2, <1>d, <1>i DEF Ledger, GotKnown
  <2>9. \A d \in Camps \ exposed' : Once(d)'
    <3>1. Once(c)'
        BY <2>2, <2>5, <2>6, <1>d DEF Once
    <3>2. ASSUME NEW d \in Camps \ exposed', d # c PROVE Once(d)'
        BY <3>2, <2>2, <2>3, <1>d, <1>i DEF Once, Ledger
    <3> QED
        BY <3>1, <3>2
  <2>10. CreatedOnly'
    <3>1. CreatedOnly
        BY <1>i DEF Ledger
    <3>2. ~req[q].resumed
        BY <3>1, <2>1 DEF CreatedOnly
    <3>3. \A p \in Reqs \ {q} : req[p].camp = c => req[p].pc \in {"idle", "insert"}
        BY <2>1, <1>k DEF ReqKnown
    <3> QED
        BY <3>1, <3>2, <3>3, <2>2, <2>3, <2>4, <2>5, <1>r DEF CreatedOnly
  <2>11. ActiveHasDriver'
    <3>1. Starting(c)'
        BY <2>4 DEF Starting
    <3>2. ASSUME NEW d \in Camps, d # c, Starting(d) PROVE Starting(d)'
        BY <3>2, <2>1, <1>r DEF Starting
    <3> QED
        BY <3>1, <3>2, <2>2, <2>3, <1>i DEF Ledger, ActiveHasDriver, ActiveCamps, LiveOn
  <2> QED
      BY <2>7, <2>8, <2>9, <2>10, <2>11 DEF Ledger
<1>2. CASE StartLoop(q)
  <2>c. PICK c \in Camps : c = req[q].camp
      BY <1>2, <1>k DEF StartLoop, ReqKnown
  <2>1. PICK l \in Loops :
            /\ loop[l].pc = "idle"
            /\ loop' = [loop EXCEPT ![l] = [IdleLoop EXCEPT
                      !.pc = "load", !.camp = req[q].camp, !.resumed = req[q].resumed]]
      BY <1>2 DEF StartLoop
  <2>2. /\ UNCHANGED <<status, row, orphaned>> /\ req[q].pc = "start"
        /\ exposed' = IF LiveOn(c) = {} THEN exposed ELSE exposed \cup {c}
        /\ req'[q] = IdleReq
      BY <1>2, <1>t, <2>c DEF StartLoop, EndReq
  <2>3. /\ loop'[l].pc = "load" /\ loop'[l].camp = c /\ loop'[l].resumed = req[q].resumed
        /\ loop'[l].todo = {} /\ loop'[l].cur = Nil /\ loop'[l].got = FALSE
        /\ \A m \in Loops \ {l} : loop'[m] = loop[m]
        /\ loop[l].camp = Nil /\ loop[l].cur = Nil
      BY <2>1, <1>t, <1>k, <2>c DEF LoopKnown, IdleLoop
  <2>4. Fresh'
      BY <2>2, <1>d, <1>i DEF Ledger, Fresh
  <2>5. \A m \in Loops : GotKnown(m)'
    <3>1. ASSUME NEW m \in Loops \ {l} PROVE GotKnown(m)'
        BY <2>3, <1>d, <1>i DEF Ledger, GotKnown
    <3>2. GotKnown(l)'
        BY <2>3 DEF GotKnown
    <3> QED
        BY <3>1, <3>2
  <2>6. CreatedOnly'
      BY <2>2, <2>3, <1>i, <1>r, <2>c DEF Ledger, CreatedOnly
  <2>7. ActiveHasDriver'
    <3>1. ASSUME NEW d \in Camps, d # c PROVE (Starting(d) => Starting(d)') /\ (LiveOn(d) # {} => LiveOn(d)' # {})
      <4>1. Starting(d) => Starting(d)'
          BY <3>1, <1>r, <2>c DEF Starting
      <4>2. LiveOn(d) # {} => LiveOn(d)' # {}
          BY <2>3 DEF LiveOn
      <4> QED
          BY <4>1, <4>2
    <3>2. LiveOn(c)' # {}
        BY <2>3 DEF LiveOn
    <3>3. ActiveHasDriver
        BY <1>i DEF Ledger
    <3> QED
        BY <3>1, <3>2, <3>3, <2>2 DEF ActiveHasDriver, ActiveCamps
  <2>8. \A d \in Camps \ exposed' : Once(d)'
    <3> SUFFICES ASSUME NEW d \in Camps, d \notin exposed' PROVE Once(d)'
        OBVIOUS
    <3>1. Once(d)
        BY <2>2, <1>i DEF Ledger
    <3>2. CASE d # c
        BY <3>1, <3>2, <2>2, <2>3, <1>d DEF Once
    <3>3. CASE d = c
      <4>1. \A m \in Loops : loop[m].camp # c
          BY <3>3, <2>2 DEF LiveOn
      <4>2. \A m \in Loops : loop'[m].camp = c => m = l
          BY <4>1, <2>3
      <4>3. \A x \in Rcpts : delivered[c][x] <= 1 /\ ~(delivered[c][x] = 1 /\ row[c][x] = "PENDING")
          BY <3>1, <3>3, <4>1 DEF Once
      <4> QED
          BY <3>3, <4>2, <4>3, <2>2, <2>3, <1>d DEF Once
    <3> QED
        BY <3>2, <3>3
  <2> QED
      BY <2>4, <2>5, <2>6, <2>7, <2>8 DEF Ledger
<1>3. CASE \/ CreateChecked(q) \/ PauseChecked(q) \/ ResumeChecked(q) \/ ResumeCounted(q)
           \/ ReqFails(q) \/ ConfigUpdated(q) \/ PauseWritten(q) \/ ResumeWritten(q)
  <2>1. UNCHANGED <<row, loop, exposed>>
      BY <1>3 DEF CreateChecked, PauseChecked, ResumeChecked, ResumeCounted, ReqFails,
          ConfigUpdated, PauseWritten, ResumeWritten, observers
  <2>2. \A c \in Camps : \/ status'[c] = status[c]
                         \/ /\ c = req[q].camp /\ status[c] # "none"
                            /\ \/ PauseWritten(q) /\ status'[c] = "PAUSED"
                               \/ ResumeWritten(q) /\ status'[c] = "RUNNING"
    <3>1. CASE PauseWritten(q) \/ ResumeWritten(q)
      <4>1. req[q].camp \in Camps /\ status[req[q].camp] # "none"
          BY <3>1, <1>k DEF PauseWritten, ResumeWritten, ReqKnown
      <4> QED
          BY <3>1, <4>1, <1>t DEF PauseWritten, ResumeWritten, SetStatus
    <3>2. CASE ~(PauseWritten(q) \/ ResumeWritten(q))
        BY <1>3, <3>2 DEF CreateChecked, PauseChecked, ResumeChecked, ResumeCounted, ReqFails,
            ConfigUpdated
    <3> QED
        BY <3>1, <3>2
  <2>3. Fresh'
      BY <2>1, <2>2, <1>d, <1>i DEF Ledger, Fresh
  <2>4. \A m \in Loops : GotKnown(m)'
      BY <2>1, <1>d, <1>i DEF Ledger, GotKnown
  <2>5. \A d \in Camps \ exposed' : Once(d)'
      BY <2>1, <1>d, <1>i DEF Ledger, Once
  <2>6. CreatedOnly'
    <3>0. CreatedOnly
        BY <1>i DEF Ledger
    <3>1. /\ req'[q].resumed => req'[q].pc = "start"
          /\ \A c \in Camps : status'[c] = "PENDING" /\ req'[q].camp = c =>
                req'[q].pc \notin {"count", "resume"} /\ ~req'[q].resumed
      <4>0. req[q].resumed => req[q].pc = "start"
          BY <3>0 DEF CreatedOnly
      <4>1. CASE PauseWritten(q) \/ ReqFails(q)
          BY <4>1, <1>t DEF PauseWritten, ReqFails, EndReq
      <4>2. CASE CreateChecked(q)
          BY <4>0, <4>2, <1>t DEF CreateChecked
      <4>3. CASE ConfigUpdated(q)
          BY <4>0, <4>3, <1>t DEF ConfigUpdated, EndReq
      <4>4. CASE PauseChecked(q)
          BY <4>0, <4>4, <1>t DEF PauseChecked
      <4>5. CASE ResumeChecked(q)
          BY <4>0, <4>5, <1>t DEF ResumeChecked
      <4>6. CASE ResumeCounted(q)
        <5>1. \A c \in Camps : status[c] = "PENDING" => req[q].camp # c
            BY <4>6, <3>0 DEF CreatedOnly, ResumeCounted
        <5> QED
            BY <5>1, <4>0, <4>6, <1>t DEF ResumeCounted
      <4>7. CASE ResumeWritten(q)
        <5>1. req[q].camp \in Camps
            BY <4>7, <1>k DEF ResumeWritten, ReqKnown
        <5>2. status'[req[q].camp] = "RUNNING" /\ req'[q].camp = req[q].camp /\ req'[q].pc = "start"
            BY <5>1, <4>7, <1>t DEF ResumeWritten, SetStatus
        <5> QED
            BY <5>2
      <4> QED
          BY <1>3, <4>1, <4>2, <4>3, <4>4, <4>5, <4>6, <4>7
    <3>2. \A c \in Camps : status'[c] = "PENDING" => status[c] = "PENDING"
        BY <2>2
    <3> QED
        BY <3>0, <3>1, <3>2, <2>1, <1>r DEF CreatedOnly
  <2>7. ActiveHasDriver'
    <3> SUFFICES ASSUME NEW c \in Camps, status'[c] \in Active, c \notin orphaned'
                 PROVE  LiveOn(c)' # {} \/ Starting(c)'
        BY DEF ActiveHasDriver, ActiveCamps
    <3>1. CASE ResumeWritten(q) /\ c = req[q].camp
        BY <3>1, <1>t DEF ResumeWritten, Starting
    <3>2. CASE ~(ResumeWritten(q) /\ c = req[q].camp)
      <4>1. status[c] \in Active
          BY <3>2, <2>2 DEF Active
      <4>2. c \notin orphaned
          BY <1>3, <3>2 DEF CreateChecked, PauseChecked, ResumeChecked, ResumeCounted, ReqFails,
              ConfigUpdated, PauseWritten, ResumeWritten, observers
      <4>3. LiveOn(c) # {} \/ Starting(c)
          BY <4>1, <4>2, <1>i DEF Ledger, ActiveHasDriver, ActiveCamps
      <4>4. LiveOn(c)' = LiveOn(c)
          BY <2>1 DEF LiveOn
      <4>5. ASSUME NEW p \in Reqs, req[p].camp = c, req[p].pc \in {"config", "start"}
            PROVE  req'[p].camp = c /\ req'[p].pc \in {"config", "start"}
        <5>1. CASE p # q
            BY <4>5, <5>1, <1>r
        <5>2. CASE p = q
          <6>1. ConfigUpdated(q)
              BY <1>3, <4>5, <5>2 DEF CreateChecked, PauseChecked, ResumeChecked, ResumeCounted, ReqFails,
                  ConfigUpdated, PauseWritten, ResumeWritten
          <6> QED
              BY <6>1, <4>5, <5>2, <1>t DEF ConfigUpdated
        <5> QED
            BY <5>1, <5>2
      <4> QED
          BY <4>3, <4>4, <4>5 DEF Starting
    <3> QED
        BY <3>1, <3>2
  <2> QED
      BY <2>3, <2>4, <2>5, <2>6, <2>7 DEF Ledger
<1> QED
    BY <1>1, <1>2, <1>3 DEF ReqStep, ReqContinues

\* A restart orphans the active campaigns and exposes those with a message whose
\* record it cut off.
LEMMA OtherLedger ==
    ASSUME LInv, (\E c \in Camps : Delete(c)) \/ Crash \/ UNCHANGED vars
    PROVE  Ledger'
<1> USE CampaignsAssumption
<1>i. IInv /\ Ledger
    BY DEF LInv
<1>t. /\ status \in [Camps -> Statuses \cup {"none", "deleted"}]
      /\ delivered \in [Camps -> [Rcpts -> 0..2]]
    BY <1>i DEF IInv, TypeOK
<1>1. ASSUME NEW c \in Camps, Delete(c) PROVE Ledger'
  <2>1. /\ \A d \in Camps : status'[d] \in {status[d], "deleted"}
        /\ UNCHANGED <<row, loop, req, delivered, exposed, orphaned>>
      BY <1>1, <1>t DEF Delete, SetStatus, observers
  <2>2. Fresh'
      BY <2>1, <1>i DEF Ledger, Fresh
  <2>3. CreatedOnly'
      BY <2>1, <1>i DEF Ledger, CreatedOnly
  <2>4. ActiveHasDriver'
      BY <2>1, <1>i DEF Ledger, ActiveHasDriver, ActiveCamps, Active, LiveOn, Starting
  <2>5. \A m \in Loops : GotKnown(m)'
      BY <2>1, <1>i DEF Ledger, GotKnown
  <2>6. \A d \in Camps \ exposed' : Once(d)'
      BY <2>1, <1>i DEF Ledger, Once
  <2> QED
      BY <2>2, <2>3, <2>4, <2>5, <2>6 DEF Ledger
<1>2. ASSUME Crash PROVE Ledger'
  <2>1. /\ \A m \in Loops : loop'[m] = IdleLoop
        /\ \A p \in Reqs : req'[p] = IdleReq
        /\ UNCHANGED <<status, row, delivered>>
        /\ orphaned' = orphaned \cup ActiveCamps
        /\ exposed' = exposed \cup {c \in Camps : \E l \in LiveOn(c) : Unrecorded(l)}
      BY <1>2 DEF Crash
  <2>2. Fresh'
      BY <2>1, <1>i DEF Ledger, Fresh
  <2>3. CreatedOnly'
      BY <2>1 DEF CreatedOnly, IdleLoop, IdleReq
  <2>4. ActiveHasDriver'
      BY <2>1 DEF ActiveHasDriver, ActiveCamps
  <2>5. \A m \in Loops : GotKnown(m)'
      BY <2>1 DEF GotKnown, IdleLoop
  <2>6. ASSUME NEW d \in Camps, d \notin exposed' PROVE Once(d)'
    <3>1. Once(d) /\ \A l \in LiveOn(d) : ~Unrecorded(l)
        BY <2>1, <2>6, <1>i DEF Ledger
    <3>2. \A l \in Loops : loop'[l].camp # d
        BY <2>1 DEF IdleLoop
    <3>3. \A x \in Rcpts : delivered[d][x] <= 1
        BY <3>1 DEF Once
    <3>4. ASSUME NEW x \in Rcpts, delivered[d][x] = 1, row[d][x] = "PENDING" PROVE FALSE
      <4>1. PICK l \in Loops : loop[l].camp = d /\ loop[l].cur = x
          BY <3>1, <3>4 DEF Once
      <4>2. ~Unrecorded(l)
          BY <4>1, <3>1 DEF LiveOn
      <4> QED
          BY <4>1, <4>2, <3>4 DEF Unrecorded
    <3> QED
        BY <3>2, <3>3, <3>4, <2>1 DEF Once
  <2> QED
      BY <2>2, <2>3, <2>4, <2>5, <2>6 DEF Ledger
<1>3. ASSUME UNCHANGED vars PROVE Ledger'
    BY <1>3, <1>i DEF vars, Ledger, Fresh, CreatedOnly, ActiveHasDriver, ActiveCamps, LiveOn,
        Starting, GotKnown, Once
<1> QED
    BY <1>1, <1>2, <1>3

\* The strengthened invariant is inductive.
LEMMA LedgerInv == LInv /\ [Next]_vars => LInv'
<1> SUFFICES ASSUME LInv, [Next]_vars PROVE LInv'
    OBVIOUS
<1>i. IInv /\ Ledger
    BY DEF LInv
<1>1. IInv'
    BY <1>i, LoopStepInv, ReqStepInv, OtherStepInv DEF Next
<1>2. ASSUME NEW l \in Loops, LoopStep(l) PROVE Ledger'
  <2>1. Fresh' /\ CreatedOnly' /\ ActiveHasDriver' /\ \A m \in Loops : GotKnown(m)'
      BY <1>2, <1>i, LoopFresh, LoopCreated, LoopDriver, LoopGot DEF Ledger
  <2>2. \A c \in Camps \ exposed' : Once(c)'
      BY <1>2, LoopOnce
  <2> QED
      BY <2>1, <2>2 DEF Ledger
<1>3. Ledger'
    BY <1>2, ReqLedger, OtherLedger DEF Next
<1> QED
    BY <1>1, <1>3 DEF LInv

LEMMA InitLedger == Init => LInv
<1> SUFFICES ASSUME Init PROVE LInv
    OBVIOUS
<1>1. IInv
    BY InitInv
<1>2. Ledger
    BY CampaignsAssumption DEF Init, Ledger, Fresh, CreatedOnly, ActiveHasDriver, ActiveCamps, Active,
        GotKnown, Once, IdleLoop, IdleReq
<1> QED
    BY <1>1, <1>2 DEF LInv

-----------------------------------------------------------------------------
(* The refinement of BulkSend *)

\* What the refinement mapping substitutes for the variables of BulkSend.
lifeOf == [c \in Camps |-> CASE status[c] = "none" -> "none"
                             [] status[c] = "deleted" -> "gone"
                             [] status[c] = "COMPLETED" -> "done"
                             [] OTHER -> "open"]
attemptedOf == [c \in Camps |-> Rcpts \ Pending(c)]
sentOf == [c \in Camps |-> {x \in Rcpts : row[c][x] = "SENT"}]
reachedOf == [c \in Camps |-> {x \in Rcpts : delivered[c][x] > 0}]
tables == <<attemptedOf, sentOf, reachedOf>>
promised == <<lifeOf, attemptedOf, sentOf, reachedOf>>

\* The steps of BulkSend, read through the mapping.
LEMMA Mapping ==
    /\ promised' = promised => UNCHANGED Promise!vars
    /\ \A c \in Camps : UNCHANGED tables =>
        /\ lifeOf[c] = "none" /\ lifeOf' = [lifeOf EXCEPT ![c] = "open"] => Promise!Next
        /\ lifeOf[c] \in {"open", "done"} /\ attemptedOf[c] = Rcpts
              /\ lifeOf' = [lifeOf EXCEPT ![c] = "done"] => Promise!Next
        /\ lifeOf[c] = "done" /\ lifeOf' = [lifeOf EXCEPT ![c] = "open"] => Promise!Next
        /\ lifeOf[c] \in {"open", "done"} /\ lifeOf' = [lifeOf EXCEPT ![c] = "gone"] => Promise!Next
    /\ \A c \in Camps, x \in Rcpts : lifeOf' = lifeOf =>
        /\ /\ lifeOf[c] # "none" /\ attemptedOf' = attemptedOf /\ sentOf' = sentOf
           /\ reachedOf' = [reachedOf EXCEPT ![c] = @ \cup {x}]
           => Promise!Next
        /\ /\ lifeOf[c] \in {"open", "done"} /\ x \in reachedOf[c] /\ reachedOf' = reachedOf
           /\ attemptedOf' = [attemptedOf EXCEPT ![c] = @ \cup {x}]
           /\ sentOf' = [sentOf EXCEPT ![c] = @ \cup {x}]
           => Promise!Next
        /\ /\ lifeOf[c] \in {"open", "done"} /\ reachedOf' = reachedOf
           /\ attemptedOf' = [attemptedOf EXCEPT ![c] = @ \cup {x}]
           /\ sentOf' = [sentOf EXCEPT ![c] = @ \ {x}]
           => Promise!Next
<1> USE DEF lifeOf, attemptedOf, sentOf, reachedOf, tables
<1>1. promised' = promised => UNCHANGED Promise!vars
    BY DEF promised, Promise!vars
<1>2. ASSUME NEW c \in Camps, UNCHANGED tables
      PROVE  /\ lifeOf[c] = "none" /\ lifeOf' = [lifeOf EXCEPT ![c] = "open"] => Promise!Create(c)
             /\ lifeOf[c] \in {"open", "done"} /\ attemptedOf[c] = Rcpts
                   /\ lifeOf' = [lifeOf EXCEPT ![c] = "done"] => Promise!Finish(c)
             /\ lifeOf[c] = "done" /\ lifeOf' = [lifeOf EXCEPT ![c] = "open"] => Promise!Reopen(c)
             /\ lifeOf[c] \in {"open", "done"} /\ lifeOf' = [lifeOf EXCEPT ![c] = "gone"]
                   => Promise!Drop(c)
  <2>1. lifeOf[c] = "none" /\ lifeOf' = [lifeOf EXCEPT ![c] = "open"] => Promise!Create(c)
      BY <1>2 DEF Promise!Create
  <2>2. lifeOf[c] \in {"open", "done"} /\ attemptedOf[c] = Rcpts
            /\ lifeOf' = [lifeOf EXCEPT ![c] = "done"] => Promise!Finish(c)
      BY <1>2 DEF Promise!Finish, Promise!Shown
  <2>3. lifeOf[c] = "done" /\ lifeOf' = [lifeOf EXCEPT ![c] = "open"] => Promise!Reopen(c)
      BY <1>2 DEF Promise!Reopen
  <2>4. lifeOf[c] \in {"open", "done"} /\ lifeOf' = [lifeOf EXCEPT ![c] = "gone"] => Promise!Drop(c)
      BY <1>2 DEF Promise!Drop, Promise!Shown
  <2> QED
      BY <2>1, <2>2, <2>3, <2>4
<1>3. ASSUME NEW c \in Camps, NEW x \in Rcpts, lifeOf' = lifeOf
      PROVE  /\ /\ lifeOf[c] # "none" /\ attemptedOf' = attemptedOf /\ sentOf' = sentOf
                /\ reachedOf' = [reachedOf EXCEPT ![c] = @ \cup {x}]
                => Promise!Reach(c, x)
             /\ /\ lifeOf[c] \in {"open", "done"} /\ x \in reachedOf[c] /\ reachedOf' = reachedOf
                /\ attemptedOf' = [attemptedOf EXCEPT ![c] = @ \cup {x}]
                /\ sentOf' = [sentOf EXCEPT ![c] = @ \cup {x}]
                => Promise!ReportSent(c, x)
             /\ /\ lifeOf[c] \in {"open", "done"} /\ reachedOf' = reachedOf
                /\ attemptedOf' = [attemptedOf EXCEPT ![c] = @ \cup {x}]
                /\ sentOf' = [sentOf EXCEPT ![c] = @ \ {x}]
                => Promise!ReportFailed(c, x)
  <2>1. lifeOf[c] # "none" /\ attemptedOf' = attemptedOf /\ sentOf' = sentOf
            /\ reachedOf' = [reachedOf EXCEPT ![c] = @ \cup {x}] => Promise!Reach(c, x)
      BY <1>3 DEF Promise!Reach
  <2>2. lifeOf[c] \in {"open", "done"} /\ x \in reachedOf[c] /\ reachedOf' = reachedOf
            /\ attemptedOf' = [attemptedOf EXCEPT ![c] = @ \cup {x}]
            /\ sentOf' = [sentOf EXCEPT ![c] = @ \cup {x}] => Promise!ReportSent(c, x)
      BY <1>3 DEF Promise!ReportSent, Promise!Shown
  <2>3. lifeOf[c] \in {"open", "done"} /\ reachedOf' = reachedOf
            /\ attemptedOf' = [attemptedOf EXCEPT ![c] = @ \cup {x}]
            /\ sentOf' = [sentOf EXCEPT ![c] = @ \ {x}] => Promise!ReportFailed(c, x)
      BY <1>3 DEF Promise!ReportFailed, Promise!Shown
  <2> QED
      BY <2>1, <2>2, <2>3
<1> HIDE DEF lifeOf, attemptedOf, sentOf, reachedOf, tables
<1> QED
    BY <1>1, <1>2, <1>3 DEF Promise!Next

\* How a change of one campaign's status looks to its owner.
LEMMA LifeStep ==
    ASSUME TypeOK, NEW c \in Camps, NEW s \in Statuses \cup {"none", "deleted"},
           status' = [status EXCEPT ![c] = s]
    PROVE  /\ lifeOf' = [lifeOf EXCEPT ![c] = CASE s = "none" -> "none" [] s = "deleted" -> "gone"
                                               [] s = "COMPLETED" -> "done" [] OTHER -> "open"]
           /\ Exists(c) <=> lifeOf[c] \in {"open", "done"}
           /\ lifeOf[c] = "done" <=> status[c] = "COMPLETED"
           /\ lifeOf[c] = "none" <=> status[c] = "none"
<1>1. status' \in [Camps -> Statuses \cup {"none", "deleted"}] /\ status \in [Camps -> Statuses \cup {"none", "deleted"}]
    BY DEF TypeOK
<1> QED
    BY <1>1 DEF lifeOf, Exists, Statuses, Active

\* A status written to a campaign that is there: COMPLETED only when all its
\* recipients are attempted.
LEMMA StatusKept ==
    ASSUME TypeOK, NEW c \in Camps, Exists(c),
           NEW s \in {"PAUSED", "RUNNING", "COMPLETED", "deleted"},
           status' = [status EXCEPT ![c] = s], UNCHANGED <<row, delivered>>,
           s = "COMPLETED" => Pending(c) = {}
    PROVE  Promise!Next \/ UNCHANGED Promise!vars
<1>1. UNCHANGED tables
    BY DEF tables, attemptedOf, sentOf, reachedOf, Pending
<1>2. lifeOf[c] \in {"open", "done"} /\ (lifeOf[c] = "done" <=> status[c] = "COMPLETED")
    BY LifeStep DEF Statuses, Active
<1>3. CASE s = "COMPLETED"
  <2>1. attemptedOf[c] = Rcpts
      BY <1>3 DEF attemptedOf
  <2>2. lifeOf' = [lifeOf EXCEPT ![c] = "done"]
      BY <1>3, LifeStep DEF Statuses, Active
  <2> QED
      BY <1>1, <1>2, <2>1, <2>2, Mapping
<1>4. CASE s = "deleted"
  <2>1. lifeOf' = [lifeOf EXCEPT ![c] = "gone"]
      BY <1>4, LifeStep DEF Statuses, Active
  <2> QED
      BY <1>1, <1>2, <2>1, Mapping
<1>5. CASE s \in {"PAUSED", "RUNNING"}
  <2>1. lifeOf' = [lifeOf EXCEPT ![c] = "open"]
      BY <1>5, LifeStep DEF Statuses, Active
  <2>2. CASE lifeOf[c] = "done"
      BY <1>1, <2>1, <2>2, Mapping
  <2>3. CASE lifeOf[c] = "open"
    <3>1. lifeOf' = lifeOf
        BY <2>1, <2>3 DEF lifeOf
    <3> QED
        BY <1>1, <3>1, Mapping DEF promised, tables
  <2> QED
      BY <1>2, <2>2, <2>3
<1> QED
    BY <1>3, <1>4, <1>5

\* What a loop does is a step of the promise or invisible to the owner.
LEMMA LoopKept ==
    ASSUME LInv, NEW l \in Loops, LoopStep(l)
    PROVE  Promise!Next \/ UNCHANGED Promise!vars
<1>t. /\ IInv /\ TypeOK /\ GotKnown(l) /\ IInv'
      /\ status \in [Camps -> Statuses \cup {"none", "deleted"}]
      /\ row \in [Camps -> [Rcpts -> {"PENDING", "SENT", "FAILED"}]]
      /\ delivered \in [Camps -> [Rcpts -> 0..2]]
    BY LoopStepInv DEF LInv, Ledger, IInv, TypeOK
<1>c. PICK c \in Camps : c = loop[l].camp /\ status[c] # "none"
    BY <1>t, LoopEffect
<1>b. loop[l].pc \in Busy => loop[l].cur \in Rcpts
    BY <1>t DEF IInv, LoopInv, LoopKnown
<1>1. CASE MarkRunning(l) \/ PauseForQuota(l)
  <2>1. PICK s \in {"PAUSED", "RUNNING"} : status' = [status EXCEPT ![c] = s]
      BY <1>1, <1>c DEF MarkRunning, PauseForQuota, SetStatus
  <2>2. Exists(c) /\ UNCHANGED <<row, delivered>>
      BY <1>1, <1>c DEF MarkRunning, PauseForQuota, observers
  <2> QED
      BY <2>1, <2>2, <1>t, StatusKept
<1>2. CASE Complete(l)
  <2>1. Exists(c) /\ UNCHANGED <<row, delivered>> /\ status' = [status EXCEPT ![c] = "COMPLETED"]
      BY <1>2, <1>c DEF Complete, SetStatus, observers
  <2>2. status'[c] = "COMPLETED"
      BY <2>1, <1>t
  <2>3. Pending(c) = {}
      BY <2>1, <2>2, <1>t DEF IInv, CompletedMeansAllAttempted, Pending
  <2> QED
      BY <2>1, <2>3, <1>t, StatusKept
<1>3. CASE EngineDelivers(l)
  <2>1. PICK x \in Rcpts : x = loop[l].cur
      BY <1>3, <1>b DEF EngineDelivers, Busy
  <2>2. /\ UNCHANGED <<status, row>> /\ delivered' \in [Camps -> [Rcpts -> 0..2]]
        /\ delivered'[c][x] > 0
        /\ \A y \in Rcpts \ {x} : delivered'[c][y] = delivered[c][y]
        /\ \A d \in Camps \ {c} : delivered'[d] = delivered[d]
    <3>1. delivered' = [delivered EXCEPT ![c][x] = IF @ < 2 THEN @ + 1 ELSE 2]
        BY <1>3, <1>c, <2>1 DEF EngineDelivers
    <3>2. delivered[c][x] \in 0..2
        BY <1>t, <2>1
    <3>3. /\ delivered'[c][x] > 0
          /\ \A y \in Rcpts \ {x} : delivered'[c][y] = delivered[c][y]
          /\ \A d \in Camps \ {c} : delivered'[d] = delivered[d]
        BY <3>1, <3>2, <1>t
    <3> QED
        BY <3>3, <1>3, <1>t DEF EngineDelivers, IInv, TypeOK
  <2>3. reachedOf' = [reachedOf EXCEPT ![c] = @ \cup {x}]
      BY <2>2 DEF reachedOf
  <2>4. lifeOf[c] # "none"
      BY <1>c, <1>t DEF lifeOf
  <2>5. lifeOf' = lifeOf /\ attemptedOf' = attemptedOf /\ sentOf' = sentOf
      BY <2>2 DEF lifeOf, attemptedOf, sentOf, Pending
  <2> QED
      BY <2>3, <2>4, <2>5, Mapping
<1>4. CASE RecordSent(l) \/ RecordFailed(l)
  <2>1. PICK x \in Rcpts : x = loop[l].cur
      BY <1>4, <1>b DEF RecordSent, RecordFailed, Busy
  <2>2. PICK s \in {"SENT", "FAILED"} :
            /\ row' = [row EXCEPT ![c] = [row[c] EXCEPT ![x] = s]]
            /\ s = "SENT" => delivered[c][x] > 0
      BY <1>4, <1>c, <1>t, <2>1 DEF RecordSent, RecordFailed, GotKnown
  <2>3. UNCHANGED <<status, delivered>> /\ Exists(c)
      BY <1>4, <1>c DEF RecordSent, RecordFailed, observers
  <2>4. /\ row'[c][x] = s
        /\ \A y \in Rcpts \ {x} : row'[c][y] = row[c][y]
        /\ \A d \in Camps \ {c} : row'[d] = row[d]
      BY <2>2, <1>t
  <2>5. lifeOf' = lifeOf /\ reachedOf' = reachedOf
      BY <2>3 DEF lifeOf, reachedOf
  <2>6. lifeOf[c] \in {"open", "done"}
      BY <2>3, <1>t DEF lifeOf, Exists, Statuses, Active
  <2>7. attemptedOf' = [attemptedOf EXCEPT ![c] = @ \cup {x}]
      BY <2>4 DEF attemptedOf, Pending
  <2>8. CASE s = "SENT"
    <3>1. sentOf' = [sentOf EXCEPT ![c] = @ \cup {x}]
        BY <2>4, <2>8 DEF sentOf
    <3>2. x \in reachedOf[c]
        BY <2>2, <2>8 DEF reachedOf
    <3> QED
        BY <2>5, <2>6, <2>7, <3>1, <3>2, Mapping
  <2>9. CASE s = "FAILED"
    <3>1. sentOf' = [sentOf EXCEPT ![c] = @ \ {x}]
        BY <2>4, <2>9 DEF sentOf
    <3> QED
        BY <2>5, <2>6, <2>7, <3>1, Mapping
  <2> QED
      BY <2>8, <2>9
<1>5. CASE \/ Load(l) \/ LoadRefused(l) \/ Check(l) \/ CheckStops(l) \/ Reserve(l)
           \/ SendReturns(l) \/ SendThrows(l) \/ SendRetried(l) \/ RecordSentThrows(l)
           \/ WriteLog(l) \/ LoopDies(l)
  <2>1. UNCHANGED <<status, row, delivered>>
      BY <1>5 DEF Load, LoadRefused, Check, CheckStops, Reserve, SendReturns, SendThrows,
          SendRetried, RecordSentThrows, WriteLog, LoopDies, observers
  <2> QED
      BY <2>1, Mapping DEF promised, lifeOf, attemptedOf, sentOf, reachedOf, Pending
<1> QED
    BY <1>1, <1>2, <1>3, <1>4, <1>5 DEF LoopStep

\* So is what a request does.
LEMMA ReqKept ==
    ASSUME LInv, NEW q \in Reqs, ReqStep(q)
    PROVE  Promise!Next \/ UNCHANGED Promise!vars
<1>t. /\ IInv /\ TypeOK /\ Fresh /\ ReqKnown(q)
      /\ status \in [Camps -> Statuses \cup {"none", "deleted"}]
      /\ row \in [Camps -> [Rcpts -> {"PENDING", "SENT", "FAILED"}]]
    BY DEF LInv, Ledger, IInv, TypeOK, ReqInv
<1>1. CASE CreateInserted(q)
  <2>1. PICK c \in Camps : /\ status[c] = "none" /\ status' = [status EXCEPT ![c] = "PENDING"]
                           /\ row' = [row EXCEPT ![c] = [x \in Rcpts |-> "PENDING"]]
      BY <1>1 DEF CreateInserted, SetStatus
  <2>2. row' = row
    <3>1. row[c] = [x \in Rcpts |-> "PENDING"]
        BY <2>1, <1>t DEF Fresh
    <3> QED
        BY <2>1, <3>1, <1>t
  <2>3. UNCHANGED tables
      BY <1>1, <2>2 DEF CreateInserted, observers, tables, attemptedOf, sentOf, reachedOf, Pending
  <2>4. lifeOf[c] = "none" /\ lifeOf' = [lifeOf EXCEPT ![c] = "open"]
    <3>1. /\ status'[c] = "PENDING"
          /\ \A d \in Camps \ {c} : status'[d] = status[d]
        BY <2>1, <1>t
    <3> QED
        BY <2>1, <3>1 DEF lifeOf
  <2> QED
      BY <2>3, <2>4, Mapping
<1>2. CASE PauseWritten(q) \/ ResumeWritten(q)
  <2>1. PICK c \in Camps : c = req[q].camp
      BY <1>2, <1>t DEF PauseWritten, ResumeWritten, ReqKnown
  <2>2. PICK s \in {"PAUSED", "RUNNING"} : status' = [status EXCEPT ![c] = s]
      BY <1>2, <2>1 DEF PauseWritten, ResumeWritten, SetStatus
  <2>3. Exists(c) /\ UNCHANGED <<row, delivered>>
      BY <1>2, <2>1 DEF PauseWritten, ResumeWritten, observers
  <2> QED
      BY <2>2, <2>3, <1>t, StatusKept
<1>3. CASE ~(CreateInserted(q) \/ PauseWritten(q) \/ ResumeWritten(q))
  <2>1. UNCHANGED <<status, row, delivered>>
      BY <1>3 DEF ReqStep, ReqContinues, CreateChecked, PauseChecked, ResumeChecked, ResumeCounted,
          ReqFails, ConfigUpdated, StartLoop, observers
  <2> QED
      BY <2>1, Mapping DEF promised, lifeOf, attemptedOf, sentOf, reachedOf, Pending
<1> QED
    BY <1>1, <1>2, <1>3

\* So is every step.
LEMMA StepKept == LInv /\ [Next]_vars => [Promise!Next]_(Promise!vars)
<1> SUFFICES ASSUME LInv, [Next]_vars PROVE Promise!Next \/ UNCHANGED Promise!vars
    OBVIOUS
<1>1. ASSUME NEW c \in Camps, Delete(c) PROVE Promise!Next \/ UNCHANGED Promise!vars
    BY <1>1, StatusKept DEF Delete, SetStatus, observers, LInv, IInv
<1>2. CASE Crash \/ UNCHANGED vars
    BY <1>2, Mapping DEF Crash, vars, promised, lifeOf, attemptedOf, sentOf, reachedOf, Pending
<1> QED
    BY <1>1, <1>2, LoopKept, ReqKept DEF Next

LEMMA InitKept == Init => Promise!Init
    BY DEF Init, Promise!Init, Pending

-----------------------------------------------------------------------------
(* The theorems *)

\* The invariant the following rest on.
THEOREM Invariance == Spec => []IInv
  <1>1. IInv /\ [Next]_vars => IInv'
    BY LoopStepInv, ReqStepInv, OtherStepInv DEF Next
  <1> QED
    BY <1>1, InitInv, PTL DEF Spec

\* The tables, the loops and the requests keep their types
\* (schema.prisma, runCampaignBackground, the handlers of app/api/campaigns).
THEOREM TypeCorrect == Spec => []TypeOK
  <1>1. IInv => TypeOK
    BY DEF IInv
  <1> QED
    BY <1>1, Invariance, PTL

\* A campaign is COMPLETED only when no recipient is PENDING, whatever loops,
\* requests, deletions and restarts did to it (runCampaignBackground's last update).
THEOREM CompletedMeansAllAttemptedAlways == Spec => []CompletedMeansAllAttempted
  <1>1. IInv => CompletedMeansAllAttempted
    BY DEF IInv
  <1> QED
    BY <1>1, Invariance, PTL

\* A loop messages at most one recipient after its campaign stopped being
\* RUNNING (the status check at the head of runCampaignBackground's for loop).
THEOREM AtMostOneLateSendAlways == Spec => []AtMostOneLateSend
  <1>1. IInv => AtMostOneLateSend
    <2> SUFFICES ASSUME IInv, NEW l \in Loops PROVE Cardinality(loop[l].late) <= 1
      BY DEF AtMostOneLateSend
    <2>1. \A x, y \in loop[l].late : x = y
      BY DEF IInv, LoopInv, LateOnce
    <2>2. CASE loop[l].late = {}
      BY <2>2, FS_EmptySet
    <2>3. CASE loop[l].late # {}
      <3>1. PICK x : loop[l].late = {x}
        BY <2>1, <2>3
      <3>2. Cardinality({x}) = 1
        BY FS_Singleton
      <3> QED
        BY <3>1, <3>2
    <2> QED
      BY <2>2, <2>3
  <1> QED
    BY <1>1, Invariance, PTL

\* The account of messages and drivers the following rest on.
THEOREM Accounted == Spec => []LInv
<1> QED
    BY InitLedger, LedgerInv, PTL DEF Spec

\* An active campaign has a loop or a request about to start one, unless a
\* restart, a database error or a failed Google Sheets request took it away.
THEOREM ActiveHasDriverAlways == Spec => []ActiveHasDriver
<1>1. LInv => ActiveHasDriver
    BY DEF LInv, Ledger
<1> QED
    BY <1>1, Accounted, PTL

\* Nobody is messaged twice by a campaign that never had two loops at once, a
\* retried send that had gone out, or a loop that died between a send and its
\* record (the read of PENDING recipients and recordSent in runCampaignBackground).
THEOREM AtMostOnceAlways == Spec => []AtMostOnce
<1>1. LInv => AtMostOnce
    BY DEF LInv, Ledger, AtMostOnce, Once
<1> QED
    BY <1>1, Accounted, PTL

\* Every step of loops and requests is a step of the owner's view or hides from
\* it: Campaigns implements BulkSend.
THEOREM KeepsPromiseAlways == Spec => KeepsPromise
<1> QED
    BY Accounted, InitKept, StepKept, PTL DEF Spec, KeepsPromise, Promise!Spec
=============================================================================
