------------------------- MODULE MessageQuotaProofs -------------------------
(***************************************************************************)
(* Proofs about MessageQuota, for every set of senders, of plan limits and *)
(* every bound.                                                            *)
(***************************************************************************)
EXTENDS MessageQuota, FiniteSetTheorems, TLAPS

\* The program counters of a call that is with the engine.
USE DEF InFlight

\* The limit a call has read was in force, so it is at most the peak.
LimitsKnown == limit <= peak /\ \A s \in Senders : call[s].limit <= peak

\* Only a call that reached the engine can have delivered.
GotInSend == \A s \in Senders : call[s].got => call[s].pc \in InFlight \cup {"releasing"}

Ledger == NothingFree /\ NothingOvercharged

IInv == TypeOK /\ LimitsKnown /\ GotInSend /\ WithinLimit /\ Ledger

-----------------------------------------------------------------------------
(* Counting the units in use *)

One(b) == IF b THEN 1 ELSE 0

\* The units in use are finitely many.
LEMMA OutstandingNat ==
    \A m : /\ IsFiniteSet(Outstanding(m))
           /\ Cardinality(Outstanding(m)) \in Nat
  <1> TAKE m
  <1>1. Outstanding(m) \subseteq Senders
    BY DEF Outstanding
  <1>2. IsFiniteSet(Outstanding(m))
    BY <1>1, FS_Subset, QuotaAssumption
  <1> QED
    BY <1>2, FS_CardinalityType

\* A step of one call moves the count by what that call gained or lost.
LEMMA OutstandingStep ==
    ASSUME NEW s \in Senders, NEW m,
           \A t \in Senders \ {s} : call'[t] = call[t]
    PROVE  /\ Cardinality(Outstanding(m)') \in Nat
           /\ Cardinality(Outstanding(m)') =
                Cardinality(Outstanding(m)) + One(Holds(call'[s], m)) - One(Holds(call[s], m))
  <1> DEFINE Old == Outstanding(m)
             New == {t \in Senders : Holds(call'[t], m)}
             n == Cardinality(Old)
  <1>0. Outstanding(m)' = New
    BY DEF Outstanding, Holds
  <1>1. IsFiniteSet(Old) /\ Cardinality(Old) \in Nat
    BY OutstandingNat
  <1>2. \A t \in Senders \ {s} : Holds(call'[t], m) <=> Holds(call[t], m)
    OBVIOUS
  <1>3. s \in Old <=> Holds(call[s], m)
    BY DEF Outstanding
  <1>n. Cardinality(New) \in Nat
    BY FS_Subset, FS_CardinalityType, QuotaAssumption, New \subseteq Senders
  <1>4. CASE Holds(call[s], m) /\ ~Holds(call'[s], m)
    <2>1. New = Old \ {s}
      BY <1>2, <1>4 DEF Outstanding
    <2>2. Cardinality(New) = Cardinality(Old) - 1
      BY <2>1, <1>1, <1>3, <1>4, FS_RemoveElement
    <2> QED
      BY <2>2, <1>0, <1>n, <1>1, <1>4 DEF One
  <1>5. CASE ~Holds(call[s], m) /\ Holds(call'[s], m)
    <2>1. New = Old \cup {s}
      BY <1>2, <1>5 DEF Outstanding
    <2>2. Cardinality(New) = Cardinality(Old) + 1
      BY <2>1, <1>1, <1>3, <1>5, FS_AddElement
    <2> QED
      BY <2>2, <1>0, <1>n, <1>1, <1>5 DEF One
  <1>6. CASE Holds(call[s], m) <=> Holds(call'[s], m)
    <2>1. New = Old
      BY <1>2, <1>6 DEF Outstanding
    <2>2. One(Holds(call'[s], m)) = One(Holds(call[s], m)) /\ One(Holds(call[s], m)) \in {0, 1}
      BY <1>6 DEF One
    <2>3. Cardinality(Outstanding(m)') = n
      BY <2>1, <1>0
    <2> HIDE DEF Old, New
    <2> QED
      BY <2>2, <2>3, <1>1 DEF Old
  <1> QED
    BY <1>4, <1>5, <1>6
-----------------------------------------------------------------------------
(* The invariant *)

\* No call is in progress and nothing is counted initially.
LEMMA InitInv == Init => IInv
  <1> SUFFICES ASSUME Init PROVE IInv
    OBVIOUS
  <1> USE QuotaAssumption
  <1>1. TypeOK
    BY DEF Init, TypeOK, Months, Calls, Idle
  <1>2. \A m : Outstanding(m) = {}
    BY DEF Init, Outstanding, Holds, Idle
  <1>3. \A m : Cardinality(Outstanding(m)) = 0
    BY <1>2, FS_EmptySet
  <1>4. LimitsKnown /\ GotInSend
    BY DEF Init, LimitsKnown, GotInSend, Idle
  <1>5. WithinLimit
    BY <1>1 DEF Init, WithinLimit, TypeOK
  <1>6. Ledger
    BY <1>3 DEF Init, Ledger, NothingFree, NothingOvercharged
  <1> QED
    BY <1>1, <1>4, <1>5, <1>6 DEF IInv

\* A step of sendWithMessageQuota keeps the invariant: the counter, the messages
\* delivered and the units in use move together.
LEMMA CallStepInv ==
    ASSUME IInv, NEW s \in Senders, CallStep(s)
    PROVE  IInv'
  <1> USE QuotaAssumption
  <1> DEFINE Out(m) == Cardinality(Outstanding(m))
  <1>t. TypeOK /\ LimitsKnown /\ GotInSend /\ WithinLimit /\ Ledger
    BY DEF IInv
  <1>a. /\ \A t \in Senders \ {s} : call'[t] = call[t]
        /\ call'[s] \in Calls /\ call' \in [Senders -> Calls]
    <2>1. call' = [call EXCEPT ![s] = call'[s]]
      BY <1>t DEF CallStep, ReadPlan, ReadPeriod, Reserve, ReserveFails, EngineDelivers, SendRetried,
                  SendReturns, SendThrows, Release, ReleaseFails, TypeOK
    <2>2. Idle \in Calls
      BY DEF Idle, Calls, Months
    <2>3. call'[s] \in Calls
      <3>1. CASE ReadPlan(s) \/ ReadPeriod(s)
        BY <3>1, <1>t, <2>2 DEF ReadPlan, ReadPeriod, TypeOK, Calls
      <3>2. CASE Reserve(s) \/ SendThrows(s)
        BY <3>2, <1>t DEF Reserve, SendThrows, TypeOK, Calls
      <3>4. CASE EngineDelivers(s)
        <4>1. call'[s] = [call[s] EXCEPT !.got = TRUE]
          BY <3>4, <1>t DEF EngineDelivers, TypeOK
        <4>2. call[s] \in Calls
          BY <1>t DEF TypeOK
        <4> QED
          BY <4>1, <4>2 DEF Calls
      <3>5. CASE SendRetried(s)
        <4>1. /\ call'[s].pc = "resending" /\ call'[s].got = FALSE
              /\ call'[s] = [pc |-> "resending", limit |-> call[s].limit,
                            month |-> call[s].month, got |-> FALSE]
          BY <3>5, <1>t DEF SendRetried, TypeOK, Calls
        <4> QED
          BY <4>1, <1>t DEF TypeOK, Calls
      <3>3. CASE ReserveFails(s) \/ SendReturns(s) \/ Release(s) \/ ReleaseFails(s)
        BY <3>3, <1>t, <2>2 DEF ReserveFails, SendReturns, Release, ReleaseFails, TypeOK
      <3> QED
        BY <3>1, <3>2, <3>3, <3>4, <3>5 DEF CallStep
    <2> QED
      BY <2>1, <2>3, <1>t DEF TypeOK
  <1>b. ASSUME NEW m \in Months
        PROVE  /\ Out(m) \in Nat /\ Out(m)' \in Nat
               /\ Out(m)' = Out(m) + One(Holds(call'[s], m)) - One(Holds(call[s], m))
    BY <1>a, OutstandingStep, OutstandingNat
  <1>1. TypeOK'
    <2>1. month' \in Months /\ limit' \in Limits /\ peak' \in Limits /\ resets' \in 0..MaxResets
      BY <1>t DEF CallStep, ReadPlan, ReadPeriod, Reserve, ReserveFails, EngineDelivers, SendRetried,
                  SendReturns, SendThrows, Release, ReleaseFails, TypeOK, observers
    <2>2. /\ sentCount' \in [Months -> Nat] /\ delivered' \in [Months -> Nat]
          /\ uncounted' \in [Months -> Nat] /\ leaked' \in [Months -> Nat]
      BY <1>t DEF CallStep, ReadPlan, ReadPeriod, Reserve, ReserveFails, EngineDelivers, SendRetried,
                  SendReturns, SendThrows, Release, ReleaseFails, TypeOK, observers, Calls
    <2> QED
      BY <2>1, <2>2, <1>a DEF TypeOK
  <1>2. LimitsKnown'
    BY <1>t DEF CallStep, ReadPlan, ReadPeriod, Reserve, ReserveFails, EngineDelivers, SendRetried,
                SendReturns, SendThrows, Release, ReleaseFails, TypeOK, observers, Calls,
                LimitsKnown, Idle
  <1>3. GotInSend'
    BY <1>t DEF CallStep, ReadPlan, ReadPeriod, Reserve, ReserveFails, EngineDelivers, SendRetried,
                SendReturns, SendThrows, Release, ReleaseFails, TypeOK, Calls, GotInSend, Idle
  <1>4. WithinLimit'
    BY <1>t DEF CallStep, ReadPlan, ReadPeriod, Reserve, ReserveFails, EngineDelivers, SendRetried,
                SendReturns, SendThrows, Release, ReleaseFails, TypeOK, observers, Calls,
                WithinLimit, LimitsKnown
  <1>5. Ledger'
    <2> SUFFICES ASSUME NEW m \in Months
                 PROVE  /\ delivered'[m] + Out(m)' <= sentCount'[m] + uncounted'[m]
                        /\ sentCount'[m] <= delivered'[m] + Out(m)' + leaked'[m]
      BY DEF Ledger, NothingFree, NothingOvercharged
    <2>0. /\ delivered[m] + Out(m) <= sentCount[m] + uncounted[m]
          /\ sentCount[m] <= delivered[m] + Out(m) + leaked[m]
          /\ delivered[m] \in Nat /\ sentCount[m] \in Nat
          /\ uncounted[m] \in Nat /\ leaked[m] \in Nat
      BY <1>t DEF Ledger, NothingFree, NothingOvercharged, TypeOK
    <2>h. /\ Holds(call[s], m) <=> /\ call[s].pc \in InFlight \cup {"releasing"}
                                   /\ call[s].month = m /\ ~call[s].got
          /\ Holds(call'[s], m) <=> /\ call'[s].pc \in InFlight \cup {"releasing"}
                                    /\ call'[s].month = m /\ ~call'[s].got
      BY DEF Holds
    <2>1. CASE \/ ReadPlan(s) \/ ReadPeriod(s) \/ ReserveFails(s) \/ SendReturns(s)
               \/ SendThrows(s)
      <3>1. UNCHANGED <<sentCount, delivered, uncounted, leaked>>
        BY <2>1 DEF ReadPlan, ReadPeriod, ReserveFails, SendReturns, SendThrows, observers
      <3>2. Holds(call'[s], m) <=> Holds(call[s], m)
        BY <2>1, <2>h, <1>t DEF ReadPlan, ReadPeriod, ReserveFails, SendReturns, SendThrows,
                                TypeOK, Calls, Idle, GotInSend
      <3>3. Out(m)' = Out(m)
        BY <3>2, <1>b DEF One
      <3> QED
        BY <3>1, <3>3, <2>0
    <2>2. CASE Reserve(s)
      <3>1. /\ UNCHANGED <<delivered, uncounted, leaked>>
            /\ sentCount'[m] = sentCount[m] + One(call[s].month = m)
        BY <2>2, <1>t DEF Reserve, TypeOK, Calls, observers, One
      <3>2. Out(m)' = Out(m) + One(call[s].month = m)
        BY <2>2, <1>t, <1>b, <2>h DEF Reserve, TypeOK, Calls, GotInSend, One
      <3> QED
        BY <3>1, <3>2, <2>0, <1>b DEF One
    <2>3. CASE EngineDelivers(s)
      <3>1. /\ UNCHANGED <<sentCount, uncounted, leaked>>
            /\ delivered'[m] = delivered[m] + One(call[s].month = m)
        BY <2>3, <1>t DEF EngineDelivers, TypeOK, Calls, One
      <3>2. Out(m)' = Out(m) - One(call[s].month = m)
        BY <2>3, <1>t, <1>b, <2>h DEF EngineDelivers, TypeOK, Calls, One
      <3> QED
        BY <3>1, <3>2, <2>0, <1>b DEF One
    <2>6. CASE SendRetried(s)
      <3>1. /\ UNCHANGED <<sentCount, delivered, leaked>>
            /\ uncounted'[m] = uncounted[m] + One(call[s].month = m /\ call[s].got)
        BY <2>6, <1>t DEF SendRetried, TypeOK, Calls, One
      <3>2. Out(m)' = Out(m) + One(call[s].month = m /\ call[s].got)
        BY <2>6, <1>t, <1>b, <2>h DEF SendRetried, TypeOK, Calls, One
      <3> QED
        BY <3>1, <3>2, <2>0, <1>b DEF One
    <2>4. CASE Release(s)
      <3> DEFINE taken == m = month /\ sentCount[month] > 0
                 held == Holds(call[s], m)
                 misplaced == call[s].got \/ call[s].month # month
      <3>1. /\ delivered'[m] = delivered[m]
            /\ sentCount'[m] = sentCount[m] - One(taken)
        BY <2>4, <1>t DEF Release, TypeOK, One
      <3>2. uncounted'[m] = uncounted[m] + One(taken /\ misplaced)
        BY <2>4, <1>t DEF Release, TypeOK, One
      <3>3. leaked'[m] = leaked[m] + One(call[s].month = m /\ m # month /\ ~call[s].got)
        BY <2>4, <1>t DEF Release, TypeOK, Calls, One
      <3>4. Out(m)' = Out(m) - One(held)
        BY <2>4, <1>t, <1>b, <2>h DEF Release, TypeOK, Calls, One, Idle
      <3>5. held <=> (call[s].month = m /\ ~call[s].got)
        BY <2>4, <2>h DEF Release
      <3>6. taken => sentCount[m] > 0
        OBVIOUS
      <3>7. CASE taken
        BY <3>1, <3>2, <3>3, <3>4, <3>5, <3>7, <2>0, <1>b DEF One
      <3>8. CASE ~taken
        BY <3>1, <3>2, <3>3, <3>4, <3>5, <3>8, <2>0, <1>b DEF One
      <3> QED
        BY <3>7, <3>8
    <2>5. CASE ReleaseFails(s)
      <3>1. UNCHANGED <<sentCount, uncounted, delivered>>
        BY <2>5 DEF ReleaseFails
      <3>2. leaked'[m] = leaked[m] + One(Holds(call[s], m))
        BY <2>5, <2>h, <1>t DEF ReleaseFails, TypeOK, Calls, One
      <3>3. Out(m)' = Out(m) - One(Holds(call[s], m))
        BY <2>5, <1>t, <1>b, <2>h DEF ReleaseFails, TypeOK, Calls, One, Idle
      <3> QED
        BY <3>1, <3>2, <3>3, <2>0, <1>b DEF One
    <2> QED
      BY <2>1, <2>2, <2>3, <2>4, <2>5, <2>6 DEF CallStep
  <1> QED
    BY <1>1, <1>2, <1>3, <1>4, <1>5 DEF IInv

\* What happens around the calls keeps the invariant.
LEMMA EnvironmentInv ==
    ASSUME IInv, NextMonth \/ ChangePlan \/ AdminReset \/ Restart
    PROVE  IInv'
  <1> USE QuotaAssumption
  <1>t. TypeOK /\ LimitsKnown /\ GotInSend /\ WithinLimit /\ Ledger
    BY DEF IInv
  <1>1. CASE NextMonth \/ ChangePlan
    <2>1. TypeOK' /\ GotInSend'
      <3>1. CASE NextMonth
        <4>1. month' \in Months
          BY <3>1, <1>t DEF NextMonth, TypeOK, Months
        <4>2. UNCHANGED <<limit, sentCount, call, peak, delivered, uncounted, leaked, resets>>
          BY <3>1 DEF NextMonth, observers
        <4> QED
          BY <4>1, <4>2, <1>t DEF TypeOK, GotInSend
      <3>2. CASE ChangePlan
        <4>1. PICK l \in Limits : limit' = l /\ peak' = IF l > peak THEN l ELSE peak
          BY <3>2 DEF ChangePlan
        <4>2. limit' \in Limits /\ peak' \in Limits
          BY <4>1, <1>t DEF TypeOK
        <4>3. UNCHANGED <<month, sentCount, call, delivered, uncounted, leaked, resets>>
          BY <3>2 DEF ChangePlan
        <4> QED
          BY <4>2, <4>3, <1>t DEF TypeOK, GotInSend
      <3> QED
        BY <1>1, <3>1, <3>2
    <2>3. LimitsKnown' /\ WithinLimit'
      <3>1. peak' \in Nat /\ peak \in Nat /\ peak' >= peak /\ peak' >= limit'
        BY <1>1, <1>t DEF NextMonth, ChangePlan, observers, TypeOK, LimitsKnown
      <3>2. UNCHANGED <<call, sentCount>>
        BY <1>1 DEF NextMonth, ChangePlan
      <3>3. limit' \in Nat
        BY <1>1, <1>t DEF NextMonth, ChangePlan, TypeOK
      <3>4. \A s \in Senders : call[s].limit \in Nat
        BY <1>t DEF TypeOK, Calls
      <3> QED
        BY <3>1, <3>2, <3>3, <3>4, <1>t DEF LimitsKnown, WithinLimit, TypeOK
    <2>2. Ledger'
      BY <1>1, <1>t DEF NextMonth, ChangePlan, observers, Ledger, NothingFree,
                        NothingOvercharged, Outstanding, Holds
    <2> QED
      BY <2>1, <2>2, <2>3 DEF IInv
  <1>2. CASE AdminReset
    <2>1. TypeOK' /\ LimitsKnown' /\ GotInSend' /\ WithinLimit'
      BY <1>2, <1>t DEF AdminReset, TypeOK, LimitsKnown, GotInSend, WithinLimit
    <2>2. \A m : Outstanding(m)' = Outstanding(m)
      BY <1>2 DEF AdminReset, Outstanding, Holds
    <2>3. Ledger'
      BY <1>2, <1>t, <2>2, OutstandingNat
         DEF AdminReset, TypeOK, Ledger, NothingFree, NothingOvercharged
    <2> QED
      BY <2>1, <2>3 DEF IInv
  <1>3. CASE Restart
    <2>0. Idle \in Calls
      BY DEF Idle, Calls, Months
    <2>1. TypeOK'
      BY <1>3, <1>t, <2>0, OutstandingNat DEF Restart, TypeOK
    <2>2. LimitsKnown' /\ GotInSend' /\ WithinLimit'
      BY <1>3, <1>t DEF Restart, TypeOK, LimitsKnown, GotInSend, WithinLimit, Idle
    <2>3. \A m : Outstanding(m)' = {}
      BY <1>3 DEF Restart, Outstanding, Holds, Idle
    <2>4. \A m : Cardinality(Outstanding(m)') = 0
      BY <2>3, FS_EmptySet
    <2>5. Ledger'
      BY <1>3, <1>t, <2>4, OutstandingNat
         DEF Restart, TypeOK, Ledger, NothingFree, NothingOvercharged
    <2> QED
      BY <2>1, <2>2, <2>5 DEF IInv
  <1> QED
    BY <1>1, <1>2, <1>3

\* Every step of the program and its surroundings keeps the invariant.
LEMMA StepInv == IInv /\ [Next]_vars => IInv'
  <1> SUFFICES ASSUME IInv, [Next]_vars PROVE IInv'
    OBVIOUS
  <1>1. CASE UNCHANGED vars
    BY <1>1 DEF vars, IInv, TypeOK, LimitsKnown, GotInSend, WithinLimit, Ledger,
                NothingFree, NothingOvercharged, Outstanding, Holds
  <1>2. CASE Next
    BY <1>2, CallStepInv, EnvironmentInv DEF Next
  <1> QED
    BY <1>1, <1>2

\* IInv is inductive: it holds in every reachable state.
THEOREM Invariance == Spec => []IInv
  <1> QED
    BY InitInv, StepInv, PTL DEF Spec

-----------------------------------------------------------------------------
(* The results *)

\* Type correctness.
THEOREM TypeCorrect == Spec => []TypeOK
  <1> QED
    BY Invariance, PTL DEF IInv

\* The counter never exceeds the highest limit the account has had, whichever
\* senders race in reserveMessageQuota and however the plan changes meanwhile.
THEOREM WithinLimitAlways == Spec => []WithinLimit
  <1> QED
    BY Invariance, PTL DEF IInv

\* Every delivered message is on the counter, except the units a reset wiped,
\* those a release returned in the wrong month or for a message that went out,
\* and the second message of a repeated request.
THEOREM NothingFreeAlways == Spec => []NothingFree
  <1> QED
    BY Invariance, PTL DEF IInv, Ledger

\* The counter charges for nothing else, except after restarts and failed or
\* misplaced releases.
THEOREM NothingOverchargedAlways == Spec => []NothingOvercharged
  <1> QED
    BY Invariance, PTL DEF IInv, Ledger

\* The allowance: a month none of whose units was wiped or misplaced never
\* delivers more than the plan's limit.
THEOREM AllowanceAlways == Spec => []AllowanceHolds
  <1>1. IInv => AllowanceHolds
    <2> SUFFICES ASSUME IInv, NEW m \in Months, uncounted[m] = 0
                 PROVE  delivered[m] <= peak
      BY DEF AllowanceHolds
    <2>1. /\ sentCount[m] \in Nat /\ delivered[m] \in Nat /\ peak \in Nat
          /\ Cardinality(Outstanding(m)) \in Nat
      BY OutstandingNat, QuotaAssumption DEF IInv, TypeOK
    <2>2. sentCount[m] <= peak
      BY DEF IInv, WithinLimit
    <2>3. delivered[m] + Cardinality(Outstanding(m)) <= sentCount[m] + 0
      BY DEF IInv, Ledger, NothingFree
    <2> QED
      BY <2>1, <2>2, <2>3
  <1> QED
    BY <1>1, Invariance, PTL
=============================================================================
