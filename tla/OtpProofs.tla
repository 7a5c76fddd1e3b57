----------------------------- MODULE OtpProofs -----------------------------
(***************************************************************************)
(* Proofs about Otp, for every finite set of requests and every bound.     *)
(***************************************************************************)
EXTENDS Otp, FiniteSetTheorems, TLAPS

\* A request that sends a code, or is about to withdraw the one it could not send.
Carrying == {"sending", "failed", "texting"}

\* Every code in use was issued, and nothing is counted for one that was not.
Numbered ==
    /\ row.code <= issued /\ account.otpCode <= issued
    /\ latest["register"] <= issued /\ latest["reset"] <= issued
    /\ \A c \in confirmed : c <= issued
    /\ \A r \in Requests : req[r].code <= issued
    /\ \A c \in Codes : c > issued =>
           tried[c] = 0 /\ strayed[c] = 0 /\ uncounted[c] = 0 /\ used[c] = 0

\* A request that is past its first read has a code in hand.
CodeInHand ==
    \A r \in Requests :
        req[r].pc \in Carrying \cup {"dropping", "missed", "valid", "resetting"} =>
            req[r].code \in Codes

\* Without an account there is no trial and no reset.
AccountFirst ==
    /\ ~account.exists => trials = 0 /\ latest["reset"] = 0 /\ account.otpCode = 0
    /\ \A r \in Requests :
           req[r].pc \in {"found", "texting", "resetting", "known"} => account.exists

\* The codes that confirm a number and the codes that reset a password differ.
TwoKinds ==
    /\ row.code # 0 => row.code # account.otpCode
    /\ \A r \in Requests :
           /\ req[r].pc = "resetting" => req[r].code # row.code
           /\ req[r].pc = "texting" => req[r].code # latest["register"]

\* A code is sent by one request, and confirmed by it.
OneCarrier ==
    \A r \in Requests : req[r].pc \in Carrying =>
        /\ req[r].code \notin confirmed
        /\ \A q \in Requests \ {r} : req[q].pc \in Carrying => req[q].code # req[r].code

\* A code is given up by a registration when it is over.
Closing ==
    \A r \in Requests : req[r].pc = "dropping" =>
        \/ req[r].code \in lapsed
        \/ tried[req[r].code] + strayed[req[r].code] >= MaxAttempts

\* What ConfirmedCodeStays promises of the latest code.
Stands ==
    LET c == latest["register"] IN
        \/ row.code = c
        \/ c \in lapsed \cup revoked
        \/ tried[c] + strayed[c] >= MaxAttempts
        \/ account.exists

\* The latest code stands from the moment it is sent.
SentStands ==
    \/ latest["register"] = 0
    \/ Stands
    \/ /\ latest["register"] \notin confirmed
       /\ \A r \in Requests : req[r].pc = "sending" => req[r].code # latest["register"]

\* The wrong guesses that are yet to be counted.
Missed(c) == {r \in Requests : req[r].pc = "missed" /\ req[r].code = c}

\* The attempts of the row, the wrong guesses to be counted and the ones that
\* never will be make up the guesses and the strayed counts.
Ledger ==
    \A c \in Codes : row.code = c =>
        tried[c] + strayed[c] = row.attempts + Cardinality(Missed(c)) + uncounted[c]

Plain == Numbered /\ CodeInHand /\ AccountFirst /\ TwoKinds /\ OneCarrier /\ Closing
Claims == SentStands /\ ResetCodeStays /\ SpentIsSpent /\ OneTrial
IInv == TypeOK /\ Plain /\ Claims /\ Ledger /\ GuessesBounded

\* A step of one request.
Step(r) == SendOtpSteps(r) \/ RegisterSteps(r) \/ ResetSteps(r) \/ Arrives(r) \/ SendOk(r) \/ Die(r)

Reqs == [pc : Stages, code : 0..MaxCodes]
-----------------------------------------------------------------------------
(* Types *)

LEMMA InitInv == Init => IInv
  <1> SUFFICES ASSUME Init PROVE IInv
    OBVIOUS
  <1> USE OtpAssumption
  <1>1. TypeOK
    BY DEF Init, TypeOK, NoRow, Done, Stages, Codes
  <1>2. Plain
    BY DEF Init, Plain, Numbered, CodeInHand, AccountFirst, TwoKinds, OneCarrier, Closing,
           Carrying, NoRow, Done, Codes
  <1>3. Claims
    BY DEF Init, Claims, SentStands, Stands, ResetCodeStays, SpentIsSpent, OneTrial, NoRow, Codes
  <1>4. Ledger
    BY DEF Init, Ledger, NoRow, Codes
  <1>5. GuessesBounded
    <2>1. Cardinality(Requests) \in Nat
      BY FS_CardinalityType
    <2>2. \A c \in Codes : tried[c] = 0 /\ uncounted[c] = 0
      BY DEF Init
    <2> QED
      BY <2>1, <2>2 DEF GuessesBounded
  <1> QED
    BY <1>1, <1>2, <1>3, <1>4, <1>5 DEF IInv

\* A step of a request changes that request's state only, within its type.
LEMMA StepReq ==
    ASSUME TypeOK, NEW r \in Requests, Step(r)
    PROVE  /\ req' = [req EXCEPT ![r] = req'[r]]
           /\ req'[r] \in Reqs
  <1> USE OtpAssumption DEF Reqs, Stages
  <1>t. /\ req \in [Requests -> Reqs] /\ req[r] \in Reqs /\ row.code \in 0..MaxCodes
        /\ account.otpCode \in 0..MaxCodes /\ issued \in 0..MaxCodes
    BY DEF TypeOK
  <1>d. Done \in Reqs
    BY DEF Done
  <1>1. ASSUME SendOtpSteps(r)
        PROVE  req' = [req EXCEPT ![r] = req'[r]] /\ req'[r] \in Reqs
    BY <1>1, <1>t, <1>d DEF SendOtpSteps, SendOtp, SetCode, Store, SendFails, DropUnsent, DeleteRow,
        Goto, End
  <1>2. ASSUME RegisterSteps(r)
        PROVE  req' = [req EXCEPT ![r] = req'[r]] /\ req'[r] \in Reqs
    BY <1>2, <1>t, <1>d DEF RegisterSteps, Register, DropKnown, VerifyNone, VerifyClosed, DropClosed,
        VerifyWrong, CountAttempt, VerifyRight, CreateAccount, CreateFails, DeleteRow, Goto, End
  <1>3. ASSUME ResetSteps(r)
        PROVE  req' = [req EXCEPT ![r] = req'[r]] /\ req'[r] \in Reqs
    BY <1>3, <1>t, <1>d DEF ResetSteps, Forgot, SetResetCode, TextFails, ResetChecked, ResetPassword,
        Goto, End
  <1>4. ASSUME Arrives(r) \/ SendOk(r) \/ Die(r)
        PROVE  req' = [req EXCEPT ![r] = req'[r]] /\ req'[r] \in Reqs
    BY <1>4, <1>t, <1>d DEF Arrives, SendOk, Die, End
  <1> QED
    BY <1>1, <1>2, <1>3, <1>4 DEF Step

\* Which step brings a request where it is.
LEMMA PcAfter ==
    ASSUME TypeOK, NEW r \in Requests, Step(r)
    PROVE  /\ req'[r].pc = "sending" => SetCode(r) \/ Arrives(r)
           /\ req'[r].pc = "texting" => SetResetCode(r) \/ Arrives(r)
           /\ req'[r].pc = "failed" => SendFails(r)
           /\ req'[r].pc = "known" => Register(r)
           /\ req'[r].pc = "dropping" => VerifyClosed(r)
           /\ req'[r].pc = "missed" => VerifyWrong(r)
           /\ req'[r].pc = "valid" => VerifyRight(r)
           /\ req'[r].pc = "found" => Forgot(r)
           /\ req'[r].pc = "resetting" => ResetChecked(r)
  <1>t. req \in [Requests -> Reqs]
    BY DEF TypeOK, Reqs
  <1>e. /\ \A pc : Goto(r, pc) => req'[r].pc = pc
        /\ End(r) => req'[r].pc = "idle"
    BY <1>t DEF Goto, End, Done, Reqs
  <1>1. ASSUME SendOtpSteps(r) PROVE req'[r].pc \in {"new", "idle"} \/ SetCode(r) \/ SendFails(r)
    BY <1>1, <1>e DEF SendOtpSteps, SendOtp, DropUnsent, DeleteRow
  <1>2. ASSUME SetCode(r) PROVE req'[r].pc = "sending"
    BY <1>2, <1>t DEF SetCode, Store
  <1>3. ASSUME SendFails(r) PROVE req'[r].pc = "failed"
    BY <1>3, <1>e DEF SendFails
  <1>4. ASSUME RegisterSteps(r)
        PROVE  \/ req'[r].pc \in {"fresh", "idle"}
               \/ req'[r].pc = "known" /\ Register(r)
               \/ req'[r].pc = "dropping" /\ VerifyClosed(r)
               \/ req'[r].pc = "missed" /\ VerifyWrong(r)
               \/ req'[r].pc = "valid" /\ VerifyRight(r)
    <2>1. ASSUME Register(r) PROVE req'[r].pc \in {"fresh", "known"}
      BY <2>1, <1>e DEF Register
    <2>2. ASSUME VerifyClosed(r) PROVE req'[r].pc = "dropping"
      BY <2>2, <1>t DEF VerifyClosed
    <2>3. ASSUME VerifyWrong(r) PROVE req'[r].pc = "missed"
      BY <2>3, <1>t DEF VerifyWrong
    <2>4. ASSUME VerifyRight(r) PROVE req'[r].pc = "valid"
      BY <2>4, <1>t DEF VerifyRight
    <2>5. ASSUME DropKnown(r) \/ VerifyNone(r) \/ DropClosed(r) \/ CountAttempt(r) \/ CreateAccount(r) \/ CreateFails(r)
          PROVE  req'[r].pc = "idle"
      BY <2>5, <1>e DEF DropKnown, VerifyNone, DropClosed, CountAttempt, CreateAccount, CreateFails, DeleteRow
    <2> QED
      BY <1>4, <2>1, <2>2, <2>3, <2>4, <2>5 DEF RegisterSteps
  <1>5. ASSUME ResetSteps(r)
        PROVE  \/ req'[r].pc = "idle"
               \/ req'[r].pc = "found" /\ Forgot(r)
               \/ req'[r].pc = "texting" /\ SetResetCode(r)
               \/ req'[r].pc = "resetting" /\ ResetChecked(r)
    BY <1>5, <1>e, <1>t DEF ResetSteps, Forgot, SetResetCode, TextFails, ResetChecked, ResetPassword
  <1>6. ASSUME SendOk(r) \/ Die(r) PROVE req'[r].pc = "idle"
    BY <1>6, <1>e DEF SendOk, Die
  <1>7. ASSUME Arrives(r) PROVE req'[r].pc \in {"sending", "texting"}
    BY <1>7 DEF Arrives
  <1> QED
    BY <1>1, <1>2, <1>3, <1>4, <1>5, <1>6, <1>7 DEF Step

\* A step of a request keeps the types.
LEMMA StepType ==
    ASSUME TypeOK, CodeInHand, NEW r \in Requests, Step(r)
    PROVE  TypeOK'
  <1> USE OtpAssumption DEF NoRow
  <1>q. req' \in [Requests -> Reqs]
    BY StepReq DEF TypeOK, Reqs
  <1>t. /\ row \in [code : 0..MaxCodes, attempts : Nat]
        /\ row.code = 0 => row = NoRow
        /\ account \in [exists : BOOLEAN, otpCode : 0..MaxCodes]
        /\ lapsed \subseteq Codes /\ arrived \subseteq Codes
        /\ req \in [Requests -> Reqs]
        /\ issued \in 0..MaxCodes
        /\ latest \in [{"register", "reset"} -> 0..MaxCodes]
        /\ confirmed \subseteq Codes /\ revoked \subseteq Codes
        /\ tried \in [Codes -> Nat] /\ strayed \in [Codes -> Nat]
        /\ uncounted \in [Codes -> Nat] /\ used \in [Codes -> Nat]
        /\ trials \in Nat /\ deaths \in 0..MaxDeaths
    BY DEF TypeOK, Reqs
  <1>b. ASSUME NEW f \in [Codes -> Nat], NEW c PROVE Bump(f, c) \in [Codes -> Nat]
    <2>1. CASE c \in Codes
      BY <2>1 DEF Bump
    <2>2. CASE c \notin Codes
      BY <2>2 DEF Bump
    <2> QED
      BY <2>1, <2>2
  <1>c. /\ req[r].code \in 0..MaxCodes
        /\ req[r].pc \in Carrying => req[r].code \in Codes
    BY <1>t DEF Reqs, CodeInHand
  <1>n. \A c \in 0..MaxCodes : c # 0 => c \in Codes
    BY DEF Codes
  <1> DEFINE Rest == UNCHANGED <<lapsed, arrived, issued, latest, confirmed, revoked, counts>>
  <1>1. ASSUME SendOtp(r) \/ SendFails(r) \/ Register(r) \/ VerifyNone(r) \/ VerifyClosed(r)
               \/ VerifyRight(r) \/ CreateFails(r) \/ Forgot(r) \/ TextFails(r) \/ ResetChecked(r)
        PROVE  TypeOK'
    <2>1. /\ row' = row /\ account' = account
          /\ Rest
      BY <1>1 DEF SendOtp, SendFails, Register, VerifyNone, VerifyClosed, VerifyRight, CreateFails,
         Forgot, TextFails, ResetChecked
    <2> QED
      BY <2>1, <1>t, <1>q DEF TypeOK, Reqs, counts
  <1>2. ASSUME SetCode(r) PROVE TypeOK'
    <2>1. issued' \in Codes /\ issued' \in 0..MaxCodes
      BY <1>2, <1>t DEF SetCode, Store, Codes
    <2>2. row' \in [code : 0..MaxCodes, attempts : Nat] /\ row'.code # 0
      BY <1>2, <2>1 DEF SetCode, Store, Codes
    <2> QED
      BY <1>2, <2>1, <2>2, <1>t, <1>q DEF SetCode, Store, TypeOK, Reqs, counts
  <1>3. ASSUME DropUnsent(r) \/ DropKnown(r) \/ DropClosed(r) PROVE TypeOK'
    <2>1. DeleteRow(r)
      BY <1>3 DEF DropUnsent, DropKnown, DropClosed
    <2>2. revoked' \subseteq Codes
      <3>1. row.code \in 0..MaxCodes
        BY <1>t
      <3> QED
        BY <2>1, <3>1, <1>n, <1>t DEF DeleteRow
    <2> QED
      BY <2>1, <2>2, <1>t, <1>q DEF DeleteRow, TypeOK, Reqs, counts
  <1>4. ASSUME Arrives(r) PROVE TypeOK'
    <2>1. arrived' \subseteq Codes
      BY <1>4, <1>t, <1>c DEF Arrives, Carrying
    <2> QED
      BY <1>4, <2>1, <1>t, <1>q DEF Arrives, TypeOK, Reqs, counts
  <1>5. ASSUME SendOk(r) PROVE TypeOK'
    <2>1. confirmed' \subseteq Codes
      BY <1>5, <1>t, <1>c DEF SendOk, Carrying
    <2> QED
      BY <1>5, <2>1, <1>t, <1>q DEF SendOk, TypeOK, Reqs, counts
  <1>6. ASSUME VerifyWrong(r) PROVE TypeOK'
    BY <1>6, <1>t, <1>q, <1>b DEF VerifyWrong, TypeOK, Reqs
  <1>7. ASSUME CountAttempt(r) PROVE TypeOK'
    <2>1. /\ row' \in [code : 0..MaxCodes, attempts : Nat]
          /\ row'.code = 0 => row' = NoRow
      BY <1>7, <1>t DEF CountAttempt
    <2>2. strayed' \in [Codes -> Nat]
      BY <1>7, <1>t, <1>b DEF CountAttempt
    <2> QED
      BY <1>7, <2>1, <2>2, <1>t, <1>q DEF CountAttempt, TypeOK, Reqs
  <1>8. ASSUME CreateAccount(r) PROVE TypeOK'
    BY <1>8, <1>t, <1>q, <1>b DEF CreateAccount, TypeOK, Reqs
  <1>9. ASSUME SetResetCode(r) PROVE TypeOK'
    <2>1. issued' \in 0..MaxCodes
      BY <1>9, <1>t DEF SetResetCode
    <2>2. account' \in [exists : BOOLEAN, otpCode : 0..MaxCodes]
      BY <1>9, <2>1, <1>t DEF SetResetCode
    <2> QED
      BY <1>9, <2>1, <2>2, <1>t, <1>q DEF SetResetCode, TypeOK, Reqs, counts
  <1>10. ASSUME ResetPassword(r) PROVE TypeOK'
    <2>1. account' \in [exists : BOOLEAN, otpCode : 0..MaxCodes] /\ account.otpCode \in 0..MaxCodes
      BY <1>10, <1>t DEF ResetPassword
    <2>2. revoked' \subseteq Codes
      BY <1>10, <2>1, <1>n, <1>t DEF ResetPassword
    <2> QED
      BY <1>10, <2>1, <2>2, <1>t, <1>q, <1>b DEF ResetPassword, TypeOK, Reqs
  <1>11. ASSUME Die(r) PROVE TypeOK'
    <2>1. uncounted' \in [Codes -> Nat] /\ deaths' \in 0..MaxDeaths
      BY <1>11, <1>t, <1>b DEF Die
    <2> QED
      BY <1>11, <2>1, <1>t, <1>q DEF Die, TypeOK, Reqs
  <1> QED
    BY <1>1, <1>2, <1>3, <1>4, <1>5, <1>6, <1>7, <1>8, <1>9, <1>10, <1>11
       DEF Step, SendOtpSteps, RegisterSteps, ResetSteps
-----------------------------------------------------------------------------
(* The codes in hand *)

\* Every step leaves the codes numbered.
LEMMA StepNumbered ==
    ASSUME TypeOK, CodeInHand, Numbered, NEW r \in Requests, Step(r)
    PROVE  Numbered'
  <1> USE OtpAssumption
  <1>t. /\ row \in [code : 0..MaxCodes, attempts : Nat]
        /\ row.code \in Nat /\ account.otpCode \in Nat /\ issued \in Nat
        /\ account \in [exists : BOOLEAN, otpCode : 0..MaxCodes]
        /\ latest \in [{"register", "reset"} -> Nat] /\ req \in [Requests -> Reqs]
        /\ tried \in [Codes -> Nat] /\ strayed \in [Codes -> Nat]
        /\ uncounted \in [Codes -> Nat] /\ used \in [Codes -> Nat]
    BY DEF TypeOK, Reqs
  <1>n. /\ row.code <= issued /\ account.otpCode <= issued
        /\ latest["register"] <= issued /\ latest["reset"] <= issued
        /\ \A c \in confirmed : c <= issued
        /\ \A q \in Requests : req[q].code <= issued
        /\ \A c \in Codes : c > issued =>
               tried[c] = 0 /\ strayed[c] = 0 /\ uncounted[c] = 0 /\ used[c] = 0
    BY DEF Numbered
  <1>o. \A q \in Requests \ {r} : req'[q] = req[q]
    BY StepReq, <1>t
  <1> USE DEF Step, SendOtpSteps, RegisterSteps, ResetSteps, SendOtp, SetCode, Store, SendFails,
        DropUnsent, Register, DropKnown, VerifyNone, VerifyClosed, DropClosed, DeleteRow,
        VerifyWrong, CountAttempt, VerifyRight, CreateAccount, CreateFails, Forgot,
        SetResetCode, TextFails, ResetChecked, ResetPassword, Arrives, SendOk, Die
  <1>i. issued' \in Nat /\ issued <= issued'
    BY <1>t
  <1>1. row'.code <= issued'
    BY <1>t, <1>n, <1>i DEF NoRow
  <1>2. account'.otpCode <= issued'
    BY <1>t, <1>n, <1>i
  <1>3. latest'["register"] <= issued' /\ latest'["reset"] <= issued'
    BY <1>t, <1>n, <1>i
  <1>4. \A c \in confirmed' : c <= issued'
    <2>1. /\ confirmed' = confirmed \/ confirmed' = confirmed \cup {req[r].code}
          /\ req[r].code \in Nat /\ req[r].code <= issued
      BY <1>t, <1>n DEF Reqs
    <2>2. \A c \in confirmed : c \in Nat
      BY DEF TypeOK, Codes
    <2> QED
      BY <2>1, <2>2, <1>t, <1>n, <1>i
  <1>5. req'[r].code <= issued'
    BY <1>t, <1>n, <1>i DEF Goto, End, Done, Reqs
  <1>6. \A q \in Requests : req'[q].code <= issued'
    <2>1. \A q \in Requests : req[q].code \in Nat
      BY <1>t DEF Reqs
    <2> QED
      BY <1>5, <1>o, <1>n, <1>i, <1>t, <2>1
  <1>7. ASSUME NEW c \in Codes, c > issued'
        PROVE  tried'[c] = 0 /\ strayed'[c] = 0 /\ uncounted'[c] = 0 /\ used'[c] = 0
    <2>1. c > issued /\ c # row.code /\ c # req[r].code
      BY <1>7, <1>i, <1>t, <1>n DEF Codes, Reqs
    <2> QED
      BY <2>1, <1>t, <1>n, <1>7 DEF Bump, counts
  <1> QED
    BY <1>1, <1>2, <1>3, <1>4, <1>6, <1>7 DEF Numbered

\* A request that needs a code has one.
LEMMA StepCodeInHand ==
    ASSUME TypeOK, CodeInHand, NEW r \in Requests, Step(r)
    PROVE  CodeInHand'
  <1> USE OtpAssumption
  <1>t. /\ row.code \in 0..MaxCodes /\ (row.code = 0 => row = NoRow)
        /\ issued \in Nat /\ arrived \subseteq Codes /\ req \in [Requests -> Reqs]
    BY DEF TypeOK, Reqs
  <1>n. \A c \in 0..MaxCodes : c # 0 => c \in Codes
    BY DEF Codes
  <1>o. \A q \in Requests \ {r} : req'[q] = req[q]
    BY StepReq, <1>t
  <1>1. req'[r].pc \in Carrying \cup {"dropping", "missed", "valid", "resetting"} =>
            req'[r].code \in Codes
    <2>1. CASE req'[r].code = req[r].code /\ req[r].pc \in Carrying \cup {"dropping", "missed", "valid", "resetting"}
      BY <2>1 DEF CodeInHand
    <2>2. CASE ~(req'[r].code = req[r].code /\ req[r].pc \in Carrying \cup {"dropping", "missed", "valid", "resetting"})
      BY <2>2, <1>t, <1>n DEF Carrying, Goto, End, Done, Open, Reqs, Codes, Step, SendOtpSteps, RegisterSteps, ResetSteps, SendOtp, SetCode, Store, SendFails,
        DropUnsent, Register, DropKnown, VerifyNone, VerifyClosed, DropClosed, DeleteRow,
        VerifyWrong, CountAttempt, VerifyRight, CreateAccount, CreateFails, Forgot,
        SetResetCode, TextFails, ResetChecked, ResetPassword, Arrives, SendOk, Die
    <2> QED
      BY <2>1, <2>2
  <1> QED
    BY <1>1, <1>o DEF CodeInHand

\* A trial or a reset takes an account, which is made once.
LEMMA StepAccountFirst ==
    ASSUME TypeOK, AccountFirst, OneTrial, NEW r \in Requests, Step(r)
    PROVE  AccountFirst' /\ OneTrial'
  <1> USE OtpAssumption
  <1>t. /\ account \in [exists : BOOLEAN, otpCode : 0..MaxCodes]
        /\ trials \in Nat /\ req \in [Requests -> Reqs]
        /\ latest \in [{"register", "reset"} -> 0..MaxCodes]
    BY DEF TypeOK, Reqs
  <1>a. /\ ~account.exists => trials = 0 /\ latest["reset"] = 0 /\ account.otpCode = 0
        /\ req[r].pc \in {"found", "texting", "resetting", "known"} => account.exists
    BY DEF AccountFirst
  <1>o. \A q \in Requests \ {r} : req'[q] = req[q]
    BY StepReq, <1>t
  <1> USE DEF Step, SendOtpSteps, RegisterSteps, ResetSteps, SendOtp, SetCode, Store, SendFails,
        DropUnsent, Register, DropKnown, VerifyNone, VerifyClosed, DropClosed, DeleteRow,
        VerifyWrong, CountAttempt, VerifyRight, CreateAccount, CreateFails, Forgot,
        SetResetCode, TextFails, ResetChecked, ResetPassword, Arrives, SendOk, Die
  <1>1. account.exists => account'.exists
    BY <1>t
  <1>2. /\ ~account'.exists => trials' = 0 /\ latest'["reset"] = 0 /\ account'.otpCode = 0
        /\ trials' <= 1
    BY <1>t, <1>a DEF OneTrial, counts
  <1>3. req'[r].pc \in {"found", "texting", "resetting", "known"} => account'.exists
    <2>2. req'[r].pc = "known" => Register(r) /\ account.exists
      BY PcAfter, <1>t DEF Goto, Reqs
    <2>3. req'[r].pc = "texting" => account.exists
      BY PcAfter, <1>a, <1>t
    <2>4. req'[r].pc \in {"found", "resetting"} => account.exists
      BY PcAfter
    <2> QED
      BY <2>2, <2>3, <2>4, <1>1
  <1> QED
    BY <1>1, <1>2, <1>3, <1>o DEF AccountFirst, OneTrial

\* The two kinds of codes stay apart: a new code differs from all others.
LEMMA StepTwoKinds ==
    ASSUME TypeOK, Numbered, CodeInHand, TwoKinds, NEW r \in Requests, Step(r)
    PROVE  TwoKinds'
  <1> USE OtpAssumption
  <1>t. /\ row \in [code : 0..MaxCodes, attempts : Nat]
        /\ account \in [exists : BOOLEAN, otpCode : 0..MaxCodes]
        /\ latest \in [{"register", "reset"} -> 0..MaxCodes] /\ req \in [Requests -> Reqs]
        /\ row.code \in Nat /\ account.otpCode \in Nat /\ issued \in Nat
        /\ arrived \subseteq Codes
    BY DEF TypeOK, Reqs
  <1>n. /\ row.code <= issued /\ account.otpCode <= issued /\ latest["register"] <= issued
        /\ \A q \in Requests : req[q].code \in Nat /\ req[q].code <= issued
    BY <1>t DEF Numbered, Reqs
  <1>k. /\ row.code # 0 => row.code # account.otpCode
        /\ \A q \in Requests :
               /\ req[q].pc = "resetting" => req[q].code # row.code
               /\ req[q].pc = "texting" => req[q].code # latest["register"]
    BY DEF TwoKinds
  <1>o. \A q \in Requests \ {r} : req'[q] = req[q]
    BY StepReq, <1>t
  <1>1. row'.code = row.code \/ row'.code = 0 \/ SetCode(r)
    BY <1>t DEF NoRow, Step, SendOtpSteps, RegisterSteps, ResetSteps, SendOtp, SetCode, Store, SendFails,
        DropUnsent, Register, DropKnown, VerifyNone, VerifyClosed, DropClosed, DeleteRow,
        VerifyWrong, CountAttempt, VerifyRight, CreateAccount, CreateFails, Forgot,
        SetResetCode, TextFails, ResetChecked, ResetPassword, Arrives, SendOk, Die
  <1>2. account'.otpCode = account.otpCode \/ account'.otpCode = 0 \/ SetResetCode(r)
    BY <1>t DEF Step, SendOtpSteps, RegisterSteps, ResetSteps, SendOtp, SetCode, Store, SendFails,
        DropUnsent, Register, DropKnown, VerifyNone, VerifyClosed, DropClosed, DeleteRow,
        VerifyWrong, CountAttempt, VerifyRight, CreateAccount, CreateFails, Forgot,
        SetResetCode, TextFails, ResetChecked, ResetPassword, Arrives, SendOk, Die
  <1>3. latest'["register"] = latest["register"] \/ SetCode(r)
    BY <1>t DEF Step, SendOtpSteps, RegisterSteps, ResetSteps, SendOtp, SetCode, Store, SendFails,
        DropUnsent, Register, DropKnown, VerifyNone, VerifyClosed, DropClosed, DeleteRow,
        VerifyWrong, CountAttempt, VerifyRight, CreateAccount, CreateFails, Forgot,
        SetResetCode, TextFails, ResetChecked, ResetPassword, Arrives, SendOk, Die
  <1>4. ASSUME SetCode(r)
        PROVE  /\ row'.code = issued + 1 /\ latest'["register"] = issued + 1 /\ account' = account
               /\ req'[r].pc = "sending"
    BY <1>4, <1>t DEF SetCode, Store
  <1>5. ASSUME SetResetCode(r)
        PROVE  /\ account'.otpCode = issued + 1 /\ row' = row /\ latest'["register"] = latest["register"]
               /\ req'[r].code = issued + 1
    BY <1>5, <1>t DEF SetResetCode
  <1>6. ASSUME ResetChecked(r)
        PROVE  req'[r].code = account.otpCode /\ account.otpCode # 0 /\ row' = row
    BY <1>6, <1>t DEF ResetChecked, Codes
  <1>7. ASSUME Arrives(r)
        PROVE  req' = req /\ latest' = latest
    BY <1>7 DEF Arrives
  <1>8. row'.code # 0 => row'.code # account'.otpCode
    BY <1>1, <1>2, <1>4, <1>5, <1>n, <1>k, <1>t
  <1>9. /\ req'[r].pc = "resetting" => req'[r].code # row'.code
        /\ req'[r].pc = "texting" => req'[r].code # latest'["register"]
    BY PcAfter, <1>4, <1>5, <1>6, <1>7, <1>n, <1>k, <1>t
  <1>10. ASSUME NEW q \in Requests \ {r}
         PROVE  /\ req[q].pc = "resetting" => req[q].code # row'.code
                /\ req[q].pc = "texting" => req[q].code # latest'["register"]
    <2>1. req[q].code \in Nat /\ req[q].code <= issued /\ (req[q].pc = "resetting" => req[q].code # 0)
      BY <1>n DEF CodeInHand, Codes
    <2> QED
      BY <2>1, <1>1, <1>3, <1>4, <1>k, <1>t
  <1> QED
    BY <1>8, <1>9, <1>10, <1>o DEF TwoKinds

\* What is over stays over, and nothing that was counted is taken back.
LEMMA Lasting ==
    ASSUME TypeOK, NEW r \in Requests, Step(r)
    PROVE  /\ lapsed' = lapsed /\ revoked \subseteq revoked'
           /\ account.exists => account'.exists
           /\ \A c \in Codes : /\ tried[c] <= tried'[c] /\ strayed[c] <= strayed'[c]
                              /\ used[c] <= used'[c]
  <1>t. /\ account \in [exists : BOOLEAN, otpCode : 0..MaxCodes]
        /\ tried \in [Codes -> Nat] /\ strayed \in [Codes -> Nat] /\ used \in [Codes -> Nat]
    BY DEF TypeOK
  <1> USE DEF Step, SendOtpSteps, RegisterSteps, ResetSteps, SendOtp, SetCode, Store, SendFails,
        DropUnsent, Register, DropKnown, VerifyNone, VerifyClosed, DropClosed, DeleteRow,
        VerifyWrong, CountAttempt, VerifyRight, CreateAccount, CreateFails, Forgot,
        SetResetCode, TextFails, ResetChecked, ResetPassword, Arrives, SendOk, Die
  <1>1. lapsed' = lapsed /\ revoked \subseteq revoked' /\ (account.exists => account'.exists)
    BY <1>t
  <1>2. /\ tried' = tried \/ \E c : tried' = Bump(tried, c)
        /\ strayed' = strayed \/ \E c : strayed' = Bump(strayed, c)
        /\ used' = used \/ \E c : used' = Bump(used, c)
    BY DEF counts
  <1>3. ASSUME NEW f \in [Codes -> Nat], NEW c, NEW d \in Codes PROVE f[d] <= Bump(f, c)[d]
    <2>1. CASE c = d
      BY <2>1 DEF Bump
    <2>2. CASE c # d
      BY <2>2 DEF Bump
    <2> QED
      BY <2>1, <2>2
  <1>4. \A c \in Codes : tried[c] <= tried'[c]
    BY <1>t, <1>2, <1>3
  <1>5. \A c \in Codes : strayed[c] <= strayed'[c]
    BY <1>t, <1>2, <1>3
  <1>6. \A c \in Codes : used[c] <= used'[c]
    BY <1>t, <1>2, <1>3
  <1> QED
    BY <1>1, <1>4, <1>5, <1>6

\* A new code has a carrier of its own, and only the carrier confirms it.
LEMMA StepOneCarrier ==
    ASSUME TypeOK, Numbered, OneCarrier, NEW r \in Requests, Step(r)
    PROVE  OneCarrier'
  <1>t. /\ req \in [Requests -> Reqs] /\ issued \in Nat
        /\ \A c \in confirmed : c \in Nat /\ c <= issued
        /\ \A q \in Requests : req[q].code \in Nat /\ req[q].code <= issued
    BY DEF TypeOK, Reqs, Codes, Numbered
  <1>o. \A q \in Requests \ {r} : req'[q] = req[q]
    BY StepReq, <1>t
  <1>c. \A p \in Requests : req[p].pc \in Carrying =>
           /\ req[p].code \notin confirmed
           /\ \A q \in Requests \ {p} : req[q].pc \in Carrying => req[q].code # req[p].code
    BY DEF OneCarrier
  <1>1. \/ req'[r].pc \notin Carrying
        \/ req'[r].code = issued + 1
        \/ req[r].pc \in Carrying /\ req'[r].code = req[r].code /\ confirmed' = confirmed
    <2>1. req'[r].pc \in Carrying => SetCode(r) \/ SetResetCode(r) \/ SendFails(r) \/ Arrives(r)
      BY PcAfter DEF Carrying
    <2>2. SetCode(r) \/ SetResetCode(r) => req'[r].code = issued + 1
      BY <1>t DEF SetCode, Store, SetResetCode
    <2>3. SendFails(r) => req[r].pc \in Carrying /\ req'[r].code = req[r].code /\ confirmed' = confirmed
      BY <1>t DEF SendFails, Goto, Carrying, Reqs
    <2>4. Arrives(r) => req[r].pc \in Carrying /\ req'[r].code = req[r].code /\ confirmed' = confirmed
      BY DEF Arrives, Carrying
    <2> QED
      BY <2>1, <2>2, <2>3, <2>4
  <1>2. \/ confirmed' = confirmed
        \/ /\ confirmed' = confirmed \cup {req[r].code}
           /\ req[r].pc \in Carrying /\ req'[r].pc \notin Carrying
    <2>1. CASE SendOk(r)
      <3>1. req'[r].pc = "idle"
        BY <2>1, <1>t DEF SendOk, End, Done
      <3> QED
        BY <2>1, <3>1 DEF SendOk, Carrying
    <2>2. CASE ~SendOk(r)
      BY <2>2 DEF Step, SendOtpSteps, RegisterSteps, ResetSteps, SendOtp, SetCode, Store, SendFails,
        DropUnsent, Register, DropKnown, VerifyNone, VerifyClosed, DropClosed, DeleteRow,
        VerifyWrong, CountAttempt, VerifyRight, CreateAccount, CreateFails, Forgot,
        SetResetCode, TextFails, ResetChecked, ResetPassword, Arrives, SendOk, Die
    <2> QED
      BY <2>1, <2>2
  <1>3. req'[r].pc \in Carrying => req'[r].code \notin confirmed'
    BY <1>1, <1>2, <1>t, <1>c
  <1>4. ASSUME NEW q \in Requests \ {r}, req[q].pc \in Carrying
        PROVE  /\ req[q].code \notin confirmed'
               /\ req'[r].pc \in Carrying => req[q].code # req'[r].code
    BY <1>4, <1>1, <1>2, <1>t, <1>c
  <1> QED
    BY <1>3, <1>4, <1>o, <1>c DEF OneCarrier

\* A code that was found to be over is over.
LEMMA StepClosing ==
    ASSUME TypeOK, CodeInHand, Closing, Ledger, NEW r \in Requests, Step(r)
    PROVE  Closing'
  <1>t. /\ req \in [Requests -> Reqs] /\ row \in [code : 0..MaxCodes, attempts : Nat]
        /\ row.code = 0 => row = NoRow
        /\ tried \in [Codes -> Nat] /\ strayed \in [Codes -> Nat] /\ uncounted \in [Codes -> Nat]
        /\ MaxAttempts \in Nat
    BY OtpAssumption DEF TypeOK, Reqs
  <1>o. \A q \in Requests \ {r} : req'[q] = req[q]
    BY StepReq, <1>t
  <1>p. TypeOK'
    BY StepType
  <1>1. ASSUME req'[r].pc = "dropping"
        PROVE  \/ req'[r].code \in lapsed'
               \/ tried'[req'[r].code] + strayed'[req'[r].code] >= MaxAttempts
    <2>1. /\ VerifyClosed(r) /\ row # NoRow /\ ~Open
          /\ req'[r].code = row.code
          /\ lapsed' = lapsed /\ tried' = tried /\ strayed' = strayed
      BY <1>1, PcAfter, <1>t DEF VerifyClosed, counts
    <2>2. row.code \in Codes
      BY <2>1, <1>t DEF Codes
    <2>3. row.code \in lapsed \/ row.attempts >= MaxAttempts
      BY <2>1, <1>t DEF Open
    <2>4. tried[row.code] + strayed[row.code] >= row.attempts
      <3>1. Cardinality(Missed(row.code)) \in Nat
        BY FS_Subset, FS_CardinalityType, OtpAssumption, Missed(row.code) \subseteq Requests DEF Missed
      <3> QED
        BY <3>1, <2>2, <1>t DEF Ledger
    <2> QED
      BY <2>1, <2>2, <2>3, <2>4, <1>t
  <1>2. ASSUME NEW q \in Requests \ {r}, req[q].pc = "dropping"
        PROVE  \/ req[q].code \in lapsed'
               \/ tried'[req[q].code] + strayed'[req[q].code] >= MaxAttempts
    <2>1. req[q].code \in Codes
      BY <1>2 DEF CodeInHand
    <2>2. req[q].code \in lapsed \/ tried[req[q].code] + strayed[req[q].code] >= MaxAttempts
      BY <1>2 DEF Closing
    <2>3. /\ tried'[req[q].code] \in Nat /\ strayed'[req[q].code] \in Nat
      BY <1>p, <2>1 DEF TypeOK, Codes
    <2> QED
      BY <2>1, <2>2, <2>3, Lasting, <1>t
  <1> QED
    BY <1>1, <1>2, <1>o DEF Closing
-----------------------------------------------------------------------------
(* What the codes promise *)

\* Only the named steps take the code from the row.
LEMMA RowKept ==
    ASSUME TypeOK, NEW r \in Requests, Step(r)
    PROVE  \/ row'.code = row.code
           \/ SetCode(r) \/ CreateAccount(r) \/ DropUnsent(r) \/ DropKnown(r) \/ DropClosed(r)
  <1>1. row \in [code : 0..MaxCodes, attempts : Nat]
    BY DEF TypeOK
  <1> QED
    BY <1>1 DEF Step, SendOtpSteps, RegisterSteps, ResetSteps, SendOtp, SetCode, Store, SendFails,
        DropUnsent, Register, DropKnown, VerifyNone, VerifyClosed, DropClosed, DeleteRow,
        VerifyWrong, CountAttempt, VerifyRight, CreateAccount, CreateFails, Forgot,
        SetResetCode, TextFails, ResetChecked, ResetPassword, Arrives, SendOk, Die

\* The latest registration code stands from the moment it is sent.
LEMMA StepSentStands ==
    ASSUME TypeOK, CodeInHand, AccountFirst, TwoKinds, OneCarrier, Closing, SentStands,
           NEW r \in Requests, Step(r)
    PROVE  SentStands'
  <1> DEFINE c == latest["register"]
  <1>t. /\ req \in [Requests -> Reqs] /\ c \in 0..MaxCodes /\ MaxAttempts \in Nat
        /\ tried \in [Codes -> Nat] /\ strayed \in [Codes -> Nat]
        /\ c # 0 => c \in Codes
    <2>1. c \in 0..MaxCodes
      BY DEF TypeOK
    <2>2. req \in [Requests -> Reqs] /\ MaxAttempts \in Nat
          /\ tried \in [Codes -> Nat] /\ strayed \in [Codes -> Nat]
      BY OtpAssumption DEF TypeOK, Reqs
    <2> HIDE DEF c
    <2>3. c # 0 => c \in Codes
      BY <2>1, OtpAssumption DEF Codes
    <2> QED
      BY <2>1, <2>2, <2>3
  <1>o. \A q \in Requests \ {r} : req'[q] = req[q]
    BY StepReq, <1>t
  <1>p. tried' \in [Codes -> Nat] /\ strayed' \in [Codes -> Nat]
    BY StepType DEF TypeOK, Codes
  <1>1. CASE SetCode(r)
    BY <1>1 DEF SetCode, Store, SentStands, Stands, TypeOK
  <1>2. CASE ~SetCode(r)
    <2>1. latest'["register"] = c
      BY <1>2, <1>t DEF TypeOK, Step, SendOtpSteps, RegisterSteps, ResetSteps, SendOtp, SetCode, Store, SendFails,
        DropUnsent, Register, DropKnown, VerifyNone, VerifyClosed, DropClosed, DeleteRow,
        VerifyWrong, CountAttempt, VerifyRight, CreateAccount, CreateFails, Forgot,
        SetResetCode, TextFails, ResetChecked, ResetPassword, Arrives, SendOk, Die
    <2>2. CASE c = 0
      BY <2>1, <2>2 DEF SentStands
    <2>3. ASSUME c # 0, \/ c \in lapsed \cup revoked
                       \/ tried[c] + strayed[c] >= MaxAttempts
                       \/ account.exists
          PROVE  Stands'
      <3>1. c \in Codes
        BY <2>3, <1>t
      <3>2. tried[c] + strayed[c] >= MaxAttempts => tried'[c] + strayed'[c] >= MaxAttempts
        BY <3>1, <1>t, <1>p, Lasting
      <3> QED
        BY <2>1, <2>3, <3>2, Lasting DEF Stands
    <2>4. CASE c # 0 /\ row.code = c
      <3>1. CASE row'.code = row.code
        BY <2>1, <2>4, <3>1 DEF SentStands, Stands
      <3>2. CASE CreateAccount(r)
        BY <3>2 DEF CreateAccount, SentStands, Stands
      <3>3. CASE DropKnown(r)
        BY <2>3, <2>4, <3>3 DEF DropKnown, AccountFirst, SentStands
      <3>4. CASE DropClosed(r) /\ req[r].code = c
        <4>1. c \in lapsed \/ tried[c] + strayed[c] >= MaxAttempts
          BY <3>4 DEF DropClosed, Closing
        <4> QED
          BY <4>1, <2>3, <2>4 DEF SentStands
      <3>5. CASE DropUnsent(r) /\ req[r].code = c
        <4>1. /\ req[r].pc \in Carrying /\ req'[r].pc = "idle" /\ confirmed' = confirmed
          BY <3>5, <1>t DEF DropUnsent, DeleteRow, Carrying, End, Done
        <4>2. /\ c \notin confirmed
              /\ \A q \in Requests \ {r} : req[q].pc \in Carrying => req[q].code # c
          BY <4>1, <3>5 DEF OneCarrier
        <4> QED
          BY <4>1, <4>2, <1>o, <2>1 DEF SentStands, Carrying
      <3>6. CASE (DropUnsent(r) \/ DropClosed(r)) /\ req[r].code # c
        BY <2>1, <2>4, <3>6 DEF DropUnsent, DropClosed, DeleteRow, SentStands, Stands
      <3> QED
        BY <3>1, <3>2, <3>3, <3>4, <3>5, <3>6, <1>2, RowKept
    <2>5. CASE /\ c \notin confirmed
               /\ \A q \in Requests : req[q].pc = "sending" => req[q].code # c
      <3>1. c \notin confirmed'
        <4>1. confirmed' = confirmed \/ SendOk(r)
          BY DEF Step, SendOtpSteps, RegisterSteps, ResetSteps, SendOtp, SetCode, Store, SendFails,
        DropUnsent, Register, DropKnown, VerifyNone, VerifyClosed, DropClosed, DeleteRow,
        VerifyWrong, CountAttempt, VerifyRight, CreateAccount, CreateFails, Forgot,
        SetResetCode, TextFails, ResetChecked, ResetPassword, Arrives, SendOk, Die
        <4>2. SendOk(r) => confirmed' = confirmed \cup {req[r].code} /\ req[r].pc \in {"sending", "texting"}
          BY DEF SendOk
        <4> QED
          BY <4>1, <4>2, <2>5 DEF TwoKinds
      <3>2. req'[r].pc = "sending" => req'[r] = req[r]
        BY PcAfter, <1>2 DEF Arrives
      <3> QED
        BY <3>1, <3>2, <2>5, <2>1, <1>o DEF SentStands
    <2> QED
      BY <2>2, <2>3, <2>4, <2>5 DEF SentStands, Stands
  <1> QED
    BY <1>1, <1>2

\* A reset code leaves the account when it is used, or by a reset that took an
\* older one.
LEMMA StepResetCodeStays ==
    ASSUME TypeOK, CodeInHand, AccountFirst, ResetCodeStays, NEW r \in Requests, Step(r)
    PROVE  ResetCodeStays'
  <1> DEFINE c == latest["reset"]
  <1>t. /\ account \in [exists : BOOLEAN, otpCode : 0..MaxCodes] /\ c \in 0..MaxCodes
        /\ used \in [Codes -> Nat] /\ latest \in [{"register", "reset"} -> 0..MaxCodes]
        /\ c # 0 => c \in Codes
    BY OtpAssumption DEF TypeOK, Codes
  <1>p. used' \in [Codes -> Nat]
    BY StepType DEF TypeOK, Codes
  <1>1. CASE SetResetCode(r)
    BY <1>1, <1>t DEF SetResetCode, ResetCodeStays
  <1>2. CASE CreateAccount(r)
    BY <1>2 DEF CreateAccount, ResetCodeStays, AccountFirst
  <1>3. CASE ResetPassword(r)
    <2>1. /\ latest' = latest /\ req[r].code \in Codes
          /\ used' = Bump(used, req[r].code)
          /\ revoked' = revoked \cup ({account.otpCode} \ {0, req[r].code})
      BY <1>3 DEF ResetPassword, CodeInHand
    <2>2. c = req[r].code => used'[c] > 0
      BY <2>1, <1>t DEF Bump
    <2>3. c # 0 /\ used[c] > 0 => used'[c] > 0
      BY Lasting, <1>t, <1>p
    <2> QED
      BY <2>1, <2>2, <2>3 DEF ResetCodeStays
  <1>4. CASE ~SetResetCode(r) /\ ~CreateAccount(r) /\ ~ResetPassword(r)
    <2>1. account' = account /\ latest'["reset"] = c
      BY <1>4, <1>t DEF Step, SendOtpSteps, RegisterSteps, ResetSteps, SendOtp, SetCode, Store, SendFails,
        DropUnsent, Register, DropKnown, VerifyNone, VerifyClosed, DropClosed, DeleteRow,
        VerifyWrong, CountAttempt, VerifyRight, CreateAccount, CreateFails, Forgot,
        SetResetCode, TextFails, ResetChecked, ResetPassword, Arrives, SendOk, Die
    <2>2. c # 0 /\ used[c] > 0 => used'[c] > 0
      BY Lasting, <1>t, <1>p
    <2> QED
      BY <2>1, <2>2, Lasting DEF ResetCodeStays
  <1> QED
    BY <1>1, <1>2, <1>3, <1>4

\* A code that was acted on is in force nowhere.
LEMMA StepSpentIsSpent ==
    ASSUME TypeOK, Numbered, CodeInHand, TwoKinds, SpentIsSpent, NEW r \in Requests, Step(r)
    PROVE  SpentIsSpent'
  <1>t. /\ account \in [exists : BOOLEAN, otpCode : 0..MaxCodes]
        /\ row \in [code : 0..MaxCodes, attempts : Nat]
        /\ issued \in Nat /\ used \in [Codes -> Nat]
    BY DEF TypeOK
  <1>n. \A c \in Codes : c > issued => used[c] = 0
    BY DEF Numbered
  <1> SUFFICES ASSUME NEW c \in Codes, used'[c] > 0
               PROVE  account'.otpCode # c /\ row'.code # c
    BY DEF SpentIsSpent, Codes
  <1>0. c # 0
    BY OtpAssumption DEF Codes
  <1>1. CASE SetCode(r)
    <2>1. used' = used /\ account' = account /\ row'.code = issued + 1
      BY <1>1 DEF SetCode, Store, counts
    <2> QED
      BY <2>1, <1>n, <1>t DEF SpentIsSpent, Codes
  <1>2. CASE SetResetCode(r)
    <2>1. used' = used /\ row' = row /\ account'.otpCode = issued + 1
      BY <1>2, <1>t DEF SetResetCode, counts
    <2> QED
      BY <2>1, <1>n, <1>t DEF SpentIsSpent, Codes
  <1>3. CASE CreateAccount(r)
    BY <1>3, <1>0 DEF CreateAccount, NoRow
  <1>4. CASE ResetPassword(r)
    <2>1. account'.otpCode = 0 /\ row' = row /\ req[r].code # row.code
      BY <1>4, <1>t DEF ResetPassword, TwoKinds
    <2>2. used[c] > 0 \/ c = req[r].code
      BY <1>4, <1>t DEF ResetPassword, Bump
    <2> QED
      BY <2>1, <2>2, <1>0 DEF SpentIsSpent
  <1>5. CASE ~SetCode(r) /\ ~SetResetCode(r) /\ ~CreateAccount(r) /\ ~ResetPassword(r)
    <2>1. used' = used /\ account' = account
      BY <1>5 DEF counts, Step, SendOtpSteps, RegisterSteps, ResetSteps, SendOtp, SetCode, Store, SendFails,
        DropUnsent, Register, DropKnown, VerifyNone, VerifyClosed, DropClosed, DeleteRow,
        VerifyWrong, CountAttempt, VerifyRight, CreateAccount, CreateFails, Forgot,
        SetResetCode, TextFails, ResetChecked, ResetPassword, Arrives, SendOk, Die
    <2>2. row'.code = row.code \/ row'.code = 0
      BY <1>5, RowKept DEF DropUnsent, DropKnown, DropClosed, DeleteRow, NoRow
    <2> QED
      BY <2>1, <2>2, <1>0 DEF SpentIsSpent
  <1> QED
    BY <1>1, <1>2, <1>3, <1>4, <1>5
-----------------------------------------------------------------------------
(* Counting the guesses *)

One(b) == IF b THEN 1 ELSE 0

\* The guesses to be counted are finitely many.
LEMMA MissedNat ==
    \A c : IsFiniteSet(Missed(c)) /\ Cardinality(Missed(c)) \in Nat
  <1> TAKE c
  <1>1. Missed(c) \subseteq Requests
    BY DEF Missed
  <1> QED
    BY <1>1, FS_Subset, FS_CardinalityType, OtpAssumption

\* A step of one request moves the number of guesses to be counted by one.
LEMMA MissedStep ==
    ASSUME NEW r \in Requests, NEW c,
           \A q \in Requests \ {r} : req'[q] = req[q]
    PROVE  /\ Cardinality(Missed(c)') \in Nat
           /\ Cardinality(Missed(c)') =
                Cardinality(Missed(c)) + One(req'[r].pc = "missed" /\ req'[r].code = c)
                                       - One(req[r].pc = "missed" /\ req[r].code = c)
  <1> DEFINE Was == req[r].pc = "missed" /\ req[r].code = c
             Is  == req'[r].pc = "missed" /\ req'[r].code = c
             New == {q \in Requests : req'[q].pc = "missed" /\ req'[q].code = c}
  <1>0. Missed(c)' = New
    BY DEF Missed
  <1>1. IsFiniteSet(Missed(c)) /\ Cardinality(Missed(c)) \in Nat
    BY MissedNat
  <1>2. Cardinality(New) \in Nat
    BY FS_Subset, FS_CardinalityType, OtpAssumption, New \subseteq Requests
  <1>3. r \in Missed(c) <=> Was
    BY DEF Missed
  <1>4. CASE Was /\ ~Is
    <2>1. New = Missed(c) \ {r}
      BY <1>4 DEF Missed
    <2>2. Cardinality(New) = Cardinality(Missed(c)) - 1
      BY <2>1, <1>1, <1>3, <1>4, FS_RemoveElement
    <2> QED
      BY <2>2, <1>0, <1>1, <1>2, <1>4 DEF One
  <1>5. CASE ~Was /\ Is
    <2>1. New = Missed(c) \cup {r}
      BY <1>5 DEF Missed
    <2>2. Cardinality(New) = Cardinality(Missed(c)) + 1
      BY <2>1, <1>1, <1>3, <1>5, FS_AddElement
    <2> QED
      BY <2>2, <1>0, <1>1, <1>2, <1>5 DEF One
  <1>6. CASE Was <=> Is
    <2>1. New = Missed(c)
      BY <1>6 DEF Missed
    <2>2. One(Was) = One(Is) /\ One(Is) \in {0, 1}
      BY <1>6 DEF One
    <2>3. Cardinality(Missed(c)') = Cardinality(Missed(c))
      BY <2>1, <1>0
    <2> HIDE DEF Was, Is, New
    <2>4. Cardinality(Missed(c)') = Cardinality(Missed(c)) + One(Is) - One(Was)
      BY <2>2, <2>3, <1>1
    <2> QED
      BY <2>4, <2>3, <1>1 DEF Was, Is
  <1> QED
    BY <1>4, <1>5, <1>6

\* The attempts and the guesses move together.
LEMMA StepLedger ==
    ASSUME TypeOK, Numbered, CodeInHand, Ledger, NEW r \in Requests, Step(r)
    PROVE  Ledger'
  <1> DEFINE n(c) == Cardinality(Missed(c))
  <1>t. /\ row \in [code : 0..MaxCodes, attempts : Nat] /\ row.attempts \in Nat
        /\ (row.code = 0 => row = NoRow)
        /\ tried \in [Codes -> Nat] /\ strayed \in [Codes -> Nat] /\ uncounted \in [Codes -> Nat]
        /\ req \in [Requests -> Reqs] /\ issued \in Nat
    BY DEF TypeOK, Reqs
  <1>o. \A q \in Requests \ {r} : req'[q] = req[q]
    BY StepReq, <1>t
  <1>n. \A c \in Codes : n(c) \in Nat
    BY MissedNat
  <1> SUFFICES ASSUME NEW c \in Codes, row'.code = c
               PROVE  tried'[c] + strayed'[c] = row'.attempts + n(c)' + uncounted'[c]
    BY DEF Ledger, Codes
  <1>0. c # 0
    BY OtpAssumption DEF Codes
  <1>m. n(c)' = n(c) + One(req'[r].pc = "missed" /\ req'[r].code = c)
                     - One(req[r].pc = "missed" /\ req[r].code = c)
    BY <1>o, MissedStep
  <1>h. row.code = c => tried[c] + strayed[c] = row.attempts + n(c) + uncounted[c]
    BY DEF Ledger
  <1> HIDE DEF n
  <1>1. CASE SetCode(r)
    <2>1. /\ row'.code = issued + 1 /\ row'.attempts = 0 /\ tried' = tried /\ strayed' = strayed
          /\ uncounted' = uncounted /\ req'[r].pc = "sending" /\ req[r].pc = "new"
      BY <1>1, <1>t DEF SetCode, Store, counts
    <2>2. tried[c] = 0 /\ strayed[c] = 0 /\ uncounted[c] = 0
      BY <2>1, <1>t DEF Numbered, Codes
    <2>3. Missed(c) = {}
      BY <2>1, <1>t DEF Numbered, Missed, Reqs, Codes
    <2>4. n(c) = 0
      BY <2>3, FS_EmptySet DEF n
    <2> QED
      BY <2>1, <2>2, <2>4, <1>m DEF One
  <1>2. CASE VerifyWrong(r)
    <2>1. /\ row' = row /\ tried' = Bump(tried, c) /\ strayed' = strayed /\ uncounted' = uncounted
          /\ req'[r].pc = "missed" /\ req'[r].code = c /\ req[r].pc = "fresh"
      BY <1>2, <1>t DEF VerifyWrong
    <2>2. tried'[c] = tried[c] + 1
      BY <2>1, <1>t DEF Bump
    <2>3. n(c)' = n(c) + 1
      BY <2>1, <1>m, <1>n DEF One
    <2> QED
      BY <2>1, <2>2, <2>3, <1>h, <1>n, <1>t
  <1>3. CASE CountAttempt(r)
    <2>1. /\ row.code = c /\ row'.attempts = row.attempts + 1
          /\ tried' = tried /\ uncounted' = uncounted
          /\ req'[r].pc = "idle" /\ req[r].pc = "missed"
      BY <1>3, <1>t, <1>0 DEF CountAttempt, NoRow, End, Done
    <2>2. CASE req[r].code = c
      <3>1. strayed' = strayed /\ n(c)' = n(c) - 1
        BY <2>1, <2>2, <1>m, <1>n, <1>3 DEF One, CountAttempt
      <3> QED
        BY <3>1, <2>1, <1>h, <1>n, <1>t
    <2>3. CASE req[r].code # c
      <3>1. strayed'[c] = strayed[c] + 1
        BY <2>1, <2>3, <1>3, <1>0, <1>t DEF CountAttempt, Bump
      <3>2. n(c)' = n(c)
        BY <2>1, <2>3, <1>m, <1>n DEF One
      <3> QED
        BY <3>1, <3>2, <2>1, <1>h, <1>n, <1>t
    <2> QED
      BY <2>2, <2>3
  <1>4. CASE Die(r)
    <2>1. /\ row' = row /\ tried' = tried /\ strayed' = strayed /\ req'[r].pc = "idle"
      BY <1>4, <1>t DEF Die, End, Done
    <2>2. CASE req[r].pc = "missed" /\ req[r].code = c
      <3>1. uncounted'[c] = uncounted[c] + 1
        BY <2>2, <1>4, <1>t DEF Die, Bump
      <3>2. n(c)' = n(c) - 1
        BY <2>1, <2>2, <1>m, <1>n DEF One
      <3> QED
        BY <3>1, <3>2, <2>1, <1>h, <1>n, <1>t
    <2>3. CASE ~(req[r].pc = "missed" /\ req[r].code = c)
      <3>1. uncounted'[c] = uncounted[c]
        <4>1. uncounted' = uncounted \/ (req[r].code # c /\ uncounted' = Bump(uncounted, req[r].code))
          BY <2>3, <1>4 DEF Die
        <4> QED
          BY <4>1, <1>t DEF Bump
      <3>2. n(c)' = n(c)
        BY <2>1, <2>3, <1>m, <1>n DEF One
      <3> QED
        BY <3>1, <3>2, <2>1, <1>h, <1>n, <1>t
    <2> QED
      BY <2>2, <2>3
  <1>5. CASE ~SetCode(r) /\ ~VerifyWrong(r) /\ ~CountAttempt(r) /\ ~Die(r)
    <2>1. /\ tried' = tried /\ strayed' = strayed /\ uncounted' = uncounted
          /\ row' = row \/ row' = NoRow
      BY <1>5 DEF counts, Step, SendOtpSteps, RegisterSteps, ResetSteps, SendOtp, SetCode, Store, SendFails,
        DropUnsent, Register, DropKnown, VerifyNone, VerifyClosed, DropClosed, DeleteRow,
        VerifyWrong, CountAttempt, VerifyRight, CreateAccount, CreateFails, Forgot,
        SetResetCode, TextFails, ResetChecked, ResetPassword, Arrives, SendOk, Die
    <2>2. row' = row
      BY <2>1, <1>0 DEF NoRow
    <2>3. req[r].pc # "missed" /\ req'[r].pc # "missed"
      <3>1. req'[r].pc # "missed"
        BY <1>5, PcAfter
      <3> QED
        BY <3>1, <1>5 DEF Step, SendOtpSteps, RegisterSteps, ResetSteps, SendOtp, SetCode, Store, SendFails,
        DropUnsent, Register, DropKnown, VerifyNone, VerifyClosed, DropClosed, DeleteRow,
        VerifyWrong, CountAttempt, VerifyRight, CreateAccount, CreateFails, Forgot,
        SetResetCode, TextFails, ResetChecked, ResetPassword, Arrives, SendOk, Die
    <2>4. n(c)' = n(c)
      BY <2>3, <1>m, <1>n DEF One
    <2> QED
      BY <2>1, <2>2, <2>4, <1>h
  <1> QED
    BY <1>1, <1>2, <1>3, <1>4, <1>5

\* A guess is made while an attempt is left, by a request that is not among
\* those whose guess is yet to be counted.
LEMMA StepGuessesBounded ==
    ASSUME TypeOK, Ledger, GuessesBounded, NEW r \in Requests, Step(r)
    PROVE  GuessesBounded'
  <1> DEFINE N == Cardinality(Requests)
  <1>t. /\ row \in [code : 0..MaxCodes, attempts : Nat] /\ row.attempts \in Nat
        /\ tried \in [Codes -> Nat] /\ strayed \in [Codes -> Nat] /\ uncounted \in [Codes -> Nat]
        /\ MaxAttempts \in Nat /\ N \in Nat
    BY OtpAssumption, FS_CardinalityType DEF TypeOK
  <1> SUFFICES ASSUME NEW c \in Codes
               PROVE  tried'[c] <= MaxAttempts + (N - 1) + uncounted'[c]
    BY DEF GuessesBounded, Codes
  <1>h. tried[c] <= MaxAttempts + (N - 1) + uncounted[c]
    BY DEF GuessesBounded
  <1> HIDE DEF N
  <1>1. CASE VerifyWrong(r) /\ row.code = c
    <2>1. /\ tried' = Bump(tried, c) /\ uncounted' = uncounted /\ row.attempts < MaxAttempts
          /\ req[r].pc = "fresh"
      BY <1>1 DEF VerifyWrong, Open
    <2>2. tried'[c] = tried[c] + 1
      BY <2>1, <1>t DEF Bump
    <2>3. Cardinality(Missed(c)) <= N - 1 /\ Cardinality(Missed(c)) \in Nat
      <3>1. Missed(c) \subseteq Requests \ {r}
        BY <2>1 DEF Missed
      <3>2. IsFiniteSet(Requests \ {r}) /\ Cardinality(Requests \ {r}) = N - 1
        BY OtpAssumption, FS_RemoveElement DEF N
      <3>3. Cardinality(Missed(c)) <= Cardinality(Requests \ {r})
        BY <3>1, <3>2, FS_Subset
      <3> QED
        BY <3>2, <3>3, MissedNat
    <2>4. tried[c] + strayed[c] = row.attempts + Cardinality(Missed(c)) + uncounted[c]
      BY <1>1 DEF Ledger
    <2> QED
      BY <2>1, <2>2, <2>3, <2>4, <1>t
  <1>2. CASE ~(VerifyWrong(r) /\ row.code = c)
    <2>1. tried'[c] = tried[c]
      <3>1. tried' = tried \/ (row.code # c /\ tried' = Bump(tried, row.code))
        BY <1>2 DEF counts, Step, SendOtpSteps, RegisterSteps, ResetSteps, SendOtp, SetCode, Store, SendFails,
        DropUnsent, Register, DropKnown, VerifyNone, VerifyClosed, DropClosed, DeleteRow,
        VerifyWrong, CountAttempt, VerifyRight, CreateAccount, CreateFails, Forgot,
        SetResetCode, TextFails, ResetChecked, ResetPassword, Arrives, SendOk, Die
      <3> QED
        BY <3>1, <1>t DEF Bump
    <2>2. uncounted'[c] >= uncounted[c] /\ uncounted'[c] \in Nat
      <3>1. uncounted' = uncounted \/ uncounted' = Bump(uncounted, req[r].code)
        BY DEF counts, Step, SendOtpSteps, RegisterSteps, ResetSteps, SendOtp, SetCode, Store, SendFails,
        DropUnsent, Register, DropKnown, VerifyNone, VerifyClosed, DropClosed, DeleteRow,
        VerifyWrong, CountAttempt, VerifyRight, CreateAccount, CreateFails, Forgot,
        SetResetCode, TextFails, ResetChecked, ResetPassword, Arrives, SendOk, Die
      <3>2. CASE req[r].code = c
        BY <3>1, <3>2, <1>t DEF Bump
      <3>3. CASE req[r].code # c
        BY <3>1, <3>3, <1>t DEF Bump
      <3> QED
        BY <3>2, <3>3
    <2> QED
      BY <2>1, <2>2, <1>h, <1>t
  <1> QED
    BY <1>1, <1>2
-----------------------------------------------------------------------------
(* The invariant *)

\* Time passes: a code lapses and nothing else happens.
LEMMA LapseInv ==
    ASSUME IInv, NEW c \in Codes, Lapse(c)
    PROVE  IInv'
  <1>1. /\ UNCHANGED <<row, account, arrived, req, issued, latest, confirmed, revoked>>
        /\ UNCHANGED <<tried, strayed, uncounted, used, trials, deaths>>
        /\ lapsed' = lapsed \cup {c}
    BY DEF Lapse, counts
  <1>2. TypeOK'
    BY <1>1 DEF IInv, TypeOK, Codes, NoRow
  <1>3. Plain'
    BY <1>1 DEF IInv, Plain, Numbered, CodeInHand, AccountFirst, TwoKinds, OneCarrier, Closing, Codes
  <1>4. Claims'
    BY <1>1 DEF IInv, Claims, SentStands, Stands, ResetCodeStays, SpentIsSpent, OneTrial, Codes
  <1>5. Ledger'
    <2>1. \A d : Missed(d)' = Missed(d)
      BY <1>1 DEF Missed
    <2> QED
      BY <1>1, <2>1 DEF IInv, Ledger, Codes
  <1>6. GuessesBounded'
    BY <1>1 DEF IInv, GuessesBounded, Codes
  <1> QED
    BY <1>2, <1>3, <1>4, <1>5, <1>6 DEF IInv

\* A step that changes nothing.
LEMMA StutterInv == IInv /\ UNCHANGED vars => IInv'
  <1> SUFFICES ASSUME IInv, UNCHANGED vars PROVE IInv'
    OBVIOUS
  <1>1. /\ UNCHANGED <<row, account, lapsed, arrived, req, issued, latest, confirmed, revoked>>
        /\ UNCHANGED <<tried, strayed, uncounted, used, trials, deaths>>
    BY DEF vars
  <1>2. TypeOK'
    BY <1>1 DEF IInv, TypeOK, Codes, NoRow
  <1>3. Plain'
    BY <1>1 DEF IInv, Plain, Numbered, CodeInHand, AccountFirst, TwoKinds, OneCarrier, Closing, Codes
  <1>4. Claims'
    BY <1>1 DEF IInv, Claims, SentStands, Stands, ResetCodeStays, SpentIsSpent, OneTrial, Codes
  <1>5. Ledger'
    <2>1. \A d : Missed(d)' = Missed(d)
      BY <1>1 DEF Missed
    <2> QED
      BY <1>1, <2>1 DEF IInv, Ledger, Codes
  <1>6. GuessesBounded'
    BY <1>1 DEF IInv, GuessesBounded, Codes
  <1> QED
    BY <1>2, <1>3, <1>4, <1>5, <1>6 DEF IInv

LEMMA NextInv == IInv /\ Next => IInv'
  <1> SUFFICES ASSUME IInv, Next PROVE IInv'
    OBVIOUS
  <1> USE DEF IInv, Plain, Claims
  <1>1. ASSUME NEW r \in Requests, Step(r) PROVE IInv'
    <2>1. TypeOK'
      BY <1>1, StepType
    <2>2. Numbered' /\ CodeInHand' /\ TwoKinds' /\ OneCarrier' /\ Closing'
      BY <1>1, StepNumbered, StepCodeInHand, StepTwoKinds, StepOneCarrier, StepClosing
    <2>3. AccountFirst' /\ OneTrial'
      BY <1>1, StepAccountFirst
    <2>4. SentStands' /\ ResetCodeStays' /\ SpentIsSpent'
      BY <1>1, StepSentStands, StepResetCodeStays, StepSpentIsSpent
    <2>5. Ledger' /\ GuessesBounded'
      BY <1>1, StepLedger, StepGuessesBounded
    <2> QED
      BY <2>1, <2>2, <2>3, <2>4, <2>5
  <1>2. ASSUME NEW c \in Codes, Lapse(c) PROVE IInv'
    BY <1>2, LapseInv
  <1> QED
    BY <1>1, <1>2 DEF Next, Step

\* The strengthened invariant holds in every reachable state, whatever the
\* number of requests, codes, attempts and deaths.
THEOREM Invariance == Spec => []IInv
  <1>1. IInv /\ [Next]_vars => IInv'
    BY NextInv, StutterInv
  <1> QED
    BY InitInv, <1>1, PTL DEF Spec

\* Types of the rows, requests and observers (otp-store.ts, the routes of auth).
THEOREM TypeCorrect == Spec => []TypeOK
  <1>1. IInv => TypeOK
    BY DEF IInv
  <1> QED
    BY <1>1, Invariance, PTL

\* A code is guessed at most MAX_ATTEMPTS times, once more for every other
\* request and for every one that died before it counted (otp-store.ts:31-45).
THEOREM GuessesBoundedAlways == Spec => []GuessesBounded
  <1>1. IInv => GuessesBounded
    BY DEF IInv
  <1> QED
    BY <1>1, Invariance, PTL

\* A confirmed registration code stays usable until it is over, or a request
\* that meant an older code removes it (send-otp/route.ts:78-84).
THEOREM ConfirmedCodeStaysAlways == Spec => []ConfirmedCodeStays
  <1>1. IInv => ConfirmedCodeStays
    <2> SUFFICES ASSUME IInv PROVE ConfirmedCodeStays
      OBVIOUS
    <2>1. confirmed \subseteq Codes /\ 0 \notin Codes
      BY OtpAssumption DEF IInv, TypeOK, Codes
    <2> QED
      BY <2>1 DEF IInv, Claims, SentStands, Stands, ConfirmedCodeStays
  <1> QED
    BY <1>1, Invariance, PTL

\* A reset code stays in force until it is used or a reset with an older code
\* clears it (forgot-password/route.ts:45-51, reset-password/route.ts:57-64).
THEOREM ResetCodeStaysAlways == Spec => []ResetCodeStays
  <1>1. IInv => ResetCodeStays
    BY DEF IInv, Claims
  <1> QED
    BY <1>1, Invariance, PTL

\* A code that was acted on is in force nowhere (register/route.ts:48-75,
\* reset-password/route.ts:57-64).
THEOREM SpentIsSpentAlways == Spec => []SpentIsSpent
  <1>1. IInv => SpentIsSpent
    BY DEF IInv, Claims
  <1> QED
    BY <1>1, Invariance, PTL

\* However many registrations overlap, one trial is given (register/route.ts:48-75).
THEOREM OneTrialAlways == Spec => []OneTrial
  <1>1. IInv => OneTrial
    BY DEF IInv, Claims
  <1> QED
    BY <1>1, Invariance, PTL
-----------------------------------------------------------------------------
(* The refinement of CodeBook *)

\* What the refinement mapping substitutes for the variables of CodeBook that
\* are no variables of Otp.
inForceOf == [p \in {"register", "reset"} |-> IF p = "register" THEN row.code ELSE account.otpCode]
foundOf   == [r \in Requests |-> FoundBy(req[r])]
booked    == <<issued, inForceOf, arrived, lapsed, foundOf, tried, used, account.exists>>

\* What a request that found nothing has found.
Nothing == [purpose |-> "none", code |-> 0]

\* The steps of CodeBook, read through the mapping.
LEMMA Mapping ==
    ASSUME account.exists \in BOOLEAN, account'.exists \in BOOLEAN
    PROVE  /\ booked' = booked => UNCHANGED Book!vars
           /\ \A p \in {"register", "reset"} :
                /\ issued + 1 \in Codes /\ (p = "reset" => account.exists)
                /\ issued' = issued + 1
                /\ inForceOf' = [inForceOf EXCEPT ![p] = issued']
                /\ UNCHANGED <<arrived, lapsed, foundOf, tried, used, account.exists>>
                => Book!Next
           /\ \A c \in Codes :
                /\ c \in 1..issued /\ arrived' = arrived \cup {c}
                /\ UNCHANGED <<issued, inForceOf, lapsed, foundOf, tried, used, account.exists>>
                => Book!Next
           /\ \A c \in Codes :
                /\ inForceOf["register"] = c \/ inForceOf["reset"] = c
                /\ lapsed' = lapsed \cup {c}
                /\ UNCHANGED <<issued, inForceOf, arrived, foundOf, tried, used, account.exists>>
                => Book!Next
           /\ \A c \in Codes :
                /\ inForceOf["register"] = c /\ c \notin lapsed
                /\ tried' = [tried EXCEPT ![c] = @ + 1]
                /\ UNCHANGED <<issued, inForceOf, arrived, lapsed, foundOf, used, account.exists>>
                => Book!Next
           /\ \A r \in Requests, p \in {"register", "reset"} :
                /\ foundOf[r] = Nothing /\ inForceOf[p] \in arrived \ lapsed
                /\ foundOf' = [foundOf EXCEPT ![r] = [purpose |-> p, code |-> inForceOf[p]]]
                /\ UNCHANGED <<issued, inForceOf, arrived, lapsed, tried, used, account.exists>>
                => Book!Next
           /\ \A r \in Requests, p \in {"register", "reset"} :
                /\ foundOf[r].purpose = p
                /\ IF p = "reset" THEN account.exists ELSE ~account.exists
                /\ used' = [used EXCEPT ![foundOf[r].code] = @ + 1]
                /\ inForceOf' = [inForceOf EXCEPT ![p] = 0]
                /\ foundOf' = [foundOf EXCEPT ![r] = Nothing]
                /\ account'.exists
                /\ UNCHANGED <<issued, arrived, lapsed, tried>>
                => Book!Next
           /\ \A r \in Requests :
                /\ foundOf' = [foundOf EXCEPT ![r] = Nothing]
                /\ UNCHANGED <<issued, inForceOf, arrived, lapsed, tried, used, account.exists>>
                => Book!Next
           /\ /\ inForceOf' = [inForceOf EXCEPT !["register"] = 0]
              /\ UNCHANGED <<issued, arrived, lapsed, foundOf, tried, used, account.exists>>
              => Book!Next
  <1> USE DEF inForceOf, foundOf, Nothing, Book!Nothing
  <1>1. booked' = booked => UNCHANGED Book!vars
    BY DEF booked, Book!vars
  <1>2. ASSUME NEW p \in {"register", "reset"}, issued + 1 \in Codes, p = "reset" => account.exists,
               issued' = issued + 1, inForceOf' = [inForceOf EXCEPT ![p] = issued'],
               UNCHANGED <<arrived, lapsed, foundOf, tried, used, account.exists>>
        PROVE  Book!Issue(p)
    BY <1>2 DEF Book!Issue
  <1>3. ASSUME NEW c \in Codes, c \in 1..issued, arrived' = arrived \cup {c},
               UNCHANGED <<issued, inForceOf, lapsed, foundOf, tried, used, account.exists>>
        PROVE  Book!Reach(c)
    BY <1>3 DEF Book!Reach
  <1>4. ASSUME NEW c \in Codes, inForceOf["register"] = c \/ inForceOf["reset"] = c,
               lapsed' = lapsed \cup {c},
               UNCHANGED <<issued, inForceOf, arrived, foundOf, tried, used, account.exists>>
        PROVE  Book!Lapse(c)
    BY <1>4 DEF Book!Lapse, Book!Purposes
  <1>5. ASSUME NEW c \in Codes, inForceOf["register"] = c, c \notin lapsed,
               tried' = [tried EXCEPT ![c] = @ + 1],
               UNCHANGED <<issued, inForceOf, arrived, lapsed, foundOf, used, account.exists>>
        PROVE  Book!Guess(c)
    BY <1>5 DEF Book!Guess
  <1>6. ASSUME NEW r \in Requests, NEW p \in {"register", "reset"},
               foundOf[r] = Nothing, inForceOf[p] \in arrived \ lapsed,
               foundOf' = [foundOf EXCEPT ![r] = [purpose |-> p, code |-> inForceOf[p]]],
               UNCHANGED <<issued, inForceOf, arrived, lapsed, tried, used, account.exists>>
        PROVE  Book!Find(r, p)
    BY <1>6 DEF Book!Find
  <1>7. ASSUME NEW r \in Requests, NEW p \in {"register", "reset"},
               foundOf[r].purpose = p, IF p = "reset" THEN account.exists ELSE ~account.exists,
               used' = [used EXCEPT ![foundOf[r].code] = @ + 1],
               inForceOf' = [inForceOf EXCEPT ![p] = 0],
               foundOf' = [foundOf EXCEPT ![r] = Nothing], account'.exists,
               UNCHANGED <<issued, arrived, lapsed, tried>>
        PROVE  Book!Act(r, p)
    <2>1. account.exists = (p = "reset") /\ account'.exists = TRUE
      BY <1>7
    <2> QED
      BY <1>7, <2>1 DEF Book!Act
  <1>8. ASSUME NEW r \in Requests, foundOf' = [foundOf EXCEPT ![r] = Nothing],
               UNCHANGED <<issued, inForceOf, arrived, lapsed, tried, used, account.exists>>
        PROVE  Book!GiveUp(r)
    BY <1>8 DEF Book!GiveUp
  <1>9. ASSUME inForceOf' = [inForceOf EXCEPT !["register"] = 0],
               UNCHANGED <<issued, arrived, lapsed, foundOf, tried, used, account.exists>>
        PROVE  Book!Withdraw
    BY <1>9 DEF Book!Withdraw
  <1> HIDE DEF inForceOf, foundOf, Nothing, Book!Nothing
  <1>n. /\ \A p \in {"register", "reset"} : Book!Issue(p) => Book!Next
        /\ \A c \in Codes : Book!Reach(c) \/ Book!Lapse(c) \/ Book!Guess(c) => Book!Next
        /\ \A r \in Requests, p \in {"register", "reset"} : Book!Find(r, p) \/ Book!Act(r, p) => Book!Next
        /\ \A r \in Requests : Book!GiveUp(r) => Book!Next
        /\ Book!Withdraw => Book!Next
    BY DEF Book!Next, Book!Purposes
  <1> QED
    BY <1>1, <1>2, <1>3, <1>4, <1>5, <1>6, <1>7, <1>8, <1>9, <1>n

\* What a step of a request does to what it found.
LEMMA FoundStep ==
    ASSUME TypeOK, NEW r \in Requests, Step(r)
    PROVE  /\ foundOf[r] = FoundBy(req[r])
           /\ foundOf' = [foundOf EXCEPT ![r] = FoundBy(req'[r])]
           /\ FoundBy(req[r]) = FoundBy(req'[r]) => foundOf' = foundOf
  <1>1. req' = [req EXCEPT ![r] = req'[r]] /\ req \in [Requests -> Reqs]
    BY StepReq DEF TypeOK, Reqs
  <1> QED
    BY <1>1 DEF foundOf

\* Only a request about to write has found something.
LEMMA FoundNothing ==
    \A x : x.pc \notin {"valid", "resetting"} => FoundBy(x) = Nothing
  BY DEF FoundBy, Nothing

\* A step of a request is a step of CodeBook or invisible to the owner.
LEMMA RequestKept ==
    ASSUME IInv, NEW r \in Requests, Step(r)
    PROVE  Book!Next \/ UNCHANGED Book!vars
  <1> USE OtpAssumption
  <1>t. /\ TypeOK /\ TypeOK' /\ req \in [Requests -> Reqs] /\ req' \in [Requests -> Reqs]
        /\ row \in [code : 0..MaxCodes, attempts : Nat]
        /\ account \in [exists : BOOLEAN, otpCode : 0..MaxCodes]
        /\ account' \in [exists : BOOLEAN, otpCode : 0..MaxCodes]
        /\ issued \in 0..MaxCodes
        /\ Plain
    BY StepType DEF IInv, Plain, TypeOK, Reqs
  <1>b. account.exists \in BOOLEAN /\ account'.exists \in BOOLEAN
    BY <1>t
  <1>d. \A r0 \in Requests : /\ End(r0) => req'[r0] = Done
                             /\ \A pc : Goto(r0, pc) => req'[r0].pc = pc
    BY <1>t DEF End, Goto, Reqs
  <1>e. /\ FoundBy(Done) = Nothing
        /\ foundOf[r] = FoundBy(req[r])
        /\ foundOf' = [foundOf EXCEPT ![r] = FoundBy(req'[r])]
        /\ FoundBy(req[r]) = FoundBy(req'[r]) => foundOf' = foundOf
    BY FoundStep, FoundNothing, <1>t DEF Done
  <1>f. ASSUME req[r].pc \notin {"valid", "resetting"}, req'[r].pc \notin {"valid", "resetting"}
        PROVE  foundOf' = foundOf
    BY <1>f, <1>e, FoundNothing
  <1>r. /\ inForceOf["register"] = row.code /\ inForceOf["reset"] = account.otpCode
        /\ row' = row /\ account' = account => inForceOf' = inForceOf
    BY DEF inForceOf
  <1>1. ASSUME \/ SendOtp(r) \/ SendFails(r) \/ Register(r) \/ VerifyNone(r) \/ VerifyClosed(r)
               \/ Forgot(r) \/ TextFails(r) \/ SendOk(r)
        PROVE  UNCHANGED Book!vars
    <2>1. /\ UNCHANGED <<row, account, issued, arrived, lapsed, tried, used>>
          /\ req[r].pc \notin {"valid", "resetting"}
      BY <1>1 DEF SendOtp, SendFails, Register, VerifyNone, VerifyClosed, Forgot, TextFails, SendOk, counts
    <2>2. req'[r].pc \notin {"valid", "resetting"}
      <3>1. CASE VerifyClosed(r)
        BY <3>1, <1>t DEF VerifyClosed
      <3>2. CASE ~VerifyClosed(r)
        <4>1. End(r) \/ \E pc \in {"new", "failed", "fresh", "known", "found"} : Goto(r, pc)
          BY <3>2, <1>1 DEF SendOtp, SendFails, Register, VerifyNone, Forgot, TextFails, SendOk
        <4> QED
          BY <4>1, <1>d DEF Done
      <3> QED
        BY <3>1, <3>2
    <2> QED
      BY <2>1, <2>2, <1>f, <1>r, <1>b, Mapping DEF booked
  <1>2. ASSUME SetCode(r) PROVE Book!Next
    <2>1. /\ issued + 1 \in Codes /\ issued' = issued + 1 /\ row'.code = issued'
          /\ UNCHANGED <<account, lapsed, arrived, tried, used>>
          /\ req[r].pc = "new" /\ req'[r].pc = "sending"
      BY <1>2, <1>t DEF SetCode, Store, Codes, counts
    <2>2. inForceOf' = [inForceOf EXCEPT !["register"] = issued']
      BY <2>1 DEF inForceOf
    <2> QED
      BY <2>1, <2>2, <1>f, <1>b, Mapping
  <1>3. ASSUME DropUnsent(r) \/ DropKnown(r) \/ DropClosed(r) PROVE Book!Next
    <2>1. /\ row' = NoRow /\ End(r)
          /\ UNCHANGED <<account, issued, lapsed, arrived, tried, used>>
          /\ req[r].pc \notin {"valid", "resetting"}
      BY <1>3 DEF DropUnsent, DropKnown, DropClosed, DeleteRow, counts
    <2>2. inForceOf' = [inForceOf EXCEPT !["register"] = 0]
      BY <2>1 DEF inForceOf, NoRow
    <2>3. req'[r].pc = "idle"
      BY <2>1, <1>d DEF Done
    <2> QED
      BY <2>1, <2>2, <2>3, <1>f, <1>b, Mapping
  <1>4. ASSUME Arrives(r) PROVE Book!Next
    <2>1. PICK c : c = req[r].code
      OBVIOUS
    <2>2. c \in Codes /\ c <= issued
      BY <1>4, <2>1, <1>t DEF Arrives, Plain, CodeInHand, Carrying, Numbered
    <2>3. /\ arrived' = arrived \cup {c}
          /\ UNCHANGED <<row, account, req, issued, lapsed, tried, used>>
      BY <1>4, <2>1 DEF Arrives, counts
    <2>4. c \in 1..issued
      BY <2>2, <1>t DEF Codes
    <2>5. foundOf' = foundOf
      BY <2>3 DEF foundOf
    <2> QED
      BY <2>2, <2>3, <2>4, <2>5, <1>r, <1>b, Mapping
  <1>5. ASSUME VerifyWrong(r) PROVE Book!Next
    <2>1. row.code \in Codes /\ row.code \notin lapsed
      BY <1>5, <1>t DEF VerifyWrong, Open, TypeOK, Codes
    <2>2. /\ tried' = [tried EXCEPT ![row.code] = @ + 1]
          /\ UNCHANGED <<row, account, issued, lapsed, arrived, used>>
          /\ req[r].pc = "fresh"
      BY <1>5 DEF VerifyWrong, Bump
    <2>3. req'[r].pc = "missed"
      BY <1>5, <1>t DEF VerifyWrong
    <2> QED
      BY <2>1, <2>2, <2>3, <1>f, <1>r, <1>b, Mapping
  <1>6. ASSUME CountAttempt(r) PROVE UNCHANGED Book!vars
    <2>1. /\ row'.code = row.code /\ End(r)
          /\ UNCHANGED <<account, issued, lapsed, arrived, tried, used>>
          /\ req[r].pc = "missed"
      BY <1>6, <1>t DEF CountAttempt
    <2>2. req'[r].pc = "idle"
      BY <2>1, <1>d DEF Done
    <2>3. inForceOf' = inForceOf
      BY <2>1 DEF inForceOf
    <2> QED
      BY <2>1, <2>2, <2>3, <1>f, <1>b, Mapping DEF booked
  <1>7. ASSUME VerifyRight(r) PROVE Book!Next
    <2>1. /\ row.code \in arrived \ lapsed /\ req[r].pc = "fresh"
          /\ UNCHANGED <<row, account, issued, lapsed, arrived, tried, used>>
          /\ req'[r] = [pc |-> "valid", code |-> row.code]
      BY <1>7, <1>t DEF VerifyRight, Open, counts
    <2>2. FoundBy(req'[r]) = [purpose |-> "register", code |-> row.code]
      BY <2>1 DEF FoundBy
    <2>3. foundOf[r] = Nothing
      BY <2>1, <1>e, FoundNothing
    <2> QED
      BY <2>1, <2>2, <2>3, <1>e, <1>r, <1>b, Mapping
  <1>8. ASSUME CreateAccount(r) PROVE Book!Next
    <2>1. /\ req[r].pc = "valid" /\ ~account.exists /\ account'.exists
          /\ row'.code = 0 /\ account'.otpCode = 0 /\ End(r)
          /\ used' = [used EXCEPT ![req[r].code] = @ + 1]
          /\ UNCHANGED <<issued, lapsed, arrived, tried>>
      BY <1>8 DEF CreateAccount, Bump, NoRow
    <2>2. account.otpCode = 0
      BY <2>1, <1>t DEF Plain, AccountFirst
    <2>3. inForceOf' = [inForceOf EXCEPT !["register"] = 0]
      BY <2>1, <2>2 DEF inForceOf
    <2>4. /\ foundOf[r].purpose = "register"
          /\ used' = [used EXCEPT ![foundOf[r].code] = @ + 1]
      <3>1. foundOf[r] = [purpose |-> "register", code |-> req[r].code]
        BY <2>1, <1>e DEF FoundBy
      <3>2. foundOf[r].code = req[r].code
        BY <3>1
      <3> QED
        BY <3>1, <3>2, <2>1
    <2>5. foundOf' = [foundOf EXCEPT ![r] = Nothing]
      BY <2>1, <1>d, <1>e
    <2> QED
      BY <2>1, <2>3, <2>4, <2>5, <1>b, Mapping
  <1>9. ASSUME CreateFails(r) \/ Die(r) PROVE Book!Next
    <2>1. /\ UNCHANGED <<row, account, issued, lapsed, arrived, tried, used>> /\ End(r)
      BY <1>9 DEF CreateFails, Die, counts
    <2>2. foundOf' = [foundOf EXCEPT ![r] = Nothing]
      BY <2>1, <1>d, <1>e
    <2> QED
      BY <2>1, <2>2, <1>r, <1>b, Mapping
  <1>10. ASSUME SetResetCode(r) PROVE Book!Next
    <2>1. /\ issued + 1 \in Codes /\ issued' = issued + 1 /\ account'.otpCode = issued'
          /\ account'.exists = account.exists
          /\ UNCHANGED <<row, lapsed, arrived, tried, used>>
          /\ req[r].pc = "found" /\ req'[r].pc = "texting"
      BY <1>10, <1>t DEF SetResetCode, Codes, counts
    <2>2. inForceOf' = [inForceOf EXCEPT !["reset"] = issued']
      BY <2>1 DEF inForceOf
    <2>3. account.exists
      BY <2>1, <1>t DEF Plain, AccountFirst
    <2> QED
      BY <2>1, <2>2, <2>3, <1>f, <1>b, Mapping
  <1>11. ASSUME ResetChecked(r) PROVE Book!Next
    <2>1. /\ account.otpCode \in arrived \ lapsed /\ req[r].pc = "idle"
          /\ UNCHANGED <<row, account, issued, lapsed, arrived, tried, used>>
          /\ req'[r] = [pc |-> "resetting", code |-> account.otpCode]
      BY <1>11, <1>t DEF ResetChecked, counts
    <2>2. FoundBy(req'[r]) = [purpose |-> "reset", code |-> account.otpCode]
      BY <2>1 DEF FoundBy
    <2>3. foundOf[r] = Nothing
      BY <2>1, <1>e, FoundNothing
    <2> QED
      BY <2>1, <2>2, <2>3, <1>e, <1>r, <1>b, Mapping
  <1>12. ASSUME ResetPassword(r) PROVE Book!Next
    <2>1. /\ req[r].pc = "resetting" /\ account'.exists = account.exists
          /\ account'.otpCode = 0 /\ End(r)
          /\ used' = [used EXCEPT ![req[r].code] = @ + 1]
          /\ UNCHANGED <<row, issued, lapsed, arrived, tried>>
      BY <1>12, <1>t DEF ResetPassword, Bump
    <2>2. account.exists
      BY <2>1, <1>t DEF Plain, AccountFirst
    <2>3. inForceOf' = [inForceOf EXCEPT !["reset"] = 0]
      BY <2>1 DEF inForceOf
    <2>4. /\ foundOf[r].purpose = "reset"
          /\ used' = [used EXCEPT ![foundOf[r].code] = @ + 1]
      <3>1. foundOf[r] = [purpose |-> "reset", code |-> req[r].code]
        BY <2>1, <1>e DEF FoundBy
      <3>2. foundOf[r].code = req[r].code
        BY <3>1
      <3> QED
        BY <3>1, <3>2, <2>1
    <2>5. foundOf' = [foundOf EXCEPT ![r] = Nothing]
      BY <2>1, <1>d, <1>e
    <2> QED
      BY <2>1, <2>2, <2>3, <2>4, <2>5, <1>b, Mapping
  <1> QED
    BY <1>1, <1>2, <1>3, <1>4, <1>5, <1>6, <1>7, <1>8, <1>9, <1>10, <1>11, <1>12
       DEF Step, SendOtpSteps, RegisterSteps, ResetSteps

\* So is every step.
LEMMA StepKept == IInv /\ [Next]_vars => [Book!Next]_(Book!vars)
  <1> SUFFICES ASSUME IInv, [Next]_vars PROVE Book!Next \/ UNCHANGED Book!vars
    OBVIOUS
  <1>b. account.exists \in BOOLEAN
    BY DEF IInv, TypeOK
  <1>1. ASSUME NEW c \in Codes, Lapse(c) PROVE Book!Next
    <2>1. /\ c = row.code \/ c = account.otpCode
          /\ lapsed' = lapsed \cup {c}
          /\ UNCHANGED <<row, account, req, issued, arrived, tried, used>>
      BY <1>1 DEF Lapse, counts
    <2>2. /\ inForceOf["register"] = row.code /\ inForceOf["reset"] = account.otpCode
          /\ UNCHANGED <<inForceOf, foundOf>>
      BY <2>1 DEF inForceOf, foundOf
    <2> QED
      BY <2>1, <2>2, <1>b, Mapping
  <1>2. CASE UNCHANGED vars
    BY <1>2, <1>b, Mapping DEF vars, booked, inForceOf, foundOf
  <1> QED
    BY <1>1, <1>2, RequestKept DEF Next, Step

LEMMA InitKept == Init => Book!Init
  BY FoundNothing DEF Init, Book!Init, Book!Purposes, Book!Nothing, Nothing, NoRow, Done

\* The requests of a number implement the life of a code (otp-store.ts:16-52,
\* register/route.ts:26-75, reset-password/route.ts:40-64): however they
\* overlap, a code comes into force once, is found right only while it is in
\* force, and never comes back after it was used, replaced or withdrawn.
THEOREM KeepsTheBookAlways == Spec => KeepsTheBook
  BY InitKept, StepKept, Invariance, PTL DEF Spec, KeepsTheBook, Book!Spec
=============================================================================
