-------------------------------- MODULE Otp --------------------------------
(***************************************************************************)
(* The one-time codes of one phone number of the portal: the code that     *)
(* confirms a registration (lib/otp-store.ts, api/auth/register/send-otp,  *)
(* api/auth/register) and the code that resets a password                  *)
(* (api/auth/forgot-password, api/auth/reset-password).                    *)
(*                                                                         *)
(* The requests of the number run concurrently in several workers; every   *)
(* `await` on the database or on the engine is a point where the others,   *)
(* the clock or the death of a worker steps in, hence one action per await. *)
(* A code is the number of its issue: two random codes are taken to differ, *)
(* and a guess is either the code in force, which only someone it reached   *)
(* can enter, or a wrong one.                                              *)
(***************************************************************************)
EXTENDS Integers, FiniteSets

CONSTANTS
    Requests,       \* requests that may be in progress for the number
    MaxAttempts,    \* MAX_ATTEMPTS of otp-store.ts (5 there)
    MaxCodes,       \* bound: codes issued
    MaxDeaths       \* bound: requests that die with their worker

ASSUME OtpAssumption ==
    /\ IsFiniteSet(Requests)
    /\ MaxAttempts \in Nat \ {0}
    /\ MaxCodes \in Nat /\ MaxDeaths \in Nat

VARIABLES
    row,        \* the RegistrationOtp row of the number, or NoRow
    account,    \* the User row: does it exist, and its otpCode (0 is null)
    lapsed,     \* codes whose validity is over
    arrived,    \* codes that reached the phone
    req,        \* the local state of every request
    (* observers: they never guard a step of the program *)
    issued,     \* codes stored so far
    latest,     \* the code stored last, by purpose
    confirmed,  \* codes whose sender was told that they were delivered
    tried,      \* wrong guesses compared with a code
    strayed,    \* attempts counted on a code that was not the one compared
    uncounted,  \* wrong guesses whose request died before it counted them
    revoked,    \* codes removed by a request that meant another code
    used,       \* times a code was accepted and acted on
    trials,     \* free trials given
    deaths

vars == <<row, account, lapsed, arrived, req, issued, latest, confirmed, tried,
          strayed, uncounted, revoked, used, trials, deaths>>

Codes == 1..MaxCodes
NoRow == [code |-> 0, attempts |-> 0]
Done  == [pc |-> "idle", code |-> 0]

\* Where a request stands: the await it is at.
Stages == {"idle", "new", "sending", "failed",              \* send-otp
           "fresh", "known", "dropping", "missed", "valid", \* register
           "found", "texting",                              \* forgot-password
           "resetting"}                                     \* reset-password

TypeOK ==
    /\ row \in [code : 0..MaxCodes, attempts : Nat]
    /\ row.code = 0 => row = NoRow
    /\ account \in [exists : BOOLEAN, otpCode : 0..MaxCodes]
    /\ lapsed \subseteq Codes /\ arrived \subseteq Codes
    /\ req \in [Requests -> [pc : Stages, code : 0..MaxCodes]]
    /\ issued \in 0..MaxCodes
    /\ latest \in [{"register", "reset"} -> 0..MaxCodes]
    /\ confirmed \subseteq Codes /\ revoked \subseteq Codes
    /\ tried \in [Codes -> Nat] /\ strayed \in [Codes -> Nat]
    /\ uncounted \in [Codes -> Nat] /\ used \in [Codes -> Nat]
    /\ trials \in Nat /\ deaths \in 0..MaxDeaths

Init ==
    /\ row = NoRow
    /\ account = [exists |-> FALSE, otpCode |-> 0]
    /\ lapsed = {} /\ arrived = {}
    /\ req = [r \in Requests |-> Done]
    /\ issued = 0
    /\ latest = [p \in {"register", "reset"} |-> 0]
    /\ confirmed = {} /\ revoked = {}
    /\ tried = [c \in Codes |-> 0]
    /\ strayed = [c \in Codes |-> 0]
    /\ uncounted = [c \in Codes |-> 0]
    /\ used = [c \in Codes |-> 0]
    /\ trials = 0 /\ deaths = 0

Goto(r, pc)  == req' = [req EXCEPT ![r].pc = pc]
End(r)       == req' = [req EXCEPT ![r] = Done]
Bump(f, c)   == [f EXCEPT ![c] = @ + 1]

counts == <<tried, strayed, uncounted, used, trials, deaths>>

-----------------------------------------------------------------------------
(* POST register/send-otp *)

\* A number that has an account is refused.
SendOtp(r) ==
    /\ req[r].pc = "idle" /\ ~account.exists
    /\ Goto(r, "new")
    /\ UNCHANGED <<row, account, lapsed, arrived, issued, latest, confirmed, revoked, counts>>

Store(r, attempts) ==
    /\ req[r].pc = "new" /\ issued < MaxCodes
    /\ issued' = issued + 1
    /\ row' = [code |-> issued', attempts |-> attempts]
    /\ latest' = [latest EXCEPT !["register"] = issued']
    /\ req' = [req EXCEPT ![r] = [pc |-> "sending", code |-> issued']]
    /\ UNCHANGED <<account, lapsed, arrived, confirmed, revoked, counts>>

\* Slip: the upsert leaves the attempts of the former code.
SetCodeKeepsAttempts(r) == Store(r, row.attempts)

\* otpStore.set: the upsert replaces the code and clears its attempts.
SetCode(r) == Store(r, 0)

\* The text reaches the phone; its answer has not come back yet.
Arrives(r) ==
    /\ req[r].pc \in {"sending", "texting"}
    /\ req[r].code \notin arrived
    /\ arrived' = arrived \cup {req[r].code}
    /\ UNCHANGED <<row, account, lapsed, req, issued, latest, confirmed, revoked, counts>>

\* sendText returned: the requester is told that the code was sent.
SendOk(r) ==
    /\ req[r].pc \in {"sending", "texting"} /\ req[r].code \in arrived
    /\ confirmed' = confirmed \cup {req[r].code}
    /\ End(r)
    /\ UNCHANGED <<row, account, lapsed, arrived, issued, latest, revoked, counts>>

\* No sender is connected, or sendText threw, whether or not the text went.
SendFails(r) ==
    /\ req[r].pc = "sending"
    /\ Goto(r, "failed")
    /\ UNCHANGED <<row, account, lapsed, arrived, issued, latest, confirmed, revoked, counts>>

\* otpStore.delete: whatever code the row holds by now.
DeleteRow(r) ==
    /\ row' = NoRow
    /\ revoked' = revoked \cup ({row.code} \ {0, req[r].code})
    /\ End(r)
    /\ UNCHANGED <<account, lapsed, arrived, issued, latest, confirmed, counts>>

DropUnsent(r) == req[r].pc = "failed" /\ DeleteRow(r)

-----------------------------------------------------------------------------
(* POST register *)

\* An account that exists ends the registration, after its code is deleted.
Register(r) ==
    /\ req[r].pc = "idle"
    /\ Goto(r, IF account.exists THEN "known" ELSE "fresh")
    /\ UNCHANGED <<row, account, lapsed, arrived, issued, latest, confirmed, revoked, counts>>

DropKnown(r) == req[r].pc = "known" /\ DeleteRow(r)

Open == row # NoRow /\ row.code \notin lapsed /\ row.attempts < MaxAttempts

\* otpStore.verify reads the row and finds none.
VerifyNone(r) ==
    /\ req[r].pc = "fresh" /\ row = NoRow
    /\ End(r)
    /\ UNCHANGED <<row, account, lapsed, arrived, issued, latest, confirmed, revoked, counts>>

\* The row it read is expired or has no attempt left: it will be deleted.
VerifyClosed(r) ==
    /\ req[r].pc = "fresh" /\ row # NoRow /\ ~Open
    /\ req' = [req EXCEPT ![r] = [pc |-> "dropping", code |-> row.code]]
    /\ UNCHANGED <<row, account, lapsed, arrived, issued, latest, confirmed, revoked, counts>>

DropClosed(r) == req[r].pc = "dropping" /\ DeleteRow(r)

\* Slip: the number of attempts is compared with the limit by `>`.
VerifyWrongOnceMore(r) ==
    /\ req[r].pc = "fresh" /\ row # NoRow /\ row.code \notin lapsed
    /\ row.attempts <= MaxAttempts
    /\ req' = [req EXCEPT ![r] = [pc |-> "missed", code |-> row.code]]
    /\ tried' = Bump(tried, row.code)
    /\ UNCHANGED <<row, account, lapsed, arrived, issued, latest, confirmed, revoked,
                   strayed, uncounted, used, trials, deaths>>

\* The guess differs from the code read; the attempt is yet to be counted.
VerifyWrong(r) ==
    /\ req[r].pc = "fresh" /\ Open
    /\ req' = [req EXCEPT ![r] = [pc |-> "missed", code |-> row.code]]
    /\ tried' = Bump(tried, row.code)
    /\ UNCHANGED <<row, account, lapsed, arrived, issued, latest, confirmed, revoked,
                   strayed, uncounted, used, trials, deaths>>

\* The increment: on the row of the phone, whichever code it holds by now; a
\* row that is gone makes the update throw, and the request ends all the same.
CountAttempt(r) ==
    /\ req[r].pc = "missed"
    /\ row' = IF row = NoRow THEN row ELSE [row EXCEPT !.attempts = @ + 1]
    /\ strayed' = IF row.code \in {0, req[r].code} THEN strayed ELSE Bump(strayed, row.code)
    /\ End(r)
    /\ UNCHANGED <<account, lapsed, arrived, issued, latest, confirmed, revoked,
                   tried, uncounted, used, trials, deaths>>

\* The guess is the code read. The row stays until the account is made.
VerifyRight(r) ==
    /\ req[r].pc = "fresh" /\ Open /\ row.code \in arrived
    /\ req' = [req EXCEPT ![r] = [pc |-> "valid", code |-> row.code]]
    /\ UNCHANGED <<row, account, lapsed, arrived, issued, latest, confirmed, revoked, counts>>

\* The transaction makes the user, the trial, and deletes the code.
CreateAccount(r) ==
    /\ req[r].pc = "valid" /\ ~account.exists
    /\ account' = [exists |-> TRUE, otpCode |-> 0]
    /\ trials' = trials + 1
    /\ used' = Bump(used, req[r].code)
    /\ row' = NoRow
    /\ End(r)
    /\ UNCHANGED <<lapsed, arrived, issued, latest, confirmed, revoked,
                   tried, strayed, uncounted, deaths>>

\* User.email is unique: the transaction is rolled back.
CreateFails(r) ==
    /\ req[r].pc = "valid" /\ account.exists
    /\ End(r)
    /\ UNCHANGED <<row, account, lapsed, arrived, issued, latest, confirmed, revoked, counts>>

-----------------------------------------------------------------------------
(* POST forgot-password *)

\* Only a number with an account is served.
Forgot(r) ==
    /\ req[r].pc = "idle" /\ account.exists
    /\ Goto(r, "found")
    /\ UNCHANGED <<row, account, lapsed, arrived, issued, latest, confirmed, revoked, counts>>

\* The new code replaces the one of the account.
SetResetCode(r) ==
    /\ req[r].pc = "found" /\ issued < MaxCodes
    /\ issued' = issued + 1
    /\ account' = [account EXCEPT !.otpCode = issued']
    /\ latest' = [latest EXCEPT !["reset"] = issued']
    /\ req' = [req EXCEPT ![r] = [pc |-> "texting", code |-> issued']]
    /\ UNCHANGED <<row, lapsed, arrived, confirmed, revoked, counts>>

\* Slip: as send-otp does, the code is dropped when the text fails.
TextFailsDropping(r) ==
    /\ req[r].pc = "texting"
    /\ account' = [account EXCEPT !.otpCode = 0]
    /\ End(r)
    /\ UNCHANGED <<row, lapsed, arrived, issued, latest, confirmed, revoked, counts>>

\* A text that fails is reported, and the code stays valid.
TextFails(r) ==
    /\ req[r].pc = "texting"
    /\ End(r)
    /\ UNCHANGED <<row, account, lapsed, arrived, issued, latest, confirmed, revoked, counts>>

-----------------------------------------------------------------------------
(* POST reset-password *)

\* The code of the user row it read is there, is the one entered and valid;
\* the other outcomes end the request and count nothing.
ResetChecked(r) ==
    /\ req[r].pc = "idle" /\ account.exists
    /\ account.otpCode \in arrived \ lapsed
    /\ req' = [req EXCEPT ![r] = [pc |-> "resetting", code |-> account.otpCode]]
    /\ UNCHANGED <<row, account, lapsed, arrived, issued, latest, confirmed, revoked, counts>>

\* Slip: the password is written and the code is left.
ResetPasswordKeepsCode(r) ==
    /\ req[r].pc = "resetting"
    /\ used' = Bump(used, req[r].code)
    /\ End(r)
    /\ UNCHANGED <<row, account, lapsed, arrived, issued, latest, confirmed, revoked,
                   tried, strayed, uncounted, trials, deaths>>

\* The update by user id: it clears the code the row holds by now.
ResetPassword(r) ==
    /\ req[r].pc = "resetting"
    /\ used' = Bump(used, req[r].code)
    /\ revoked' = revoked \cup ({account.otpCode} \ {0, req[r].code})
    /\ account' = [account EXCEPT !.otpCode = 0]
    /\ End(r)
    /\ UNCHANGED <<row, lapsed, arrived, issued, latest, confirmed,
                   tried, strayed, uncounted, trials, deaths>>

-----------------------------------------------------------------------------
(* The clock and the workers *)

\* The ten, or fifteen, minutes of a code are over.
Lapse(c) ==
    /\ c \in {row.code, account.otpCode} \ ({0} \cup lapsed)
    /\ lapsed' = lapsed \cup {c}
    /\ UNCHANGED <<row, account, arrived, req, issued, latest, confirmed, revoked, counts>>

\* The worker of a request dies between two of its steps.
Die(r) ==
    /\ req[r].pc # "idle" /\ deaths < MaxDeaths
    /\ deaths' = deaths + 1
    /\ uncounted' = IF req[r].pc = "missed" THEN Bump(uncounted, req[r].code) ELSE uncounted
    /\ End(r)
    /\ UNCHANGED <<row, account, lapsed, arrived, issued, latest, confirmed, revoked,
                   tried, strayed, used, trials>>

SendOtpSteps(r)  == SendOtp(r) \/ SetCode(r) \/ SendFails(r) \/ DropUnsent(r)
RegisterSteps(r) ==
    \/ Register(r) \/ DropKnown(r) \/ VerifyNone(r) \/ VerifyClosed(r) \/ DropClosed(r)
    \/ VerifyWrong(r) \/ CountAttempt(r) \/ VerifyRight(r) \/ CreateAccount(r) \/ CreateFails(r)
ResetSteps(r)    == Forgot(r) \/ SetResetCode(r) \/ TextFails(r)
                    \/ ResetChecked(r) \/ ResetPassword(r)

Next ==
    \/ \E r \in Requests : \/ SendOtpSteps(r) \/ RegisterSteps(r) \/ ResetSteps(r)
                           \/ Arrives(r) \/ SendOk(r) \/ Die(r)
    \/ \E c \in Codes : Lapse(c)

Spec == Init /\ [][Next]_vars

-----------------------------------------------------------------------------
(* Properties *)

\* The cap on guesses (otp-store.ts:31-45): the attempts are read, compared
\* and counted in separate steps, so overlapping registrations may exceed
\* MAX_ATTEMPTS, but by no more than the others in progress and the ones that
\* died before they counted.
GuessesBounded ==
    \A c \in Codes :
        tried[c] <= MaxAttempts + (Cardinality(Requests) - 1) + uncounted[c]

\* The latest registration code whose requester was told that it was sent
\* stays usable (otp-store.ts:16-52, send-otp/route.ts:78-84) until its time
\* or its attempts are over, an account was made, or a request that meant an
\* older code removed it.
ConfirmedCodeStays ==
    LET c == latest["register"] IN
    c \in confirmed =>
        \/ row.code = c
        \/ c \in lapsed \cup revoked
        \/ tried[c] + strayed[c] >= MaxAttempts
        \/ account.exists

\* A reset code stays in force until it is used or a reset with an older code
\* clears it (forgot-password/route.ts:45-51, reset-password/route.ts:57-64):
\* in particular a text that fails takes it from nobody.
ResetCodeStays ==
    LET c == latest["reset"] IN
    c # 0 => account.otpCode = c \/ used[c] > 0 \/ c \in revoked

\* No code in force was used before: a code is acted on again only by the
\* requests that had checked it before the first of them wrote.
SpentIsSpent ==
    \A c \in Codes : used[c] > 0 => account.otpCode # c /\ row.code # c

\* Registrations that overlap with the same valid code make one account and
\* one free trial (register/route.ts:48-75).
OneTrial == trials <= 1

-----------------------------------------------------------------------------
(* The refinement *)

\* What a request, whose local state is x, found right and has not acted on.
FoundBy(x) ==
    CASE x.pc = "valid"     -> [purpose |-> "register", code |-> x.code]
      [] x.pc = "resetting" -> [purpose |-> "reset", code |-> x.code]
      [] OTHER              -> [purpose |-> "none", code |-> 0]

\* The codes as their owner knows them (module CodeBook): those the two rows
\* hold are in force.
Book == INSTANCE CodeBook WITH
    inForce <- [p \in {"register", "reset"} |->
                    IF p = "register" THEN row.code ELSE account.otpCode],
    reached <- arrived,
    found   <- [r \in Requests |-> FoundBy(req[r])],
    made    <- account.exists

\* The requests of a number (otp-store.ts:16-52, register/route.ts:26-75,
\* forgot-password/route.ts:45-51, reset-password/route.ts:40-64) keep the
\* promise of CodeBook, however they overlap: in particular a code that was
\* used, replaced or withdrawn is never in force again, and it is acted on
\* only by a request that found it right while it was.
KeepsTheBook == Book!Spec
=============================================================================
