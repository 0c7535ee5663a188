----------------------------------- MODULE Otp -----------------------------------
(***************************************************************************)
(* The SMS code of one number: OtpService over RedisOtpStore and the rate   *)
(* limiter.  The provider makes and checks the codes; Redis keeps the one   *)
(* active session, the send mutex, the count of attempts and the lock.      *)
(*                                                                         *)
(* A code and a session are named after the send that made them.            *)
(***************************************************************************)
EXTENDS Tasks

CONSTANTS NoCode, MaxVerifyAttempts, MaxSends

ASSUME OtpAssumption == NoCode \notin Tasks /\ MaxVerifyAttempts \in Nat /\ MaxSends \in Nat \ {0}

VARIABLES
    devPhone,   \* the number is the configured dev number
    active,     \* otp:active: whose session, and whether a resend would be too soon
    attempts,   \* otp:attempts: the count, its TTL set, the session it was begun under
    sends,      \* otp:send, the rate limiter's count, and its TTL set
    locked, mutex,
    code,       \* at the provider: the code it would accept
    asked,      \* verifications the provider was asked while a code was the one in force
    hasty,      \* codes whose resend window is open
    lapsed,     \* the mutex ran out while a send held it
    outlived,   \* verifications that were counted in a count deleted since
    crossed     \* codes one of those asked for, or the count was deleted of while in force

otpVars == <<devPhone, active, attempts, sends, locked, mutex, code, asked, hasty, lapsed, outlived, crossed>>

Codes     == Tasks \cup {NoCode}
NoSession == [by |-> NoCode, recent |-> FALSE]
NoCount   == [n |-> 0, ttl |-> FALSE, under |-> NoCode]

OtpTypeOK ==
    /\ active \in [by : Codes, recent : BOOLEAN]
    /\ attempts \in [n : Nat, ttl : BOOLEAN, under : Codes]
    /\ sends \in [n : Nat, ttl : BOOLEAN]
    /\ {devPhone, locked, mutex, lapsed} \subseteq BOOLEAN
    /\ code \in Codes /\ asked \in [Codes -> Nat]
    /\ hasty \in SUBSET Tasks /\ outlived \in SUBSET Tasks /\ crossed \in SUBSET Codes

OtpInit ==
    /\ devPhone \in BOOLEAN
    /\ active = NoSession /\ attempts = NoCount /\ sends = [n |-> 0, ttl |-> FALSE]
    /\ locked = FALSE /\ mutex = FALSE
    /\ code = NoCode /\ asked = [c \in Codes |-> 0]
    /\ hasty = {} /\ lapsed = FALSE /\ outlived = {} /\ crossed = {}

Counted == {u \in Tasks : task[u].at \in {"expire", "judge", "ask"}}

DelActive == active' = NoSession /\ hasty' = {u \in hasty : At(u, "put")}

DelAttempts ==
    /\ attempts' = NoCount
    /\ outlived' = outlived \cup Counted
    /\ crossed' = IF asked[code] > 0 THEN crossed \cup {code} ELSE crossed

----------------------------------------------------------------------------
(* send                                                                    *)

\* Mutant: the mutex does not keep a second send out.
TakeAnyway == TRUE

Acquire == ~mutex

BeginSend(t) ==
    /\ Begins(t, [op |-> "send", at |-> IF devPhone THEN "put" ELSE IF Acquire THEN "resend" ELSE "over"])
    /\ mutex' = (mutex \/ ~devPhone)
    /\ UNCHANGED <<failures, devPhone, active, attempts, sends, locked, code, asked, hasty, lapsed, outlived, crossed>>

\* finally: whoever holds the mutex by now.
ReleaseMutex(t) ==
    /\ At(t, "release")
    /\ mutex' = FALSE
    /\ Goes(t, "over")
    /\ UNCHANGED <<failures, devPhone, active, attempts, sends, locked, code, asked, hasty, lapsed, outlived, crossed>>

ResendGuard(t) ==
    /\ At(t, "resend")
    /\ Goes(t, IF active # NoSession /\ active.recent THEN "release" ELSE "allow")
    /\ UNCHANGED <<failures, otpVars>>

\* RateLimiter.allow: INCR, and the TTL in a command of its own.
AllowSend(t) ==
    /\ At(t, "allow")
    /\ sends' = [sends EXCEPT !.n = @ + 1]
    /\ Goes(t, CASE sends.n = 0 -> "window" [] sends.n >= MaxSends -> "release" [] OTHER -> "autogen")
    /\ UNCHANGED <<failures, devPhone, active, attempts, locked, mutex, code, asked, hasty, lapsed, outlived, crossed>>

SetWindow(t) ==
    /\ At(t, "window")
    /\ sends' = [sends EXCEPT !.ttl = (sends.n > 0)]
    /\ Goes(t, "autogen")
    /\ UNCHANGED <<failures, devPhone, active, attempts, locked, mutex, code, asked, hasty, lapsed, outlived, crossed>>

Autogen(t) ==
    /\ At(t, "autogen")
    /\ \/ /\ code' = t
          /\ hasty' = hasty \cup {t}
          /\ Goes(t, "put")
       \/ Goes(t, "release") /\ UNCHANGED <<code, hasty>>      \* the provider refuses
    /\ UNCHANGED <<failures, devPhone, active, attempts, sends, locked, mutex, asked, lapsed, outlived, crossed>>

PutActive(t) ==
    /\ At(t, "put")
    /\ active' = [by |-> t, recent |-> TRUE]
    /\ Goes(t, "reset")
    /\ UNCHANGED <<failures, devPhone, attempts, sends, locked, mutex, code, asked, hasty, lapsed, outlived, crossed>>

ResetAttempts(t) ==
    /\ At(t, "reset")
    /\ DelAttempts
    /\ Goes(t, IF devPhone THEN "over" ELSE "release")
    /\ UNCHANGED <<failures, devPhone, active, sends, locked, mutex, code, asked, hasty, lapsed>>

----------------------------------------------------------------------------
(* verify                                                                  *)

ReadLock(t) ==
    /\ ~locked
    /\ Begins(t, [op |-> "verify", at |-> "active"])
    /\ UNCHANGED <<failures, otpVars>>

GetActive(t) ==
    /\ At(t, "active")
    /\ Goes(t, IF active = NoSession THEN "failed" ELSE "count")
    /\ UNCHANGED <<failures, otpVars>>

IncrAttempts(t) ==
    /\ At(t, "count")
    /\ attempts' = [attempts EXCEPT !.n = @ + 1, !.under = IF attempts.n = 0 THEN active.by ELSE @]
    /\ GoesWith(t, "n", attempts.n + 1, IF attempts.n = 0 THEN "expire" ELSE "judge")
    /\ UNCHANGED <<failures, devPhone, active, sends, locked, mutex, code, asked, hasty, lapsed, outlived, crossed>>

SetAttemptsTtl(t) ==
    /\ At(t, "expire")
    /\ attempts' = [attempts EXCEPT !.ttl = (attempts.n > 0)]
    /\ Goes(t, "judge")
    /\ UNCHANGED <<failures, devPhone, active, sends, locked, mutex, code, asked, hasty, lapsed, outlived, crossed>>

TooMany(n) == n > MaxVerifyAttempts

LockVerify(t) ==
    /\ At(t, "judge") /\ TooMany(task[t].n)
    /\ locked' = TRUE
    /\ Goes(t, "drop")
    /\ UNCHANGED <<failures, devPhone, active, attempts, sends, mutex, code, asked, hasty, lapsed, outlived, crossed>>

GoOn(t) ==
    /\ At(t, "judge") /\ ~TooMany(task[t].n)
    /\ Goes(t, "ask")
    /\ UNCHANGED <<failures, otpVars>>

\* VERIFY3, or the comparison with the dev code: the digits may be right only if a code is out.
AskProvider(t) ==
    /\ At(t, "ask")
    /\ asked' = [asked EXCEPT ![code] = @ + 1]
    /\ crossed' = IF t \in outlived THEN crossed \cup {code} ELSE crossed
    /\ \/ Goes(t, "failed")
       \/ (code # NoCode \/ devPhone) /\ Goes(t, "drop")
    /\ UNCHANGED <<failures, devPhone, active, attempts, sends, locked, mutex, code, hasty, lapsed, outlived>>

\* After a success as after a lock.
DropActive(t) ==
    /\ At(t, "drop")
    /\ DelActive
    /\ Goes(t, "clear")
    /\ UNCHANGED <<failures, devPhone, attempts, sends, locked, mutex, code, asked, lapsed, outlived, crossed>>

ClearAttempts(t) ==
    /\ At(t, "clear")
    /\ DelAttempts
    /\ Goes(t, "over")
    /\ UNCHANGED <<failures, devPhone, active, sends, locked, mutex, code, asked, hasty, lapsed>>

----------------------------------------------------------------------------
(* Time.  The count outlives the session it was begun under.               *)

Holding == {u \in Tasks : task[u].at \in {"resend", "allow", "window", "autogen", "put", "reset", "release"}}

Lapses ==
    \/ /\ mutex /\ mutex' = FALSE /\ lapsed' = (lapsed \/ Holding # {})
       /\ UNCHANGED <<active, attempts, sends, locked, hasty, outlived, crossed>>
    \/ /\ active.recent /\ active' = [active EXCEPT !.recent = FALSE] /\ hasty' = {u \in hasty : At(u, "put")}
       /\ UNCHANGED <<attempts, sends, locked, mutex, lapsed, outlived, crossed>>
    \/ /\ active # NoSession /\ ~active.recent /\ DelActive
       /\ UNCHANGED <<attempts, sends, locked, mutex, lapsed, outlived, crossed>>
    \/ /\ attempts.ttl /\ attempts.under # active.by /\ DelAttempts
       /\ UNCHANGED <<active, sends, locked, mutex, hasty, lapsed>>
    \/ /\ sends.ttl /\ sends' = [n |-> 0, ttl |-> FALSE]
       /\ UNCHANGED <<active, attempts, locked, mutex, hasty, lapsed, outlived, crossed>>
    \/ /\ locked /\ locked' = FALSE
       /\ UNCHANGED <<active, attempts, sends, mutex, hasty, lapsed, outlived, crossed>>

\* The routes of AuthController for codes by SMS.
OtpRequests(t) == BeginSend(t) \/ ReadLock(t)

OtpNext ==
    \/ Lapses /\ UNCHANGED <<taskVars, devPhone, code, asked>>
    \/ \E t \in Tasks :
          \/ OtpRequests(t)
          \/ ReleaseMutex(t) \/ ResendGuard(t) \/ AllowSend(t) \/ SetWindow(t)
          \/ Autogen(t) \/ PutActive(t) \/ ResetAttempts(t)
          \/ GetActive(t) \/ IncrAttempts(t) \/ SetAttemptsTtl(t) \/ LockVerify(t)
          \/ GoOn(t) \/ AskProvider(t) \/ DropActive(t) \/ ClearAttempts(t)
          \/ Fails(t) /\ UNCHANGED otpVars

----------------------------------------------------------------------------
(* Properties                                                              *)

\* A code is checked at the provider more often than MaxVerifyAttempts only if the count was
\* deleted while the code was in force and had been checked, or under a verification that had
\* been counted and then asked for it.  About verify, which counts before it asks, and the
\* places that delete the count.
AttemptsBounded ==
    \A c \in Tasks : asked[c] > MaxVerifyAttempts => c \in crossed

\* Two codes are out within one resend window only if the mutex ran out under a send, or a send
\* died.  About the mutex and the guard in send, which the provider's answer outlives.
NoHastyResend ==
    Cardinality(hasty) > 1 => lapsed \/ failures > 0

\* A counter stays without a TTL only if the task that was to set it died: only then is a number
\* shut out for good.  About INCR and EXPIRE, two commands, in incrAttempts and allow.
CountersLapse ==
    /\ sends.n > 0 /\ ~sends.ttl => failures > 0 \/ \E t \in Tasks : At(t, "window")
    /\ attempts.n > 0 /\ ~attempts.ttl => failures > 0 \/ \E t \in Tasks : At(t, "expire")

\* What a number is allowed, and that no limit outlasts its window.
OtpLimits ==
    /\ AttemptsBounded
    /\ NoHastyResend
    /\ CountersLapse
=============================================================================
