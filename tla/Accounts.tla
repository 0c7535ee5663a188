-------------------------------- MODULE Accounts --------------------------------
(***************************************************************************)
(* How an account, its verified phone or email and its devices come to be:  *)
(* AuthService over AuthRepository, with the one-time proofs that wait in   *)
(* Redis (a reverse-OTP session, a magic link, a device link, a number      *)
(* change).                                                                 *)
(*                                                                         *)
(* An account, a device and a proof are named after the task that made      *)
(* them; Elder is an account of before, with a trusted device of its own.   *)
(* The anti-spoof rules, signatures and rate limits only refuse calls, and  *)
(* the audit log, the platform and the tier are never read here.            *)
(*                                                                         *)
(* The passkey of one account: the challenges of registration and login in  *)
(* Redis and the row with its counter in Postgres (PasskeyService,          *)
(* AuthService, AuthRepository).                                            *)
(*                                                                         *)
(* A challenge is named after the task that made it.  The authenticator     *)
(* counts its signatures; what else the ceremony checks only refuses calls. *)
(***************************************************************************)
EXTENDS Tasks, Sequences

CONSTANTS Phones, Emails, Elder, Nobody

\* Nobody is no account and no identifier.
ASSUME AccountsAssumption == Nobody \notin Tasks \cup {Elder} \cup Phones \cup Emails

VARIABLES
    owner,      \* the verified identifiers: [Values -> account, or Nobody]
    device,     \* the device each task added, or NoDevice
    proof,      \* the proofs in Redis: what each is for, or NoProof
    companion,  \* proofs whose second key, revotp:input or numchange, is there
    result,     \* proofs whose result waits to be fetched
    signedIn,   \* devices a refresh token was issued for
    published,  \* <<topic, account>> on the bus
    moved,      \* phones a number change took or gave up
    overlapped  \* tasks that read a proof while another, which had read it, was at work

accVars == <<owner, device, proof, companion, result, signedIn, published, moved, overlapped>>

Values    == Phones \cup Emails
AccountIds == Tasks \cup {Elder}
NoDevice  == [account |-> Nobody, trusted |-> FALSE, by |-> Elder]
NoProof   == [kind |-> "none", value |-> Nobody]
ProofKinds == {"register", "change", "magic", "link"}

AccTypeOK ==
    /\ owner \in [Values -> AccountIds \cup {Nobody}]
    /\ device \in [Tasks -> [account : AccountIds \cup {Nobody}, trusted : BOOLEAN, by : AccountIds]]
    /\ proof \in [Tasks -> [kind : ProofKinds, value : Values \cup {Nobody}] \cup {NoProof}]
    /\ companion \in SUBSET Tasks /\ result \in SUBSET Tasks
    /\ signedIn \in SUBSET Tasks /\ overlapped \in SUBSET Tasks
    /\ moved \in SUBSET Phones

\* A verified number belongs to one account, and Elder may have none.
AccInit ==
    /\ owner \in {[v \in Values |-> IF v = p THEN Elder ELSE Nobody] : p \in Phones \cup {Nobody}}
    /\ device = [t \in Tasks |-> NoDevice]
    /\ proof = [t \in Tasks |-> NoProof]
    /\ companion = {} /\ result = {} /\ signedIn = {} /\ published = {}
    /\ moved = {} /\ overlapped = {}

----------------------------------------------------------------------------
(* Proofs are handed out                                                   *)

\* start() of the reverse OTP, for a registration or for a number change that a trusted
\* device asked for; the second key follows.
StartReverseOtp(t) ==
    /\ \E k \in {"register", "change"}, v \in Phones :
          /\ proof' = [proof EXCEPT ![t] = [kind |-> k, value |-> v]]
          /\ Begins(t, [op |-> "begin", at |-> "companion"])
    /\ UNCHANGED <<failures, owner, device, companion, result, signedIn, published, moved, overlapped>>

PutCompanion(t) ==
    /\ At(t, "companion")
    /\ companion' = companion \cup {t}
    /\ Goes(t, "over")
    /\ UNCHANGED <<failures, owner, device, proof, result, signedIn, published, moved, overlapped>>

BeginMagicLink(t) ==
    /\ \E v \in Emails : proof' = [proof EXCEPT ![t] = [kind |-> "magic", value |-> v]]
    /\ Begins(t, [op |-> "begin", at |-> "over"])
    /\ UNCHANGED <<failures, owner, device, companion, result, signedIn, published, moved, overlapped>>

RequestLink(t) ==
    /\ proof' = [proof EXCEPT ![t] = [kind |-> "link", value |-> Nobody]]
    /\ Begins(t, [op |-> "begin", at |-> "over"])
    /\ UNCHANGED <<failures, owner, device, companion, result, signedIn, published, moved, overlapped>>

ProofExpires ==
    /\ \E s \in Tasks :
          \/ proof[s] # NoProof /\ proof' = [proof EXCEPT ![s] = NoProof] /\ UNCHANGED <<companion, result>>
          \/ s \in companion /\ companion' = companion \ {s} /\ UNCHANGED <<proof, result>>
          \/ s \in result /\ result' = result \ {s} /\ UNCHANGED <<proof, companion>>
    /\ UNCHANGED <<taskVars, owner, device, signedIn, published, moved, overlapped>>

----------------------------------------------------------------------------
(* Proofs are presented                                                    *)

Presented(t) == proof[task[t].with]

\* Each of verify(), consume() and getRequest() reads the proof; a link goes on with the
\* trusted device that approves it.
ReadProof(t) ==
    /\ \E s \in Tasks :
          /\ proof[s] # NoProof
          /\ IF proof[s].kind = "link"
               THEN \E a \in {Elder} \cup {device[d].account : d \in {e \in Tasks : device[e].trusted}} :
                       Begins(t, [op |-> "link", with |-> s, account |-> a, fresh |-> FALSE, at |-> "device"])
               ELSE Begins(t, [op |-> proof[s].kind, with |-> s, value |-> proof[s].value, at |-> "consume"])
          /\ overlapped' = IF \E u \in Tasks, op \in ProofKinds : Under(u, op) /\ task[u].with = s
                             THEN overlapped \cup {t} ELSE overlapped
    /\ UNCHANGED <<failures, owner, device, proof, companion, result, signedIn, published, moved>>

\* Mutant: the proof stays.
KeepProof(t) == UNCHANGED proof

DropProof(t) == proof' = [proof EXCEPT ![task[t].with] = NoProof]

ConsumeProof(t) ==
    /\ At(t, "consume")
    /\ DropProof(t)
    /\ Goes(t, CASE task[t].op = "magic" -> "create" [] OTHER -> "companion?")
    /\ UNCHANGED <<failures, owner, device, companion, result, signedIn, published, moved, overlapped>>

\* handleReverseOtpWebhook looks for numchange and then for revotp:input.
ReadCompanion(t) ==
    /\ At(t, "companion?")
    /\ Goes(t, IF task[t].with \notin companion THEN "failed"
               ELSE IF task[t].op = "change" THEN "free?" ELSE "create")
    /\ UNCHANGED <<failures, accVars>>

----------------------------------------------------------------------------
(* Number change: the session belongs to an account with a trusted device  *)

CheckNumber(t) ==
    /\ At(t, "free?")
    /\ Goes(t, IF owner[task[t].value] \in {Nobody, Elder} THEN "repoint" ELSE "failed")
    /\ UNCHANGED <<failures, accVars>>

\* One transaction; the unique index refuses a number that was taken meanwhile.
Repoint(t) ==
    /\ At(t, "repoint")
    /\ LET v == task[t].value IN
       IF owner[v] \in {Nobody, Elder}
         THEN /\ owner' = [p \in Values |-> IF p = v THEN Elder
                                              ELSE IF p \in Phones /\ owner[p] = Elder THEN Nobody ELSE owner[p]]
              /\ moved' = moved \cup {v} \cup {p \in Phones : owner[p] = Elder}
              /\ Goes(t, "changed")
         ELSE Goes(t, "failed") /\ UNCHANGED <<owner, moved>>
    /\ UNCHANGED <<failures, device, proof, companion, result, signedIn, published, overlapped>>

FinishChange(t) ==
    /\ At(t, "changed")
    /\ companion' = companion \ {task[t].with}
    /\ published' = published \cup {<<"identifier.changed", Elder>>}
    /\ Goes(t, "over")
    /\ UNCHANGED <<failures, owner, device, proof, result, signedIn, moved, overlapped>>

----------------------------------------------------------------------------
(* Provisioning                                                            *)

\* verifyOtp, once the code was accepted (module Otp).
FindPhone(t) ==
    /\ \E v \in Phones :
          Begins(t, [op |-> "otp", value |-> v, account |-> owner[v], fresh |-> FALSE,
                     at |-> IF owner[v] = Nobody THEN "create" ELSE "device"])
    /\ UNCHANGED <<failures, accVars>>

\* Only the row's existence matters, and nobody knows its id yet.
CreateAccount(t) ==
    /\ At(t, "create")
    /\ task' = [task EXCEPT ![t] = [op |-> @.op, value |-> @.value, account |-> t, fresh |-> TRUE,
                                    with |-> IF @.op = "otp" THEN t ELSE @.with, at |-> "claim"]]
    /\ UNCHANGED <<failures, accVars>>

\* ON CONFLICT DO NOTHING
Claim(t, v, a) == owner' = [owner EXCEPT ![v] = IF @ = Nobody THEN a ELSE @]

UpsertVerifiedIdentifier(t) ==
    /\ At(t, "claim")
    /\ Claim(t, task[t].value, task[t].account)
    /\ Goes(t, IF task[t].op \in {"otp", "email"} THEN "reread" ELSE "device")
    /\ UNCHANGED <<failures, device, proof, companion, result, signedIn, published, moved, overlapped>>

Winner(t) == IF owner[task[t].value] = Nobody THEN task[t].account ELSE owner[task[t].value]

Reread(t) ==
    /\ At(t, "reread") /\ task[t].op = "otp"
    /\ task' = [task EXCEPT ![t].account = Winner(t), ![t].fresh = Winner(t) = t, ![t].at = "device"]
    /\ UNCHANGED <<failures, accVars>>

Plan(op) ==
    CASE op = "otp"      -> <<"device", "created", "added", "mint", "over">>
      [] op = "magic"    -> <<"device", "created", "added", "mint", "over">>
      [] op = "register" -> <<"device", "mint", "result", "created", "added", "over">>
      [] op = "link"     -> <<"device", "mint", "result", "unlink", "added", "over">>

GoesOn(t) ==
    LET plan == Plan(task[t].op) IN
    \E i \in 1..Len(plan) - 1 : At(t, plan[i]) /\ Goes(t, plan[i + 1])

AddDevice(t) ==
    /\ At(t, "device")
    /\ device' = [device EXCEPT ![t] =
                     [account |-> task[t].account, trusted |-> task[t].fresh,
                      by |-> IF task[t].op = "otp" THEN t ELSE task[t].with]]
    /\ GoesOn(t)
    /\ UNCHANGED <<failures, owner, proof, companion, result, signedIn, published, moved, overlapped>>

Announce(t) ==
    /\ task[t].at \in {"created", "added"}
    /\ published' = IF At(t, "added") THEN published \cup {<<"device.added", task[t].account>>}
                    ELSE IF task[t].fresh THEN published \cup {<<"user.created", task[t].account>>}
                    ELSE published
    /\ GoesOn(t)
    /\ UNCHANGED <<failures, owner, device, proof, companion, result, signedIn, moved, overlapped>>

MintTokens(t) ==
    /\ At(t, "mint")
    /\ signedIn' = signedIn \cup {t}
    /\ GoesOn(t)
    /\ UNCHANGED <<failures, owner, device, proof, companion, result, published, moved, overlapped>>

PutResult(t) ==
    /\ At(t, "result")
    /\ result' = result \cup {task[t].with}
    /\ GoesOn(t)
    /\ UNCHANGED <<failures, owner, device, proof, companion, signedIn, published, moved, overlapped>>

\* markApproved deletes the request after it stored the result.
Unlink(t) ==
    /\ At(t, "unlink")
    /\ DropProof(t)
    /\ GoesOn(t)
    /\ UNCHANGED <<failures, owner, device, companion, result, signedIn, published, moved, overlapped>>

----------------------------------------------------------------------------
(* setEmail, and the fetch of a result                                     *)

FindEmail(t) ==
    /\ \E v \in Emails, a \in {Elder} \cup signedIn :
          LET me == IF a = Elder THEN Elder ELSE device[a].account IN
          /\ owner[v] \in {Nobody, me}
          /\ Begins(t, [op |-> "email", value |-> v, account |-> me,
                        at |-> IF owner[v] = me THEN "over" ELSE "claim"])
    /\ UNCHANGED <<failures, accVars>>

RereadEmail(t) ==
    /\ At(t, "reread") /\ task[t].op = "email"
    /\ Goes(t, IF Winner(t) = task[t].account THEN "notify" ELSE "failed")
    /\ UNCHANGED <<failures, accVars>>

NotifyEmail(t) ==
    /\ At(t, "notify")
    /\ published' = published \cup {<<"identifier.changed", task[t].account>>}
    /\ Goes(t, "over")
    /\ UNCHANGED <<failures, owner, device, proof, companion, result, signedIn, moved, overlapped>>

\* getSession deletes what it read; linkPoll leaves it to expire.
GetSession(t) ==
    /\ \E s \in result : proof[s].kind # "link" /\ Begins(t, [op |-> "fetch", with |-> s, at |-> "fetched"])
    /\ UNCHANGED <<failures, accVars>>

DropResult(t) ==
    /\ At(t, "fetched")
    /\ result' = result \ {task[t].with}
    /\ Goes(t, "over")
    /\ UNCHANGED <<failures, owner, device, proof, companion, signedIn, published, moved, overlapped>>

\* The routes of AuthController for numbers and addresses: register, the webhook, session, otp/verify and email.
AccRequests(t) == StartReverseOtp(t) \/ ReadProof(t) \/ GetSession(t) \/ FindPhone(t) \/ FindEmail(t)

\* The routes for magic links and for approval on a trusted device; what comes back is read as above.
LinkRequests(t) == BeginMagicLink(t) \/ RequestLink(t)

AccNext ==
    \/ ProofExpires
    \/ \E t \in Tasks :
          \/ AccRequests(t) \/ LinkRequests(t)
          \/ PutCompanion(t) \/ ConsumeProof(t) \/ ReadCompanion(t)
          \/ CheckNumber(t) \/ Repoint(t) \/ FinishChange(t)
          \/ CreateAccount(t) \/ UpsertVerifiedIdentifier(t) \/ Reread(t)
          \/ AddDevice(t) \/ Announce(t) \/ MintTokens(t) \/ PutResult(t) \/ Unlink(t)
          \/ RereadEmail(t) \/ NotifyEmail(t) \/ DropResult(t)
          \/ Fails(t) /\ UNCHANGED accVars

----------------------------------------------------------------------------
(* The passkey of one account                                              *)

CONSTANT NoChallenge

ASSUME PasskeysAssumption == NoChallenge \notin Tasks

VARIABLES
    challenge,  \* pk:reg:{account} and pk:auth:{account}
    stored,     \* passkeys.sign_count, 0 without a row
    key,        \* the authenticator's own count
    fellBack,   \* the stored count was overwritten by a lower one
    stale,      \* logins that had read the row before another wrote its count
    overlap     \* tasks that had read a challenge when another deleted it

pkVars == <<challenge, stored, key, fellBack, stale, overlap>>

Kinds == {"reg", "auth"}

PkTypeOK ==
    /\ challenge \in [Kinds -> Tasks \cup {NoChallenge}]
    /\ stored \in Nat
    /\ key \in Nat
    /\ {fellBack, stale, overlap} \subseteq SUBSET Tasks

PkInit ==
    /\ challenge = [k \in Kinds |-> NoChallenge]
    /\ stored \in {0, 1} /\ key = stored
    /\ fellBack = {} /\ stale = {} /\ overlap = {}

\* registrationOptions and authenticationOptions: one challenge of a kind is outstanding.
Options(t) ==
    /\ \E k \in Kinds :
          /\ challenge' = [challenge EXCEPT ![k] = t]
          /\ Begins(t, [op |-> "options", kind |-> k, at |-> "over"])
    /\ UNCHANGED <<failures, stored, key, fellBack, stale, overlap>>

\* The authenticator signs a challenge it was sent.
Sign(t) ==
    /\ \E c \in {u \in Tasks : Over(u, "options")} :
          Begins(t, [op |-> task[c].kind, signed |-> c, count |-> key + 1,
                     at |-> IF task[c].kind = "auth" THEN "row" ELSE "read"])
    /\ key' = key + 1
    /\ UNCHANGED <<failures, challenge, stored, fellBack, stale, overlap>>

GetPasskey(t) ==
    /\ At(t, "row")
    /\ IF stored = 0 THEN Goes(t, "failed") ELSE GoesWith(t, "row", stored, "read")
    /\ UNCHANGED <<failures, pkVars>>

\* takeChallenge, in two commands.
ReadChallenge(t) ==
    /\ At(t, "read")
    /\ IF challenge[task[t].op] = NoChallenge THEN Goes(t, "failed")
       ELSE GoesWith(t, "taken", challenge[task[t].op], "delete")
    /\ UNCHANGED <<failures, pkVars>>

Without(k) == [challenge EXCEPT ![k] = NoChallenge]

DeleteChallenge(t) ==
    /\ At(t, "delete")
    /\ challenge' = Without(task[t].op)
    /\ overlap' = overlap \cup {u \in Tasks \ {t} : At(u, "delete") /\ task[u].taken = task[t].taken}
    /\ Goes(t, "verify")
    /\ UNCHANGED <<failures, stored, key, fellBack, stale>>

\* The library wants a count above the one it was given.
Verify(t) ==
    /\ At(t, "verify")
    /\ Goes(t, IF task[t].taken = task[t].signed /\ (task[t].op = "auth" => task[t].count > task[t].row) THEN "write" ELSE "failed")
    /\ UNCHANGED <<failures, pkVars>>

\* cred_id is the key of the table: a second row of it is refused.
InsertPasskey(t) ==
    /\ At(t, "write") /\ task[t].op = "reg"
    /\ IF stored = 0 THEN stored' = task[t].count /\ Goes(t, "over")
       ELSE Goes(t, "failed") /\ UNCHANGED stored
    /\ UNCHANGED <<failures, challenge, key, fellBack, stale, overlap>>

UpdateCounter(t) ==
    /\ At(t, "write") /\ task[t].op = "auth"
    /\ stored' = task[t].count
    /\ fellBack' = IF stored > task[t].count THEN fellBack \cup {t} ELSE fellBack
    /\ stale' = stale \cup {u \in Tasks \ {t} : Under(u, "auth") /\ ~At(u, "row")}
    /\ Goes(t, "over")
    /\ UNCHANGED <<failures, challenge, key, overlap>>

ChallengeExpires ==
    /\ \E k \in Kinds : challenge[k] # NoChallenge /\ challenge' = [challenge EXCEPT ![k] = NoChallenge]
    /\ UNCHANGED <<taskVars, stored, key, fellBack, stale, overlap>>

\* The routes of AuthController for passkeys.
PkRequests(t) == Options(t) \/ Sign(t)

PkNext ==
    \/ ChallengeExpires
    \/ \E t \in Tasks :
          \/ PkRequests(t)
          \/ GetPasskey(t) \/ ReadChallenge(t) \/ DeleteChallenge(t) \/ Verify(t)
          \/ InsertPasskey(t) \/ UpdateCounter(t)
          \/ Fails(t) /\ UNCHANGED pkVars

----------------------------------------------------------------------------
(* Properties                                                              *)

\* Every answered OTP login of a number, and every answered setEmail, is for the account the
\* identifier leads to, however many first logins of it ran at once; unless the number was moved
\* by a number change.  About the insert that gives way and the read after it in verifyOtp and
\* setEmail.
LoginsReachTheOwner ==
    \A t \in Tasks :
        (Over(t, "otp") \/ Over(t, "email")) /\ task[t].value \notin moved
            => owner[task[t].value] = task[t].account

\* A proof provisions two devices only if the second call read it while the first was still
\* at work, or one of them failed before the deletion.  About verify(), consume() and markApproved, each a
\* read and a later delete.
ProvesTwiceOnlyByRace ==
    \A t, u \in Tasks :
        t # u /\ device[t] # NoDevice /\ device[u] # NoDevice /\ device[t].by = device[u].by
            => {t, u} \cap overlapped # {} \/ task[t] = Failed \/ task[u] = Failed

\* A registration by reverse OTP, too, ends in the account its number leads to: verifyOtp says
\* it mirrors that path, "dedup by phone, create/reuse the account + verified identifier"
\* (auth.service.ts:268-269).
RegistrationsReachTheOwner ==
    \A t \in Tasks :
        Over(t, "register") /\ task[t].value \notin moved => owner[task[t].value] = task[t].account

\* Who is let in, and how often by one proof.
ProofsReachTheOwner ==
    /\ LoginsReachTheOwner
    /\ ProvesTwiceOnlyByRace

\* A challenge lets one login in, unless two had read it before either deleted it; and the stored
\* count falls back only when a login that had read it writes after another.  About
\* passkeyAuthVerify, which reads the row, takes the challenge in two commands and writes the
\* new count without comparing.
PasskeyRacesOnly ==
    /\ \A t, u \in Tasks :
          t # u /\ Over(t, "auth") /\ Over(u, "auth") /\ task[t].signed = task[u].signed
              => {t, u} \cap overlap # {}
    /\ fellBack \subseteq stale

\* What one proof, a link, a code or a passkey, lets in (magic-link.service.ts:35,
\* passkey.service.ts:58).
ProofsHold == ProofsReachTheOwner /\ PasskeyRacesOnly
=============================================================================
