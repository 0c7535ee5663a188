-------------------------------- MODULE Sessions --------------------------------
(***************************************************************************)
(* The refresh tokens of one device: login with the device key, rotation    *)
(* with reuse detection, logout, and the two calls that sign a device out   *)
(* (AuthService, TokenService, DeviceKeyService over AuthRepository).       *)
(*                                                                         *)
(* A token, its family and a challenge are named after the task that made   *)
(* them; First is the token of an earlier sign-in.  Signing, hashing, DPoP  *)
(* and expiry only refuse calls, and a refused call changes nothing.        *)
(***************************************************************************)
EXTENDS Tasks

CONSTANTS First, NoNonce

ASSUME SessionsAssumption == First \notin Tasks /\ NoNonce \notin Tasks

VARIABLES
    token,      \* refresh_tokens: [TokenIds -> TokenRows]
    held,       \* the tokens some client was given
    nonce,      \* devchal:{device}
    revokedAt,  \* devices.revoked_at is set
    closed,     \* the families revoked by a logout or by reuse detection
    signedOut,  \* the device's tokens were revoked after the device was
    escaped,    \* families with a token about to be inserted when they were revoked
    racing      \* tasks that had read a token or a challenge that another then used up

sessVars == <<token, held, nonce, revokedAt, closed, signedOut, escaped, racing>>

TokenIds  == Tasks \cup {First}
\* from: the token that was rotated, or the challenge that was signed.
TokenRows == [family : TokenIds, from : TokenIds, state : {"none", "live", "revoked"}]
Absent(i) == [family |-> i, from |-> i, state |-> "none"]
Live(i)   == token[i].state = "live"

SessTypeOK ==
    /\ token \in [TokenIds -> TokenRows]
    /\ held \in SUBSET {i \in TokenIds : token[i].state # "none"}
    /\ nonce \in Tasks \cup {NoNonce}
    /\ revokedAt \in BOOLEAN /\ signedOut \in BOOLEAN
    /\ closed \in SUBSET TokenIds /\ escaped \in SUBSET TokenIds
    /\ racing \in SUBSET Tasks

SessInit ==
    /\ token = [[i \in TokenIds |-> Absent(i)] EXCEPT ![First].state = "live"]
    /\ held = {First}
    /\ nonce = NoNonce
    /\ revokedAt = FALSE
    /\ closed = {} /\ signedOut = FALSE /\ escaped = {} /\ racing = {}

----------------------------------------------------------------------------
(* The commands on refresh_tokens                                          *)

FamilyOf(t) == IF task[t].op = "rotate" THEN token[task[t].presented].family ELSE t

\* Families for which a token will still be inserted by a task that is past its checks.
Pending == {FamilyOf(t) : t \in {u \in Tasks : task[u].at \in {"revoke", "nonce", "consume", "insert"}}}

RevokeWhere(rows) ==
    token' = [i \in TokenIds |->
                IF i \in rows /\ Live(i) THEN [token[i] EXCEPT !.state = "revoked"] ELSE token[i]]

RevokeFamily(f) ==
    /\ RevokeWhere({i \in TokenIds : token[i].family = f})
    /\ closed' = closed \cup {f}
    /\ escaped' = escaped \cup (Pending \cap {f})

\* Mutant: the presented token is not revoked.
KeepPresented(t) == UNCHANGED token

RevokePresented(t) == RevokeWhere({task[t].presented})

\* issueRefresh
Insert(t) ==
    /\ At(t, "insert")
    /\ token' = [token EXCEPT ![t] =
                    [family |-> FamilyOf(t), state |-> "live",
                     from |-> IF task[t].op = "rotate" THEN task[t].presented ELSE task[t].signed]]
    /\ Goes(t, "answer")
    /\ UNCHANGED <<failures, held, nonce, revokedAt, closed, signedOut, escaped, racing>>

\* accountForDevice finds the row of a revoked device too.
Answer(t) ==
    /\ At(t, "answer")
    /\ held' = held \cup {t}
    /\ Goes(t, "over")
    /\ UNCHANGED <<failures, token, nonce, revokedAt, closed, signedOut, escaped, racing>>

----------------------------------------------------------------------------
(* refresh and logout                                                      *)

Found(i) == IF token[i].state = "revoked" THEN "family" ELSE "revoke"

FindPresented(t) ==
    /\ \E i \in held : Begins(t, [op |-> "rotate", presented |-> i, at |-> Found(i)])
    /\ UNCHANGED <<failures, sessVars>>

FindForLogout(t) ==
    /\ \E i \in held : Begins(t, [op |-> "logout", presented |-> i, at |-> "family"])
    /\ UNCHANGED <<failures, sessVars>>

\* Reuse was detected, or the user signs out.
CloseFamily(t) ==
    /\ At(t, "family")
    /\ RevokeFamily(token[task[t].presented].family)
    /\ Goes(t, "over")
    /\ UNCHANGED <<failures, held, nonce, revokedAt, signedOut, racing>>

\* Mutant: the new token is handed out and never stored.
RotateOnly(t) ==
    /\ At(t, "revoke")
    /\ RevokePresented(t)
    /\ racing' = racing \cup {u \in Tasks \ {t} : At(u, "revoke") /\ task[u].presented = task[t].presented}
    /\ Goes(t, "answer")
    /\ UNCHANGED <<failures, held, nonce, revokedAt, closed, signedOut, escaped>>

RotateRevokes(t) ==
    /\ At(t, "revoke")
    /\ RevokePresented(t)
    /\ racing' = racing \cup {u \in Tasks \ {t} : At(u, "revoke") /\ task[u].presented = task[t].presented}
    /\ Goes(t, "insert")
    /\ UNCHANGED <<failures, held, nonce, revokedAt, closed, signedOut, escaped>>

----------------------------------------------------------------------------
(* Login with the device key                                               *)

\* The new challenge replaces one that was not used.
Challenge(t) ==
    /\ Begins(t, [op |-> "challenge", at |-> "over"])
    /\ nonce' = t
    /\ UNCHANGED <<failures, token, held, revokedAt, closed, signedOut, escaped, racing>>

\* getDevicePubkey; the client has signed a challenge it was given.
ReadPubkey(t) ==
    /\ ~revokedAt
    /\ \E n \in {u \in Tasks : Over(u, "challenge")} :
          Begins(t, [op |-> "login", signed |-> n, at |-> "nonce"])
    /\ UNCHANGED <<failures, sessVars>>

VerifyNonce(t) ==
    /\ At(t, "nonce")
    /\ Goes(t, IF nonce = task[t].signed THEN "consume" ELSE "failed")
    /\ UNCHANGED <<failures, sessVars>>

DropNonce == nonce' = NoNonce

ConsumeNonce(t) ==
    /\ At(t, "consume")
    /\ DropNonce
    /\ racing' = racing \cup {u \in Tasks \ {t} : At(u, "consume") /\ task[u].signed = task[t].signed}
    /\ Goes(t, "insert")
    /\ UNCHANGED <<failures, token, held, revokedAt, closed, signedOut, escaped>>

NonceExpires ==
    /\ nonce # NoNonce
    /\ nonce' = NoNonce
    /\ UNCHANGED <<taskVars, token, held, revokedAt, closed, signedOut, escaped, racing>>

----------------------------------------------------------------------------
(* Signing the device out: revokeDevice, and the completion of a recovery,  *)
(* which revokes the tokens and leaves the device                           *)

ReadDevice(t) ==
    /\ ~revokedAt
    /\ Begins(t, [op |-> "revokeDevice", at |-> "mark"])
    /\ UNCHANGED <<failures, sessVars>>

MarkRevoked(t) ==
    /\ At(t, "mark")
    /\ revokedAt' = TRUE
    /\ Goes(t, "tokens")
    /\ UNCHANGED <<failures, token, held, nonce, closed, signedOut, escaped, racing>>

RevokeDeviceTokens(t) ==
    /\ At(t, "tokens")
    /\ RevokeWhere(TokenIds)
    /\ signedOut' = TRUE
    /\ escaped' = escaped \cup Pending
    /\ Goes(t, "over")
    /\ UNCHANGED <<failures, held, nonce, revokedAt, closed, racing>>

RevokeAllAccountTokens(t) ==
    /\ Begins(t, [op |-> "recover", at |-> "over"])
    /\ RevokeWhere(TokenIds)
    /\ closed' = closed \cup {token[i].family : i \in {j \in TokenIds : token[j].state # "none"}}
    /\ escaped' = escaped \cup Pending
    /\ UNCHANGED <<failures, held, nonce, revokedAt, signedOut, racing>>

\* The routes of AuthController for sessions.
SessRequests(t) == Challenge(t) \/ ReadPubkey(t) \/ FindPresented(t) \/ FindForLogout(t) \/ ReadDevice(t)

SessNext ==
    \/ NonceExpires
    \/ \E t \in Tasks :
          \/ SessRequests(t)
          \/ CloseFamily(t) \/ RotateRevokes(t)
          \/ Insert(t) \/ Answer(t)
          \/ VerifyNonce(t) \/ ConsumeNonce(t)
          \/ MarkRevoked(t) \/ RevokeDeviceTokens(t) \/ RevokeAllAccountTokens(t)
          \/ Fails(t) /\ UNCHANGED sessVars

----------------------------------------------------------------------------
(* Properties                                                              *)

\* Once a family was revoked (logout, reuse, recovery) or the device was signed out, a token
\* of it is valid only if a rotation or a login that had passed its checks was still to insert
\* one at that moment.  About rotateRefresh, revokeRefresh and revokeDevice, none of which
\* holds the family while it works.
SignedOutStaysOut ==
    \A i \in TokenIds :
        Live(i) /\ (signedOut \/ token[i].family \in closed) => token[i].family \in escaped

\* A token is exchanged for two successors, and a challenge for two logins, only by calls that
\* had both read it before either used it up.  About the reuse detection of rotateRefresh and
\* the single use of a challenge, each a read and a later write.
ServesTwiceOnlyByRace ==
    \A i, j \in Tasks :
        i # j /\ token[i].state # "none" /\ token[j].state # "none" /\ token[i].from = token[j].from
        => {i, j} \cap racing # {}

\* What holds of the tokens and the logins together.
SessionsEnd ==
    /\ SignedOutStaysOut
    /\ ServesTwiceOnlyByRace
=============================================================================
