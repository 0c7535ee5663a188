-------------------------------- MODULE Recovery --------------------------------
(***************************************************************************)
(* Account recovery: the request that gathers factors in Redis, the backup  *)
(* codes in Postgres and the completion that signs every device out         *)
(* (AuthService, RecoveryService, AuthRepository).                          *)
(*                                                                         *)
(* One account.  A request and a set of backup codes are named after the    *)
(* task that made them; a set is one code.  Earlier stands for what was     *)
(* there before: a request with some factors, and a set of codes.           *)
(***************************************************************************)
EXTENDS Tasks

CONSTANTS Factors, NoRequest, Earlier

RequestRows == [factors : SUBSET Factors, cooled : BOOLEAN, lasting : BOOLEAN]

ASSUME RecoveryAssumption ==
    /\ Earlier \notin Tasks /\ "backup-code" \in Factors
    /\ NoRequest \notin RequestRows

VARIABLES
    request,    \* recovery:{id}: factors, cooled, lasting (no TTL); or NoRequest
    given,      \* factors acknowledged for a request
    lost,       \* requests two factors were added to at once
    late,       \* requests consumed while a factor was being added
    completed,  \* completions of a request that were answered
    codes,      \* the unused backup codes
    crossing    \* sets of codes issued at once with another

recVars == <<request, given, lost, late, completed, codes, crossing>>

NewRequest == [factors |-> {}, cooled |-> FALSE, lasting |-> FALSE]

Ids        == Tasks \cup {Earlier}

RecTypeOK ==
    /\ request \in [Ids -> RequestRows \cup {NoRequest}]
    /\ given \in [Ids -> SUBSET Factors]
    /\ {lost, late, codes, crossing} \subseteq SUBSET Ids
    /\ completed \in [Ids -> Nat]

RecInit ==
    /\ \E F \in SUBSET Factors :
          /\ request = [i \in Ids |-> IF i = Earlier THEN [NewRequest EXCEPT !.factors = F] ELSE NoRequest]
          /\ given = [i \in Ids |-> IF i = Earlier THEN F ELSE {}]
    /\ lost = {} /\ late = {} /\ completed = [i \in Ids |-> 0]
    /\ codes = {Earlier} /\ crossing = {}

codeVars    == <<codes, crossing>>

----------------------------------------------------------------------------
(* The request                                                             *)

RecoveryBegin(t) ==
    /\ request' = [request EXCEPT ![t] = NewRequest]
    /\ Begins(t, [op |-> "begin", at |-> "over"])
    /\ UNCHANGED <<failures, given, lost, late, completed, codeVars>>

Begun == {Earlier} \cup {r \in Tasks : Over(r, "begin")}

\* A factor was proved: by a backup code, which is used up first, or elsewhere.
UseBackupCode(t) ==
    /\ \E c \in codes, r \in Begun :
          /\ codes' = codes \ {c}
          /\ Begins(t, [op |-> "factor", id |-> r, factor |-> "backup-code", at |-> "get"])
    /\ UNCHANGED <<failures, request, given, lost, late, completed, crossing>>

ProveFactor(t) ==
    /\ \E f \in Factors \ {"backup-code"}, r \in Begun :
          Begins(t, [op |-> "factor", id |-> r, factor |-> f, at |-> "get"])
    /\ UNCHANGED <<failures, recVars>>

GetRequest(t) ==
    /\ At(t, "get")
    /\ IF request[task[t].id] = NoRequest THEN Goes(t, "failed")
       ELSE GoesWith(t, "seen", request[task[t].id], "set")
    /\ UNCHANGED <<failures, recVars>>

Adding(r)     == {u \in Tasks : At(u, "set") /\ task[u].id = r}
Completing(r) == {u \in Tasks : Under(u, "complete") /\ task[u].id = r}

\* Mutant: the factor replaces the ones before it.
OnlyThisFactor(t) == {task[t].factor}

WithFactor(t) == task[t].seen.factors \cup {task[t].factor}

\* SET ... KEEPTTL: over a key that is gone it makes one without a TTL.
SetRequest(t) ==
    /\ At(t, "set")
    /\ LET r == task[t].id IN
       /\ request' = [request EXCEPT ![r] =
                         [factors |-> WithFactor(t), cooled |-> task[t].seen.cooled,
                          lasting |-> IF @ = NoRequest THEN TRUE ELSE @.lasting]]
       /\ given' = [given EXCEPT ![r] = @ \cup {task[t].factor}]
       /\ lost' = IF Adding(r) # {t} THEN lost \cup {r} ELSE lost
    /\ Goes(t, "over")
    /\ UNCHANGED <<failures, late, completed, codeVars>>

\* Two factors, and the cooling-off is over.
AssertCompletable(t) ==
    /\ \E r \in Ids :
          /\ request[r] # NoRequest
          /\ Cardinality(request[r].factors) >= 2 /\ request[r].cooled
          /\ Begins(t, [op |-> "complete", id |-> r, at |-> "signOut"])
    /\ UNCHANGED <<failures, recVars>>

\* revokeAllAccountTokens (module Sessions).
SignOut(t) ==
    /\ At(t, "signOut")
    /\ completed' = [completed EXCEPT ![task[t].id] = @ + 1]
    /\ Goes(t, "consume")
    /\ UNCHANGED <<failures, request, given, lost, late, codeVars>>

WithoutRequest(t) == [request EXCEPT ![task[t].id] = NoRequest]

Consume(t) ==
    /\ At(t, "consume")
    /\ request' = WithoutRequest(t)
    /\ late' = IF Adding(task[t].id) # {} \/ Completing(task[t].id) # {t}
                 THEN late \cup {task[t].id} ELSE late
    /\ Goes(t, "over")
    /\ UNCHANGED <<failures, given, lost, completed, codeVars>>

RequestAges ==
    /\ \E r \in Ids :
          /\ request[r] # NoRequest
          /\ \/ ~request[r].cooled /\ request' = [request EXCEPT ![r].cooled = TRUE] /\ UNCHANGED late
             \/ /\ ~request[r].lasting
                /\ request' = [request EXCEPT ![r] = NoRequest]
                /\ late' = IF Adding(r) # {} THEN late \cup {r} ELSE late
    /\ UNCHANGED <<taskVars, given, lost, completed, codeVars>>

----------------------------------------------------------------------------
(* storeBackupCodes: two statements                                        *)

Issuing == {u \in Tasks : At(u, "insert")}

NoCodes == {}

DeleteCodes(t) ==
    /\ Begins(t, [op |-> "issue", at |-> "insert"])
    /\ codes' = NoCodes
    /\ crossing' = IF Issuing # {} THEN crossing \cup Issuing \cup {t} ELSE crossing
    /\ UNCHANGED <<failures, request, given, lost, late, completed>>

InsertCodes(t) ==
    /\ At(t, "insert")
    /\ codes' = codes \cup {t}
    /\ Goes(t, "over")
    /\ UNCHANGED <<failures, request, given, lost, late, completed, crossing>>

\* The routes of AuthController for recovery.
RecRequests(t) == RecoveryBegin(t) \/ UseBackupCode(t) \/ ProveFactor(t) \/ AssertCompletable(t) \/ DeleteCodes(t)

RecNext ==
    \/ RequestAges
    \/ \E t \in Tasks :
          \/ RecRequests(t)
          \/ GetRequest(t) \/ SetRequest(t)
          \/ SignOut(t) \/ Consume(t) \/ InsertCodes(t)
          \/ Fails(t) /\ UNCHANGED recVars

----------------------------------------------------------------------------
(* Properties                                                              *)

\* A factor that was acknowledged is in the request for as long as the request exists, unless
\* two were added at once.  About addFactor, which reads the request and writes it back.
FactorsAreKept ==
    \A r \in Ids : request[r] # NoRequest /\ r \notin lost \cup late => given[r] \subseteq request[r].factors

\* A request completes twice, or lasts without end, only if it was consumed (or ran out) while a
\* factor was being added or another completion was at work, or a completion died between the
\* revocation and the deletion.  About consume, and KEEPTTL on a key that is gone.
CompletesOnce ==
    \A r \in Ids :
        /\ completed[r] > 1 => r \in late \/ failures > 0 \/ Completing(r) # {}
        /\ request[r] # NoRequest /\ request[r].lasting => r \in late

\* The valid backup codes are of one issue, unless two issues ran at once.  About
\* storeBackupCodes, a DELETE and an INSERT.
CodesOfOneIssue ==
    Cardinality(codes) > 1 => codes \cap crossing # {}

\* The request and the codes of an account that recovers.
RecoveryHolds ==
    /\ FactorsAreKept
    /\ CompletesOnce
    /\ CodesOfOneIssue
=============================================================================
