------------------------------ MODULE ServiceCalls ------------------------------
(***************************************************************************)
(* What the services of one machine agree on and ask of each other: the     *)
(* development key pair and secret that processes booting at once create    *)
(* (dev-keys.ts, auth-mode.ts), and the questions about one owner and one    *)
(* viewer that the content service asks of the directory, behind the guard  *)
(* (HttpSocialGraphResolver, HttpMembershipResolver, JwtAuthGuard).  The    *)
(* two resolvers have one shape; no composition uses the second as yet.     *)
(***************************************************************************)
EXTENDS Tasks

VARIABLES
    config,     \* what the environment sets, the same for every process
    file,       \* each file of the key directory: who created it, and whether it is written
    got,        \* what a process took for the pair, or the secret
    row,        \* contacts: what the owner's row says of the viewer; blocked: the viewer's of the owner
    inflight,   \* the shared lookups: what the upstream has read, if it has
    granted,    \* questions that were answered with yes
    joined,     \* questions, asked or granted, that share a lookup begun for another
    barred      \* and those such that the row said no all the time they were open

keyVars     == <<file, got>>
askVars     == <<row, inflight, joined, barred, granted>>
serviceVars == <<config, keyVars, askVars>>

Files    == {"jwt.key", "jwt.pub", "internal.secret"}
NoFile   == [by |-> "none", whole |-> FALSE]
Empty    == "empty"         \* the content of a file that is created and not yet written
Shared   == {"contacts", "members"}
Rows     == Shared \cup {"blocked"}
Settings == {"production", "pem", "insecure", "secret"}
Idle     == "idle"
Sent     == "sent"
Unknown  == "unknown"
Says     == {"none", "there", "blocked"}

ASSUME ServiceAssumption == {"none", Empty, Unknown} \cap Tasks = {}

ServiceTypeOK ==
    /\ config \subseteq Settings
    /\ file \in [Files -> {NoFile} \cup [by : Tasks, whole : BOOLEAN]]
    /\ \A t \in Tasks : got[t] \in [Files -> Tasks \cup {Unknown, Empty}]
    /\ row \in [Rows -> Says]
    /\ inflight \in [Shared -> Says \cup {Idle, Sent, Unknown}]
    /\ joined \subseteq Tasks /\ granted \subseteq Tasks
    /\ barred \in [Rows -> SUBSET Tasks]

ServiceInit ==
    /\ config \in SUBSET Settings
    /\ file = [f \in Files |-> NoFile]
    /\ got = [t \in Tasks |-> [f \in Files |-> Unknown]]
    /\ row = [r \in Rows |-> "none"]
    /\ inflight = [r \in Shared |-> Idle]
    /\ joined = {} /\ granted = {}
    /\ barred = [r \in Rows |-> {}]

\* How tokens are verified; a process that is refused does not start.
AuthMode ==
    IF {"insecure", "production"} \subseteq config THEN "refused"
    ELSE IF "pem" \in config THEN "pem"
    ELSE IF "insecure" \in config THEN "off"
    ELSE IF "production" \in config THEN "refused" ELSE "dev"

Verifies  == AuthMode \in {"pem", "dev"}
HasSecret == "secret" \in config \/ "production" \notin config

----------------------------------------------------------------------------
(* The files of the key directory                                          *)

Content(f) == IF file[f].whole THEN file[f].by ELSE Empty
Took(t, f) == got' = [got EXCEPT ![t][f] = Content(f)]
Kept(t, F) == got' = [got EXCEPT ![t] = [f \in Files |-> IF f \in F THEN t ELSE @[f]]]

\* flag 'wx': the file must not exist.
Exclusive(f) == file[f] = NoFile

Created(t, f) == file' = [file EXCEPT ![f] = [by |-> t, whole |-> FALSE]]
Written(f)    == file' = [file EXCEPT ![f].whole = TRUE]

\* A pair that is there is read as it is.
LoadPair(t) ==
    /\ AuthMode = "dev"
    /\ IF NoFile \in {file["jwt.key"], file["jwt.pub"]}
       THEN Begins(t, [op |-> "createPair", at |-> "createKey"])
       ELSE Begins(t, [op |-> "loadPair", at |-> "readPrivate"])
    /\ UNCHANGED <<failures, serviceVars>>

ReadPrivate(t) ==
    /\ At(t, "readPrivate")
    /\ Took(t, "jwt.key")
    /\ Goes(t, "readPublic")
    /\ UNCHANGED <<failures, config, file, askVars>>

ReadPublic(t) ==
    /\ At(t, "readPublic")
    /\ Took(t, "jwt.pub")
    /\ Ends(t)
    /\ UNCHANGED <<failures, config, file, askVars>>

\* The private file is the lock: who does not create it waits for the pair of the one who did.
CreateKey(t) ==
    /\ At(t, "createKey")
    /\ IF Exclusive("jwt.key") THEN Created(t, "jwt.key") /\ Goes(t, "writeKey")
                               ELSE Goes(t, "readExisting") /\ UNCHANGED file
    /\ UNCHANGED <<failures, config, got, askVars>>

WriteKey(t) ==
    /\ At(t, "writeKey")
    /\ Written("jwt.key")
    /\ Goes(t, "createPub")
    /\ UNCHANGED <<failures, config, got, askVars>>

\* The public file is not created exclusively.
CreatePub(t) ==
    /\ At(t, "createPub")
    /\ Created(t, "jwt.pub")
    /\ Goes(t, "writePub")
    /\ UNCHANGED <<failures, config, got, askVars>>

WritePub(t) ==
    /\ At(t, "writePub")
    /\ Written("jwt.pub")
    /\ Kept(t, {"jwt.key", "jwt.pub"})
    /\ Ends(t)
    /\ UNCHANGED <<failures, config, askVars>>

\* Both halves must be written; until then it waits, and after a deadline it gives up.
ReadExisting(t) ==
    /\ At(t, "readExisting")
    /\ \/ /\ file["jwt.key"].whole /\ file["jwt.pub"].whole
          /\ got' = [got EXCEPT ![t] = [f \in Files |-> IF f = "internal.secret" THEN @[f] ELSE Content(f)]]
       \/ UNCHANGED got
    /\ Ends(t)
    /\ UNCHANGED <<failures, config, file, askVars>>

LoadSecret(t) ==
    /\ {"secret", "production"} \cap config = {} /\ AuthMode # "refused"
    /\ Begins(t, [op |-> "secret", at |-> IF file["internal.secret"] = NoFile
                                         THEN "createSecret" ELSE "readSecret"])
    /\ UNCHANGED <<failures, serviceVars>>

CreateSecret(t) ==
    /\ At(t, "createSecret")
    /\ IF Exclusive("internal.secret") THEN Created(t, "internal.secret") /\ Goes(t, "writeSecret")
                                       ELSE Goes(t, "readSecret") /\ UNCHANGED file
    /\ UNCHANGED <<failures, config, got, askVars>>

WriteSecret(t) ==
    /\ At(t, "writeSecret")
    /\ Written("internal.secret")
    /\ Kept(t, {"internal.secret"})
    /\ Ends(t)
    /\ UNCHANGED <<failures, config, askVars>>

\* Nobody waits for the content: an empty one closes the internal path of this process.
ReadSecret(t) ==
    /\ At(t, "readSecret")
    /\ Took(t, "internal.secret")
    /\ Ends(t)
    /\ UNCHANGED <<failures, config, file, askVars>>

FailBoot(t) == Fails(t) /\ UNCHANGED serviceVars

KeysNext == \E t \in Tasks :
    \/ LoadPair(t) \/ ReadPrivate(t) \/ ReadPublic(t)
    \/ CreateKey(t) \/ WriteKey(t) \/ CreatePub(t) \/ WritePub(t) \/ ReadExisting(t)
    \/ LoadSecret(t) \/ CreateSecret(t) \/ WriteSecret(t) \/ ReadSecret(t)
    \/ FailBoot(t)

----------------------------------------------------------------------------
(* What is asked: the rows and who may change them                         *)

\* The rows that let a viewer see, by themselves.
Favours(r, says) == IF r = "blocked" THEN says # "blocked" ELSE says = "there"

Asking == {t \in Tasks : Under(t, "relationship") \/ Under(t, "isMember")}

Set(r, says) ==
    /\ row[r] # says
    /\ row' = [row EXCEPT ![r] = says]
    /\ barred' = IF Favours(r, says) THEN [barred EXCEPT ![r] = @ \ Asking] ELSE barred
    /\ UNCHANGED <<taskVars, config, keyVars, inflight, joined, granted>>

\* The upsert leaves a block in place.
AddContact == row["contacts"] = "none" /\ Set("contacts", "there")
Block(r)   == Set(r, "blocked")

\* An upsert too: whoever is unblocked has a row, and is a contact from now on.
Unblock(r) == Set(r, "there")

ChangeMembers == \E says \in {"none", "there"} : Set("members", says)

----------------------------------------------------------------------------
(* The guard in front of the upstream, and the lookups                     *)

\* The routes another service may call with the secret: not those of the directory.
AllowInternal == {"members"}

\* A lookup presents the secret and no token.
CanActivate(r) == ~Verifies \/ (r \in AllowInternal /\ HasSecret)

\* An error, a refusal and an exceeded budget are one answer.
Answers(r) == {Unknown} \cup IF CanActivate(r) THEN {row[r]} ELSE {}

LookupOf(op) == IF op = "isMember" THEN "members" ELSE "contacts"

Waiting(r) == {t \in Asking : LookupOf(task[t].op) = r /\ task[t].list = Sent}

\* Both lookups of a relationship begin at once; the first is shared with whoever asks of this owner.
\* Without a secret the composition has put a resolver in place that denies.
Ask(t, op) ==
    LET r == LookupOf(op) IN
    /\ AuthMode # "refused" /\ HasSecret
    /\ Begins(t, [op |-> op, at |-> "asked", list |-> Sent, blocked |-> IF op = "isMember" THEN "none" ELSE Sent])
    /\ joined' = IF Waiting(r) = {} THEN joined ELSE joined \cup {t}
    /\ inflight' = [inflight EXCEPT ![r] = IF @ = Idle THEN Sent ELSE @]
    /\ barred' = [s \in Rows |-> IF Favours(s, row[s]) THEN barred[s] ELSE barred[s] \cup {t}]
    /\ UNCHANGED <<failures, config, keyVars, row, granted>>

FetchList(r) ==
    /\ inflight[r] = Sent
    /\ \E says \in Answers(r) : inflight' = [inflight EXCEPT ![r] = says]
    /\ UNCHANGED <<taskVars, config, keyVars, row, joined, barred, granted>>

\* Mutant: what was looked up is kept for the next.
KeptFor(r) == inflight[r]

\* finally: the next question looks again.
After(r) == Idle

\* The list comes in for everyone that shares it.
ListArrives(r) ==
    /\ inflight[r] \notin {Idle, Sent} /\ Waiting(r) # {}
    /\ inflight' = [inflight EXCEPT ![r] = After(r)]
    /\ task' = [t \in Tasks |-> IF t \in Waiting(r) THEN [task[t] EXCEPT !.list = inflight[r]] ELSE task[t]]
    /\ UNCHANGED <<failures, config, keyVars, row, joined, barred, granted>>

HasBlocked(t) ==
    /\ At(t, "asked") /\ task[t].blocked = Sent
    /\ \E says \in Answers("blocked") : task' = [task EXCEPT ![t].blocked = says]
    /\ UNCHANGED <<failures, serviceVars>>

\* What is unknown denies.  The audience is "contacts".
CanView(t) == task[t].list = "there" /\ task[t].blocked \notin {Unknown, "blocked"}

AnswerQuestion(t) ==
    /\ At(t, "asked") /\ Sent \notin {task[t].list, task[t].blocked}
    /\ IF CanView(t)
       THEN granted' = granted \cup {t} /\ UNCHANGED <<joined, barred>>
       ELSE /\ joined' = joined \ {t}
            /\ barred' = [r \in Rows |-> barred[r] \ {t}]
            /\ UNCHANGED granted
    /\ Ends(t)
    /\ UNCHANGED <<failures, config, keyVars, row, inflight>>

QuestionsNext ==
    \/ AddContact \/ ChangeMembers
    \/ \E r \in {"contacts", "blocked"} : Block(r) \/ Unblock(r)
    \/ \E t \in Tasks : Ask(t, "relationship") \/ Ask(t, "isMember") \/ HasBlocked(t) \/ AnswerQuestion(t)
    \/ \E r \in Shared : FetchList(r) \/ ListArrives(r)

----------------------------------------------------------------------------
(* Properties                                                              *)

\* "Exactly one process may win, and the rest must adopt its key": two processes never hold different
\* halves, keys or secrets.  About loadOrCreateDevKeyPair and loadOrCreateDevInternalSecret, run by
\* processes that boot at once, one of which may die between two writes.
ProcessesAgree ==
    \A f \in Files : Cardinality({got[t][f] : t \in Tasks} \ {Unknown, Empty}) <= 1

\* The halves a process took are of one pair.  An empty one was read by a process that found the files
\* there while they were written: who lost the creation waits for both.
HalvesMatch ==
    \A t \in Tasks :
       /\ got[t]["jwt.key"] # Empty
       /\ got[t]["jwt.pub"] \in {got[t]["jwt.key"], Unknown, Empty}
       /\ got[t]["jwt.pub"] = Empty => Over(t, "loadPair")

\* "Blocking someone takes effect immediately": a question asked while a row says no, and as long as
\* it is open, is not answered with yes, unless it shares a lookup begun before it.  About the
\* lookups in flight, which are shared and then forgotten, and the answers that do not come in.
GrantsAreDue ==
    \A t \in granted :
       LET r == LookupOf(task[t].op) IN
       /\ t \in barred[r] => t \in joined
       /\ task[t].op = "relationship" => t \notin barred["blocked"]

\* With the guard on, no viewer is ever a contact: the directory's routes are not open to a service
\* that presents the secret (directory.controller.ts:45, :71), as those of the channels are
\* (channels.controller.ts:146).
GuardedDirectoryDenies ==
    \A t \in granted : task[t].op = "relationship" => ~Verifies

\* What services take from each other is one key, one secret, and a yes that was due.
ServicesHold == ProcessesAgree /\ HalvesMatch /\ GrantsAreDue /\ GuardedDirectoryDenies
=============================================================================
