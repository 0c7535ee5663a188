------------------------------ MODULE Identity_proofs ------------------------------
(***************************************************************************)
(* What sessions, codes by SMS, recoveries, device lists, discovery,        *)
(* organisations, passkeys and accounts keep for any number of calls and    *)
(* any number of failures.                                                  *)
(* Each part is taken by its own steps, as one behaviour of MCIdentity runs *)
(* one part.                                                                *)
(***************************************************************************)
EXTENDS Sessions, Otp, Recovery, Devices, Directory, Accounts, FiniteSetTheorems, TLAPS

----------------------------------------------------------------------------
(* Sessions: the calls                                                     *)

SessSpec == TasksInit /\ SessInit /\ [][SessNext]_<<taskVars, sessVars>>

\* What a call may stand at.
SessTasks ==
    {New, Failed}
    \cup [op : {"rotate"}, presented : TokenIds, at : {"family", "revoke", "insert", "answer", "over"}]
    \cup [op : {"logout"}, presented : TokenIds, at : {"family", "over"}]
    \cup [op : {"login"}, signed : Tasks, at : {"nonce", "consume", "insert", "answer", "over", "failed"}]
    \cup [op : {"challenge", "recover"}, at : {"over"}]
    \cup [op : {"revokeDevice"}, at : {"mark", "tokens", "over"}]

SessTyped == SessTypeOK /\ task \in [Tasks -> SessTasks]

Working(t) == ~At(t, "new") /\ task[t] # Failed

\* What is known of a call by where it stands.
LEMMA SessPlaces ==
    ASSUME SessTyped, NEW t \in Tasks
    PROVE  /\ At(t, "new") <=> task[t] = New
           /\ At(t, "revoke") => task[t].op = "rotate"
           /\ At(t, "nonce") \/ At(t, "consume") => task[t].op = "login"
           /\ At(t, "insert") => task[t].op \in {"rotate", "login"}
           /\ At(t, "answer") => task[t].op \in {"rotate", "login"}
           /\ At(t, "family") => task[t].op \in {"rotate", "logout"}
           /\ At(t, "mark") \/ At(t, "tokens") => task[t].op = "revokeDevice"
           /\ Working(t) /\ task[t].op \in {"rotate", "logout"} => task[t].presented \in TokenIds
           /\ Working(t) /\ task[t].op = "login" => task[t].signed \in Tasks
<1>1. task[t] \in SessTasks  BY DEF SessTyped
<1> QED  BY <1>1 DEF SessTasks, New, Failed, At, Working

\* A step of a call changes where it stands and no other call.
LEMMA SessGoes ==
    ASSUME SessTyped, NEW t \in Tasks, Working(t), NEW p, Goes(t, p)
    PROVE  /\ task'[t].at = p /\ task'[t].op = task[t].op
           /\ task[t].op \in {"rotate", "logout"} => task'[t].presented = task[t].presented
           /\ task[t].op = "login" => task'[t].signed = task[t].signed
           /\ \A u \in Tasks \ {t} : task'[u] = task[u]
<1>1. task[t] \in SessTasks /\ task \in [Tasks -> SessTasks]  BY DEF SessTyped
<1>2. task' = [task EXCEPT ![t] = [task[t] EXCEPT !.at = p]]  BY DEF Goes
<1>3. \A u \in Tasks \ {t} : task'[u] = task[u]  BY <1>1, <1>2
<1>4. task'[t] = [task[t] EXCEPT !.at = p]  BY <1>1, <1>2
<1> QED  BY <1>1, <1>3, <1>4 DEF SessTasks, Working, At, New, Failed

\* A call that begins stands where its first step puts it.
LEMMA SessBegins ==
    ASSUME SessTyped, NEW t \in Tasks, NEW rec, Begins(t, rec)
    PROVE  /\ At(t, "new") /\ task'[t] = rec
           /\ \A u \in Tasks \ {t} : task'[u] = task[u]
BY DEF SessTyped, Begins, At, New

\* The type of the calls.
LEMMA SessTaskType ==
    ASSUME SessTyped, NEW t \in Tasks, NEW r \in SessTasks, task' = [task EXCEPT ![t] = r]
    PROVE  task' \in [Tasks -> SessTasks]
BY DEF SessTyped

\* The steps of a call lead where its kind may stand.
LEMMA SessGoesType ==
    ASSUME SessTyped, NEW t \in Tasks, NEW p, Goes(t, p),
           \/ At(t, "insert") /\ p = "answer"
           \/ At(t, "answer") /\ p = "over"
           \/ At(t, "family") /\ p = "over"
           \/ At(t, "revoke") /\ p = "insert"
           \/ At(t, "nonce") /\ p \in {"consume", "failed"}
           \/ At(t, "consume") /\ p = "insert"
           \/ At(t, "mark") /\ p = "tokens"
           \/ At(t, "tokens") /\ p = "over"
    PROVE  task' \in [Tasks -> SessTasks] /\ Working(t)
<1>1. task[t] \in SessTasks /\ task \in [Tasks -> SessTasks]  BY DEF SessTyped
<1>2. task' = [task EXCEPT ![t] = [task[t] EXCEPT !.at = p]]  BY DEF Goes
<1>3. [task[t] EXCEPT !.at = p] \in SessTasks  BY <1>1 DEF SessTasks, At, New, Failed
<1> QED  BY <1>1, <1>2, <1>3, SessTaskType DEF At, Working, New, Failed

\* The steps of the calls, apart from those that fail.
SessActs(t) ==
    \/ SessRequests(t) \/ CloseFamily(t) \/ RotateRevokes(t) \/ Insert(t) \/ Answer(t)
    \/ VerifyNonce(t) \/ ConsumeNonce(t) \/ MarkRevoked(t) \/ RevokeDeviceTokens(t)
    \/ RevokeAllAccountTokens(t)

\* An UPDATE of the rows S leaves the rest, and none of S live.
LEMMA RevokeType ==
    ASSUME SessTyped, NEW S, RevokeWhere(S)
    PROVE  /\ token' \in [TokenIds -> TokenRows]
           /\ \A i \in TokenIds : /\ token'[i].family = token[i].family /\ token'[i].from = token[i].from
                                  /\ token'[i].state = "none" <=> token[i].state = "none"
                                  /\ Live(i)' => Live(i) /\ i \notin S
<1>1. token \in [TokenIds -> TokenRows]  BY DEF SessTyped, SessTypeOK
<1> SUFFICES ASSUME NEW i \in TokenIds
             PROVE  /\ token'[i] \in TokenRows
                    /\ token'[i].family = token[i].family /\ token'[i].from = token[i].from
                    /\ token'[i].state = "none" <=> token[i].state = "none"
                    /\ Live(i)' => Live(i) /\ i \notin S
  BY DEF RevokeWhere
<1>2. token[i] \in TokenRows  BY <1>1
<1>3. token'[i] = IF i \in S /\ Live(i) THEN [token[i] EXCEPT !.state = "revoked"] ELSE token[i]
  BY DEF RevokeWhere
<1> QED  BY <1>2, <1>3 DEF TokenRows, Live

\* The first step of a call: what it presents was handed out, what it signs was given.
Opens(r) ==
    /\ r.at \in {"family", "revoke", "nonce", "mark", "over"}
    /\ r.op \in {"rotate", "logout"} => r.presented \in held
    /\ r.at = "revoke" => token[r.presented].state # "revoked" /\ r.op = "rotate"
    /\ r.op = "login" => r.signed \in Tasks /\ Over(r.signed, "challenge")
    /\ r.at = "nonce" => r.op = "login" /\ ~revokedAt

\* A request begins a call that has not begun.
LEMMA SessStarts ==
    ASSUME SessTyped, NEW t \in Tasks, SessRequests(t) \/ RevokeAllAccountTokens(t)
    PROVE  Opens(task'[t]) /\ At(t, "new")
<1>b. \A r : Begins(t, r) /\ Opens(r) => Opens(task'[t]) /\ At(t, "new")  BY SessBegins
<1>1. CASE Challenge(t)
  <2>1. Opens([op |-> "challenge", at |-> "over"])  BY DEF Opens
  <2> QED  BY <1>1, <2>1, <1>b DEF Challenge
<1>2. CASE ReadPubkey(t)
  <2>1. PICK n \in Tasks : Over(n, "challenge") /\ Begins(t, [op |-> "login", signed |-> n, at |-> "nonce"])
    BY <1>2 DEF ReadPubkey
  <2>2. Opens([op |-> "login", signed |-> n, at |-> "nonce"])  BY <1>2, <2>1 DEF Opens, ReadPubkey
  <2> QED  BY <2>1, <2>2, <1>b
<1>3. CASE FindPresented(t)
  <2>1. PICK i \in held : Begins(t, [op |-> "rotate", presented |-> i, at |-> Found(i)])
    BY <1>3 DEF FindPresented
  <2>2. Opens([op |-> "rotate", presented |-> i, at |-> Found(i)])  BY <2>1 DEF Opens, Found
  <2> QED  BY <2>1, <2>2, <1>b
<1>4. CASE FindForLogout(t)
  <2>1. PICK i \in held : Begins(t, [op |-> "logout", presented |-> i, at |-> "family"])
    BY <1>4 DEF FindForLogout
  <2>2. Opens([op |-> "logout", presented |-> i, at |-> "family"])  BY <2>1 DEF Opens
  <2> QED  BY <2>1, <2>2, <1>b
<1>5. CASE ReadDevice(t)
  <2>1. Opens([op |-> "revokeDevice", at |-> "mark"])  BY DEF Opens
  <2> QED  BY <1>5, <2>1, <1>b DEF ReadDevice
<1>6. CASE RevokeAllAccountTokens(t)
  <2>1. Opens([op |-> "recover", at |-> "over"])  BY DEF Opens
  <2> QED  BY <1>6, <2>1, <1>b DEF RevokeAllAccountTokens
<1> QED  BY <1>1, <1>2, <1>3, <1>4, <1>5, <1>6 DEF SessRequests

Made(i)  == token[i].state # "none"
Known(f) == f = First \/ (f \in Tasks /\ ~At(f, "new"))

\* The row stays, but for being revoked.
Stays(i) ==
    /\ token'[i].family = token[i].family /\ token'[i].from = token[i].from
    /\ Made(i)' <=> Made(i)
    /\ Live(i)' => Live(i)

\* A step moves one call, and only an insertion touches a row that is not revoked.
LEMMA SessMoves ==
    ASSUME SessTyped, NEW t \in Tasks, SessActs(t)
    PROVE  /\ \A u \in Tasks \ {t} : task'[u] = task[u]
           /\ task'[t].at # "new" /\ task[t] # Failed
           /\ task' \in [Tasks -> SessTasks]
           /\ ~At(t, "insert") => \A i \in TokenIds : Stays(i)
           /\ At(t, "insert") => Insert(t)
           /\ failures' = failures
<1>a. /\ task \in [Tasks -> SessTasks] /\ task[t] \in SessTasks
      /\ held \subseteq TokenIds /\ token \in [TokenIds -> TokenRows]
  BY DEF SessTyped, SessTypeOK
<1>b. token' = token => \A i \in TokenIds : Stays(i)  BY DEF Stays, Made, Live
<1>c. \A S : RevokeWhere(S) => \A i \in TokenIds : Stays(i)  BY RevokeType DEF Stays, Made
<1>n. ASSUME NEW r \in SessTasks, Begins(t, r), r.at # "new"
      PROVE  /\ \A u \in Tasks \ {t} : task'[u] = task[u]
             /\ task'[t].at # "new" /\ task[t] # Failed
             /\ task' \in [Tasks -> SessTasks] /\ ~At(t, "insert")
  BY <1>a, <1>n, SessBegins, SessTaskType DEF Begins, At, New, Failed
<1> USE DEF SessActs
<1>1. CASE Challenge(t)
  <2>1. [op |-> "challenge", at |-> "over"] \in SessTasks  BY DEF SessTasks
  <2> QED  BY <1>1, <2>1, <1>b, <1>n DEF Challenge
<1>2. CASE ReadPubkey(t)
  <2>1. PICK n \in Tasks : Begins(t, [op |-> "login", signed |-> n, at |-> "nonce"])
    BY <1>2 DEF ReadPubkey
  <2>2. [op |-> "login", signed |-> n, at |-> "nonce"] \in SessTasks  BY DEF SessTasks
  <2> QED  BY <1>2, <2>1, <2>2, <1>b, <1>n DEF ReadPubkey, sessVars
<1>3. CASE FindPresented(t)
  <2>1. PICK i \in TokenIds : Begins(t, [op |-> "rotate", presented |-> i, at |-> Found(i)])
    BY <1>3, <1>a DEF FindPresented
  <2>2. [op |-> "rotate", presented |-> i, at |-> Found(i)] \in SessTasks  BY DEF SessTasks, Found
  <2> QED  BY <1>3, <2>1, <2>2, <1>b, <1>n DEF FindPresented, sessVars, Found
<1>4. CASE FindForLogout(t)
  <2>1. PICK i \in TokenIds : Begins(t, [op |-> "logout", presented |-> i, at |-> "family"])
    BY <1>4, <1>a DEF FindForLogout
  <2>2. [op |-> "logout", presented |-> i, at |-> "family"] \in SessTasks  BY DEF SessTasks
  <2> QED  BY <1>4, <2>1, <2>2, <1>b, <1>n DEF FindForLogout, sessVars
<1>5. CASE ReadDevice(t)
  <2>1. [op |-> "revokeDevice", at |-> "mark"] \in SessTasks  BY DEF SessTasks
  <2> QED  BY <1>5, <2>1, <1>b, <1>n DEF ReadDevice, sessVars
<1>6. CASE RevokeAllAccountTokens(t)
  <2>1. [op |-> "recover", at |-> "over"] \in SessTasks  BY DEF SessTasks
  <2> QED  BY <1>6, <2>1, <1>c, <1>n DEF RevokeAllAccountTokens
<1>g. ASSUME NEW p, Goes(t, p), p # "new",
             \/ At(t, "insert") /\ p = "answer"
             \/ At(t, "answer") /\ p = "over"
             \/ At(t, "family") /\ p = "over"
             \/ At(t, "revoke") /\ p = "insert"
             \/ At(t, "nonce") /\ p \in {"consume", "failed"}
             \/ At(t, "consume") /\ p = "insert"
             \/ At(t, "mark") /\ p = "tokens"
             \/ At(t, "tokens") /\ p = "over"
      PROVE  /\ \A u \in Tasks \ {t} : task'[u] = task[u]
             /\ task'[t].at # "new" /\ task[t] # Failed
             /\ task' \in [Tasks -> SessTasks]
  BY <1>g, SessGoesType, SessGoes DEF Working
<1>7. CASE Insert(t)  BY <1>7, <1>g DEF Insert, At
<1>8. CASE Answer(t)  BY <1>8, <1>g, <1>b DEF Answer, At
<1>9. CASE CloseFamily(t)  BY <1>9, <1>g, <1>c DEF CloseFamily, RevokeFamily, At
<1>10. CASE RotateRevokes(t)  BY <1>10, <1>g, <1>c DEF RotateRevokes, RevokePresented, At
<1>11. CASE VerifyNonce(t)  BY <1>11, <1>g, <1>b DEF VerifyNonce, At, sessVars
<1>12. CASE ConsumeNonce(t)  BY <1>12, <1>g, <1>b DEF ConsumeNonce, At
<1>13. CASE MarkRevoked(t)  BY <1>13, <1>g, <1>b DEF MarkRevoked, At
<1>14. CASE RevokeDeviceTokens(t)  BY <1>14, <1>g, <1>c DEF RevokeDeviceTokens, At
<1> QED
  BY <1>1, <1>2, <1>3, <1>4, <1>5, <1>6, <1>7, <1>8, <1>9, <1>10, <1>11, <1>12, <1>13, <1>14
     DEF SessRequests

Carries(t, op) == Working(t) /\ task[t].op = op

\* Rows come from the calls that ended in them; families are named after calls that began; what
\* a call presents is a row, what it signs a challenge that was given.
RowsInv ==
    /\ \A t \in Tasks : Made(t) => At(t, "answer") \/ At(t, "failed") \/ Over(t, "rotate") \/ Over(t, "login")
    /\ \A t \in Tasks : At(t, "answer") => Made(t)
    /\ \A i \in TokenIds : Made(i) => Known(token[i].family)
    /\ \A f \in closed : Known(f)
    /\ \A t \in Tasks : Carries(t, "rotate") \/ Carries(t, "logout") => Made(task[t].presented)
    /\ \A t \in Tasks : Carries(t, "login") => Over(task[t].signed, "challenge")
    /\ nonce # NoNonce => Over(nonce, "challenge")
    /\ signedOut \/ (\E t \in Tasks : At(t, "tokens")) => revokedAt

\* The row that Insert writes.
LEMMA InsertMoves ==
    ASSUME SessTyped, RowsInv, NEW t \in Tasks, Insert(t)
    PROVE  /\ ~Made(t) /\ Carries(t, task[t].op) /\ task[t].op \in {"rotate", "login"}
           /\ token'[t].family = FamilyOf(t) /\ Live(t)'
           /\ token'[t].from = IF task[t].op = "rotate" THEN task[t].presented ELSE task[t].signed
           /\ \A i \in TokenIds \ {t} : token'[i] = token[i]
           /\ FamilyOf(t) \in TokenIds /\ Known(FamilyOf(t))
           /\ token' \in [TokenIds -> TokenRows]
           /\ task'[t].at = "answer" /\ task'[t].op = task[t].op
<1>1. /\ At(t, "insert") /\ Working(t) /\ task[t].op \in {"rotate", "login"} /\ t \in TokenIds
      /\ token \in [TokenIds -> TokenRows]
  BY SessPlaces DEF Insert, Working, At, Failed, SessTyped, SessTypeOK, TokenIds
<1>2. ~Made(t)  BY <1>1 DEF RowsInv, At, Over
<1>3. FamilyOf(t) \in TokenIds /\ Known(FamilyOf(t))
  <2>1. CASE task[t].op = "rotate"
    <3>1. task[t].presented \in TokenIds /\ Made(task[t].presented)
      BY <1>1, <2>1, SessPlaces DEF RowsInv, Carries
    <3> QED  BY <1>1, <2>1, <3>1 DEF RowsInv, FamilyOf, TokenRows
  <2>2. CASE task[t].op = "login"  BY <1>1, <2>2 DEF FamilyOf, Known, At
  <2> QED  BY <1>1, <2>1, <2>2
<1>4. (IF task[t].op = "rotate" THEN task[t].presented ELSE task[t].signed) \in TokenIds
  BY <1>1, SessPlaces DEF TokenIds
<1>5. task'[t].at = "answer" /\ task'[t].op = task[t].op  BY <1>1, SessGoes DEF Insert
<1> DEFINE r == [family |-> FamilyOf(t), state |-> "live",
                 from |-> IF task[t].op = "rotate" THEN task[t].presented ELSE task[t].signed]
<1>6. r \in TokenRows /\ token' = [token EXCEPT ![t] = r]  BY <1>3, <1>4 DEF TokenRows, Insert
<1>7. token'[t] = r /\ \A i \in TokenIds \ {t} : token'[i] = token[i]  BY <1>1, <1>6
<1> QED  BY <1>1, <1>2, <1>3, <1>5, <1>6, <1>7 DEF Carries, Live

\* Rows are never taken away.
LEMMA RowsStay ==
    ASSUME SessTyped, RowsInv, NEW t \in Tasks, SessActs(t)
    PROVE  /\ \A i \in TokenIds : Made(i) => Stays(i)
           /\ \A i \in TokenIds : Made(i)' => Stays(i) \/ (i = t /\ Insert(t))
           /\ \A f : Known(f) => Known(f)'
           /\ \A n \in Tasks : Over(n, "challenge") => Over(n, "challenge")'
<1>1. /\ ~At(t, "insert") => \A i \in TokenIds : Stays(i)
      /\ At(t, "insert") => Insert(t)
      /\ task'[t].at # "new"
      /\ \A u \in Tasks \ {t} : task'[u] = task[u]
  BY SessMoves
<1>2. Insert(t) => \A i \in TokenIds \ {t} : Stays(i)  BY InsertMoves DEF Stays, Made, Live
<1>3. \A f : Known(f) => Known(f)'  BY <1>1 DEF Known, At
<1>4. ~Over(t, "challenge")
  <2>1. task[t] \in SessTasks  BY DEF SessTyped
  <2>2. At(t, "new") \/ task[t].at \in {"insert", "answer", "family", "revoke", "nonce", "consume", "mark", "tokens"}
    BY DEF SessActs, SessRequests, Challenge, ReadPubkey, FindPresented, FindForLogout, ReadDevice,
           CloseFamily, RotateRevokes, Insert, Answer, VerifyNonce, ConsumeNonce, MarkRevoked,
           RevokeDeviceTokens, RevokeAllAccountTokens, Begins, At, New
  <2> QED  BY <2>2 DEF Over, At
<1>5. \A n \in Tasks : Over(n, "challenge") => Over(n, "challenge")'  BY <1>1, <1>4 DEF Over
<1>6. At(t, "insert") => ~Made(t)  BY <1>1, InsertMoves
<1> QED  BY <1>1, <1>2, <1>3, <1>5, <1>6

\* The state keeps its type.
LEMMA SessTypeStep ==
    ASSUME SessTyped, RowsInv, NEW t \in Tasks, SessActs(t)
    PROVE  SessTyped'
<1>0. SessTypeOK /\ task' \in [Tasks -> SessTasks]  BY SessMoves DEF SessTyped
<1>p. \A u \in Tasks : At(u, "revoke") \/ At(u, "insert") => FamilyOf(u) \in TokenIds
  <2> SUFFICES ASSUME NEW u \in Tasks, At(u, "revoke") \/ At(u, "insert") PROVE FamilyOf(u) \in TokenIds
    OBVIOUS
  <2>1. task[u].op \in {"rotate", "login"} /\ (task[u].op = "rotate" => task[u].presented \in TokenIds)
    BY SessPlaces DEF Working, At, Failed
  <2> QED  BY <1>0, <2>1 DEF FamilyOf, SessTypeOK, TokenRows, TokenIds
<1>1. Pending \subseteq TokenIds
  <2> SUFFICES ASSUME NEW u \in Tasks, task[u].at \in {"nonce", "consume"} PROVE FamilyOf(u) \in TokenIds
    BY <1>p DEF Pending, At
  <2>1. task[u].op = "login"  BY SessPlaces DEF At
  <2> QED  BY <2>1 DEF FamilyOf, TokenIds
<1>2. /\ token' \in [TokenIds -> TokenRows]
      /\ \A i \in TokenIds : Made(i) => Made(i)'
  <2>1. CASE Insert(t)  BY <2>1, InsertMoves, RowsStay DEF Stays
  <2>2. CASE token' = token  BY <2>2, <1>0 DEF SessTypeOK, Made
  <2>3. CASE \E S : RevokeWhere(S)  BY <2>3, RevokeType, SessTyped DEF Made
  <2> QED
    BY <2>1, <2>2, <2>3 DEF SessActs, SessRequests, Challenge, ReadPubkey, FindPresented, FindForLogout,
       ReadDevice, CloseFamily, RevokeFamily, RotateRevokes, RevokePresented, Answer, VerifyNonce,
       ConsumeNonce, MarkRevoked, RevokeDeviceTokens, RevokeAllAccountTokens, sessVars
<1>3. held' \in SUBSET {i \in TokenIds : Made(i)'}
  <2>1. CASE held' = held  BY <1>0, <1>2, <2>1 DEF SessTypeOK, Made
  <2>2. CASE Answer(t)
    <3>1. t \in TokenIds /\ Made(t)'  BY <2>2, <1>2 DEF Answer, RowsInv, TokenIds
    <3> QED  BY <1>0, <1>2, <2>2, <3>1 DEF Answer, SessTypeOK, Made
  <2> QED
    BY <2>1, <2>2 DEF SessActs, SessRequests, Challenge, ReadPubkey, FindPresented, FindForLogout,
       ReadDevice, CloseFamily, RotateRevokes, Insert, VerifyNonce,
       ConsumeNonce, MarkRevoked, RevokeDeviceTokens, RevokeAllAccountTokens, sessVars
<1>4. nonce' \in Tasks \cup {NoNonce} /\ revokedAt' \in BOOLEAN /\ signedOut' \in BOOLEAN
  BY <1>0 DEF SessTypeOK, SessActs, SessRequests, Challenge, ReadPubkey, FindPresented, FindForLogout,
     ReadDevice, CloseFamily, RotateRevokes, Insert, Answer, VerifyNonce,
     ConsumeNonce, DropNonce, MarkRevoked, RevokeDeviceTokens, RevokeAllAccountTokens, sessVars
<1>5. racing' \in SUBSET Tasks
  BY <1>0 DEF SessTypeOK, SessActs, SessRequests, Challenge, ReadPubkey, FindPresented, FindForLogout,
     ReadDevice, CloseFamily, RotateRevokes, Insert, Answer, VerifyNonce,
     ConsumeNonce, MarkRevoked, RevokeDeviceTokens, RevokeAllAccountTokens, sessVars
<1>6. escaped' \in SUBSET TokenIds
  BY <1>0, <1>1 DEF SessTypeOK, SessActs, SessRequests, Challenge, ReadPubkey, FindPresented, FindForLogout,
     ReadDevice, CloseFamily, RevokeFamily, RotateRevokes, Insert, Answer, VerifyNonce,
     ConsumeNonce, MarkRevoked, RevokeDeviceTokens, RevokeAllAccountTokens, sessVars
<1>7. closed' \in SUBSET TokenIds
  <2>0. token \in [TokenIds -> TokenRows] /\ closed \in SUBSET TokenIds  BY <1>0 DEF SessTypeOK
  <2>1. CASE CloseFamily(t)
    <3>1. task[t].presented \in TokenIds  BY <2>1, SessPlaces DEF CloseFamily, At, Working, Failed
    <3> QED  BY <2>0, <2>1, <3>1 DEF CloseFamily, RevokeFamily, TokenRows
  <2>2. CASE RevokeAllAccountTokens(t)  BY <2>0, <2>2 DEF RevokeAllAccountTokens, TokenRows
  <2>3. CASE closed' = closed  BY <2>0, <2>3
  <2> QED
    BY <2>1, <2>2, <2>3 DEF SessActs, SessRequests, Challenge, ReadPubkey, FindPresented, FindForLogout,
     ReadDevice, RotateRevokes, Insert, Answer, VerifyNonce,
     ConsumeNonce, MarkRevoked, RevokeDeviceTokens, sessVars
<1> QED  BY <1>0, <1>2, <1>3, <1>4, <1>5, <1>6, <1>7 DEF SessTyped, SessTypeOK, Made

\* Every step keeps the invariant of the rows.
LEMMA RowsStep ==
    ASSUME SessTyped, RowsInv, NEW t \in Tasks, SessActs(t)
    PROVE  RowsInv'
<1>0. /\ SessTypeOK /\ t \in TokenIds /\ token \in [TokenIds -> TokenRows]
      /\ held \subseteq TokenIds /\ \A i \in held : Made(i)
  BY DEF SessTyped, SessTypeOK, TokenIds, Made
<1>m. /\ \A u \in Tasks \ {t} : task'[u] = task[u]
      /\ task'[t].at # "new" /\ task[t] # Failed
      /\ task' \in [Tasks -> SessTasks]
  BY SessMoves
<1>s. /\ \A i \in TokenIds : Made(i) => Stays(i)
      /\ \A i \in TokenIds : Made(i)' => Stays(i) \/ (i = t /\ Insert(t))
      /\ \A f : Known(f) => Known(f)'
      /\ \A n \in Tasks : Over(n, "challenge") => Over(n, "challenge")'
  BY RowsStay
<1>g. \A p : Goes(t, p) /\ Working(t) =>
          /\ task'[t].at = p /\ task'[t].op = task[t].op
          /\ task[t].op \in {"rotate", "logout"} => task'[t].presented = task[t].presented
          /\ task[t].op = "login" => task'[t].signed = task[t].signed
  BY SessGoes
<1>1. \A u \in Tasks : Made(u)' => \/ At(u, "answer")' \/ At(u, "failed")' \/ Over(u, "rotate")' \/ Over(u, "login")'
  <2> SUFFICES ASSUME NEW u \in Tasks, Made(u)'
               PROVE  At(u, "answer")' \/ At(u, "failed")' \/ Over(u, "rotate")' \/ Over(u, "login")'
    OBVIOUS
  <2>1. CASE u # t
    <3>1. Made(u)  BY <2>1, <1>s DEF Stays, TokenIds
    <3> QED  BY <2>1, <3>1, <1>m DEF RowsInv, At, Over
  <2>2. CASE u = t /\ Insert(t)  BY <2>2, InsertMoves DEF At
  <2>3. CASE u = t /\ ~Insert(t)
    <3>1. Made(t)  BY <2>3, <1>0, <1>s DEF Stays
    <3>2. Answer(t)
      <4>1. At(t, "answer") \/ At(t, "failed") \/ At(t, "over")  BY <3>1 DEF RowsInv, Over, At
      <4> QED
        BY <4>1 DEF SessActs, SessRequests, Challenge, ReadPubkey, FindPresented, FindForLogout, ReadDevice,
           CloseFamily, RotateRevokes, Insert, VerifyNonce, ConsumeNonce, MarkRevoked,
           RevokeDeviceTokens, RevokeAllAccountTokens, Begins, At, New
    <3>3. Working(t) /\ task[t].op \in {"rotate", "login"} /\ Goes(t, "over")
      BY <3>2, SessPlaces DEF Answer, Working, At, Failed
    <3> QED  BY <2>3, <3>3, <1>g DEF At, Over
  <2> QED  BY <2>1, <2>2, <2>3
<1>2. \A u \in Tasks : At(u, "answer")' => Made(u)'
  <2> SUFFICES ASSUME NEW u \in Tasks, At(u, "answer")' PROVE Made(u)'  OBVIOUS
  <2>1. CASE u # t  BY <2>1, <1>m, <1>s DEF RowsInv, At, Stays, TokenIds
  <2>2. CASE u = t /\ Insert(t)  BY <2>2, InsertMoves DEF Live, Made
  <2>3. CASE u = t /\ ~Insert(t)
    <3>1. task'[t].at # "answer"
      <4>1. CASE SessRequests(t) \/ RevokeAllAccountTokens(t)  BY <4>1, SessStarts DEF Opens
      <4>2. CASE \/ CloseFamily(t) \/ RotateRevokes(t) \/ Answer(t) \/ VerifyNonce(t)
                 \/ ConsumeNonce(t) \/ MarkRevoked(t) \/ RevokeDeviceTokens(t)
        <5>1. \E p \in {"over", "insert", "consume", "failed", "tokens"} : Goes(t, p) /\ Working(t)
          BY <4>2 DEF CloseFamily, RotateRevokes, Answer, VerifyNonce, ConsumeNonce, MarkRevoked,
             RevokeDeviceTokens, Working, At, Failed
        <5> QED  BY <5>1, <1>g
      <4> QED  BY <2>3, <4>1, <4>2 DEF SessActs
    <3> QED  BY <2>3, <3>1 DEF At
  <2> QED  BY <2>1, <2>2, <2>3
<1>3. \A i \in TokenIds : Made(i)' => Known(token[i].family)'
  <2> SUFFICES ASSUME NEW i \in TokenIds, Made(i)' PROVE Known(token[i].family)'  OBVIOUS
  <2>1. PICK f : f = token'[i].family  OBVIOUS
  <2>2. Known(f)  BY <1>s, <2>1, InsertMoves DEF RowsInv, Stays
  <2>3. Known(f)'  BY <2>2, <1>s
  <2> QED  BY <2>1, <2>3 DEF Known
<1>4. \A f \in closed' : Known(f)'
  <2>1. CASE CloseFamily(t)
    <3>1. task[t].presented \in TokenIds /\ Made(task[t].presented)
      BY <2>1, SessPlaces DEF CloseFamily, At, Working, Failed, RowsInv, Carries
    <3> QED  BY <2>1, <3>1, <1>s DEF CloseFamily, RevokeFamily, RowsInv
  <2>2. CASE RevokeAllAccountTokens(t)  BY <2>2, <1>s DEF RevokeAllAccountTokens, RowsInv, Made
  <2>3. CASE closed' = closed  BY <2>3, <1>s DEF RowsInv
  <2> QED
    BY <2>1, <2>2, <2>3 DEF SessActs, SessRequests, Challenge, ReadPubkey, FindPresented, FindForLogout,
     ReadDevice, RotateRevokes, Insert, Answer, VerifyNonce,
     ConsumeNonce, MarkRevoked, RevokeDeviceTokens, sessVars
<1>n. At(t, "new") => \/ Challenge(t) \/ ReadPubkey(t) \/ FindPresented(t) \/ FindForLogout(t)
                      \/ ReadDevice(t) \/ RevokeAllAccountTokens(t)
  BY DEF SessActs, SessRequests, CloseFamily, RotateRevokes, Insert, Answer, VerifyNonce, ConsumeNonce,
         MarkRevoked, RevokeDeviceTokens, At
<1>w. ~At(t, "new") => Working(t) /\ \E p : Goes(t, p)
  BY <1>m DEF SessActs, SessRequests, CloseFamily, RotateRevokes, Insert, Answer, VerifyNonce,
         ConsumeNonce, MarkRevoked, RevokeDeviceTokens, RevokeAllAccountTokens, Challenge, ReadPubkey,
         FindPresented, FindForLogout, ReadDevice, Begins, Working, At, New
<1>o. \A u \in Tasks \ {t} : \A op : Carries(u, op)' => Carries(u, op)
  BY <1>m DEF Carries, Working, At
<1>5. \A u \in Tasks : (Carries(u, "rotate") \/ Carries(u, "logout"))' => Made(task[u].presented)'
  <2> SUFFICES ASSUME NEW u \in Tasks, (Carries(u, "rotate") \/ Carries(u, "logout"))'
               PROVE  Made(task[u].presented)'
    OBVIOUS
  <2>1. \A i \in TokenIds : Made(i) => Made(i)'  BY <1>s DEF Stays
  <2> SUFFICES \E i \in TokenIds : i = task'[u].presented /\ Made(i)  BY <2>1 DEF Made
  <2>2. CASE u # t
    <3>1. (Carries(u, "rotate") \/ Carries(u, "logout")) /\ task'[u] = task[u]
      BY <2>2, <1>m, <1>o DEF Carries, Working, At
    <3> QED  BY <3>1, SessPlaces DEF RowsInv, Carries
  <2>3. CASE u = t /\ ~At(t, "new")
    <3>1. PICK p : Goes(t, p)  BY <2>3, <1>w
    <3>2. Working(t) /\ task'[t].op = task[t].op /\ task[t].op \in {"rotate", "logout"}
          /\ task'[t].presented = task[t].presented
      BY <2>3, <3>1, <1>w, <1>g DEF Carries
    <3> QED  BY <2>3, <3>2, SessPlaces DEF RowsInv, Carries
  <2>4. CASE u = t /\ At(t, "new")
    <3>1. task'[t].presented \in held  BY <2>4, <1>n, SessStarts DEF Opens, Carries, SessRequests
    <3> QED  BY <2>4, <3>1, <1>0
  <2> QED  BY <2>2, <2>3, <2>4
<1>6. \A u \in Tasks : Carries(u, "login")' => Over(task[u].signed, "challenge")'
  <2> SUFFICES ASSUME NEW u \in Tasks, Carries(u, "login")'
               PROVE  \E n \in Tasks : n = task'[u].signed /\ Over(n, "challenge")
    BY <1>s DEF Over, At
  <2>2. CASE u # t
    <3>1. Carries(u, "login") /\ task'[u] = task[u]  BY <2>2, <1>m, <1>o DEF Carries, Working, At
    <3> QED  BY <3>1, SessPlaces DEF RowsInv, Carries
  <2>3. CASE u = t /\ ~At(t, "new")
    <3>1. PICK p : Goes(t, p)  BY <2>3, <1>w
    <3>2. Working(t) /\ task[t].op = "login" /\ task'[t].signed = task[t].signed
      BY <2>3, <3>1, <1>w, <1>g DEF Carries
    <3> QED  BY <2>3, <3>2, SessPlaces DEF RowsInv, Carries
  <2>4. CASE u = t /\ At(t, "new")  BY <2>4, <1>n, SessStarts DEF Opens, Carries, SessRequests
  <2> QED  BY <2>2, <2>3, <2>4
<1>7. nonce' # NoNonce => Over(nonce, "challenge")'
  <2> SUFFICES ASSUME nonce' # NoNonce PROVE \E n \in Tasks : n = nonce' /\ Over(n, "challenge")'
    BY DEF Over, At
  <2>1. CASE Challenge(t)
    <3>1. task'[t].op = "challenge" /\ task'[t].at = "over" /\ nonce' = t
      BY <2>1, SessBegins DEF Challenge
    <3> QED  BY <3>1 DEF Over, At
  <2>2. CASE nonce' = nonce  BY <2>2, <1>0, <1>s DEF RowsInv, SessTypeOK
  <2>3. CASE nonce' = NoNonce  BY <2>3
  <2> QED
    BY <2>1, <2>2, <2>3 DEF SessActs, SessRequests, ReadPubkey, FindPresented, FindForLogout,
     ReadDevice, CloseFamily, RotateRevokes, Insert, Answer, VerifyNonce,
     ConsumeNonce, DropNonce, MarkRevoked, RevokeDeviceTokens, RevokeAllAccountTokens, sessVars
<1>8. signedOut' \/ (\E u \in Tasks : At(u, "tokens")') => revokedAt'
  <2>1. revokedAt => revokedAt'
    BY DEF SessActs, SessRequests, Challenge, ReadPubkey, FindPresented, FindForLogout,
     ReadDevice, CloseFamily, RotateRevokes, Insert, Answer, VerifyNonce,
     ConsumeNonce, MarkRevoked, RevokeDeviceTokens, RevokeAllAccountTokens, sessVars
  <2>2. CASE MarkRevoked(t)  BY <2>2 DEF MarkRevoked
  <2>3. CASE RevokeDeviceTokens(t)  BY <2>1, <2>3 DEF RevokeDeviceTokens, RowsInv
  <2>4. CASE ~MarkRevoked(t) /\ ~RevokeDeviceTokens(t)
    <3>1. signedOut' = signedOut
      BY <2>4 DEF SessActs, SessRequests, Challenge, ReadPubkey, FindPresented, FindForLogout,
       ReadDevice, CloseFamily, RotateRevokes, Insert, Answer, VerifyNonce,
       ConsumeNonce, RevokeAllAccountTokens, sessVars
    <3>2. task'[t].at # "tokens"
      <4>1. CASE SessRequests(t) \/ RevokeAllAccountTokens(t)  BY <4>1, SessStarts DEF Opens
      <4>2. CASE \/ CloseFamily(t) \/ RotateRevokes(t) \/ Insert(t) \/ Answer(t) \/ VerifyNonce(t)
                 \/ ConsumeNonce(t)
        <5>1. \E p \in {"over", "insert", "answer", "consume", "failed"} : Goes(t, p) /\ Working(t)
          BY <4>2 DEF CloseFamily, RotateRevokes, Insert, Answer, VerifyNonce, ConsumeNonce,
             Working, At, Failed
        <5> QED  BY <5>1, <1>g
      <4> QED  BY <2>4, <4>1, <4>2 DEF SessActs
    <3> QED  BY <2>1, <3>1, <3>2, <1>m DEF RowsInv, At
  <2> QED  BY <2>2, <2>3, <2>4
<1> QED  BY <1>1, <1>2, <1>3, <1>4, <1>5, <1>6, <1>7, <1>8 DEF RowsInv, At

\* The call is past its checks and will still insert a token.
AboutToInsert(t) == task[t].at \in {"revoke", "nonce", "consume", "insert"}

Ended(f) == signedOut \/ f \in closed

\* A revocation leaves the families of those calls among the escaped.  SignedOutStaysOut alone
\* says nothing of them.
EndInv ==
    /\ SignedOutStaysOut
    /\ \A t \in Tasks : AboutToInsert(t) /\ Ended(FamilyOf(t)) => FamilyOf(t) \in escaped

\* The family of a call is that of a row that stays, or its own.
LEMMA FamilyStays ==
    ASSUME SessTyped, RowsInv, NEW t \in Tasks, SessActs(t), NEW u \in Tasks, AboutToInsert(u),
           u = t => AboutToInsert(t)'
    PROVE  FamilyOf(u)' = FamilyOf(u)
<1>1. /\ \A v \in Tasks \ {t} : task'[v] = task[v]
      /\ \A i \in TokenIds : Made(i) => Stays(i)
  BY SessMoves, RowsStay
<1>2. Working(u) /\ task[u].op \in {"rotate", "login"}
  BY SessPlaces DEF AboutToInsert, Working, At, Failed
<1>3. task'[u].op = task[u].op /\ (task[u].op = "rotate" => task'[u].presented = task[u].presented)
  <2>1. CASE u # t  BY <1>1, <2>1
  <2>2. CASE u = t
    <3>1. ~At(t, "new")  BY <2>2 DEF AboutToInsert, At
    <3>2. \E p : Goes(t, p)
      BY <3>1 DEF SessActs, SessRequests, CloseFamily, RotateRevokes, Insert, Answer, VerifyNonce,
         ConsumeNonce, MarkRevoked, RevokeDeviceTokens, RevokeAllAccountTokens, Challenge, ReadPubkey,
         FindPresented, FindForLogout, ReadDevice, Begins, At, New
    <3> QED  BY <1>2, <2>2, <3>2, SessGoes
  <2> QED  BY <2>1, <2>2
<1>4. task[u].op = "rotate" => task[u].presented \in TokenIds /\ Stays(task[u].presented)
  BY <1>1, <1>2, SessPlaces DEF RowsInv, Carries
<1> QED  BY <1>2, <1>3, <1>4 DEF FamilyOf, Stays

\* A family that ended stays ended.
LEMMA EndStep ==
    ASSUME SessTyped, RowsInv, EndInv, NEW t \in Tasks, SessActs(t)
    PROVE  EndInv'
<1>0. /\ token \in [TokenIds -> TokenRows] /\ t \in TokenIds /\ \A i \in held : i \in TokenIds /\ Made(i)
  BY DEF SessTyped, SessTypeOK, TokenIds, Made
<1>m. /\ \A v \in Tasks \ {t} : task'[v] = task[v]
      /\ \A i \in TokenIds : Made(i) => Stays(i)
      /\ \A i \in TokenIds : Made(i)' => Stays(i) \/ (i = t /\ Insert(t))
      /\ ~At(t, "insert") => \A i \in TokenIds : Stays(i)
      /\ At(t, "insert") => Insert(t)
  BY SessMoves, RowsStay
<1>f. \A u \in Tasks : AboutToInsert(u) => FamilyOf(u) \in Pending  BY DEF AboutToInsert, Pending
<1>e. escaped \subseteq escaped'
  BY DEF SessActs, SessRequests, CloseFamily, RevokeFamily, RotateRevokes, Insert, Answer, VerifyNonce,
         ConsumeNonce, MarkRevoked, RevokeDeviceTokens, RevokeAllAccountTokens, Challenge, ReadPubkey,
         FindPresented, FindForLogout, ReadDevice, sessVars
<1>k. \A u \in Tasks : AboutToInsert(u)' => \/ u # t /\ AboutToInsert(u)
                                            \/ u = t /\ AboutToInsert(t)
                                            \/ u = t /\ At(t, "new")
  <2> SUFFICES ASSUME AboutToInsert(t)', ~At(t, "new") PROVE AboutToInsert(t)
    BY <1>m DEF AboutToInsert
  <2>1. SessRequests(t) \/ RevokeAllAccountTokens(t) => FALSE  BY SessStarts
  <2>2. Working(t)  BY SessMoves DEF Working
  <2>3. ~CloseFamily(t) /\ ~Answer(t) /\ ~MarkRevoked(t) /\ ~RevokeDeviceTokens(t)
    <3>1. \A p : Goes(t, p) => task'[t].at = p  BY <2>2, SessGoes
    <3> QED  BY <3>1 DEF CloseFamily, Answer, MarkRevoked, RevokeDeviceTokens, AboutToInsert
  <2> QED
    BY <2>1, <2>3 DEF SessActs, RotateRevokes, Insert, VerifyNonce, ConsumeNonce, AboutToInsert, At
<1>q. \/ CloseFamily(t) \/ RevokeDeviceTokens(t) \/ RevokeAllAccountTokens(t)
      \/ UNCHANGED <<closed, signedOut, escaped>>
  BY DEF SessActs, SessRequests, RotateRevokes, Insert, Answer, VerifyNonce, ConsumeNonce, MarkRevoked,
         Challenge, ReadPubkey, FindPresented, FindForLogout, ReadDevice, sessVars
<1>1. ASSUME NEW u \in Tasks, AboutToInsert(u), NEW f, f = FamilyOf(u), Ended(f)'
      PROVE  f \in escaped'
  <2>0. f \in Pending /\ (Ended(f) => f \in escaped)  BY <1>f, <1>1 DEF EndInv
  <2>1. CASE CloseFamily(t)  BY <2>0, <2>1, <1>1, <1>e DEF CloseFamily, RevokeFamily, Ended
  <2>2. CASE RevokeDeviceTokens(t) \/ RevokeAllAccountTokens(t)
    BY <2>0, <2>2 DEF RevokeDeviceTokens, RevokeAllAccountTokens
  <2>3. CASE UNCHANGED <<closed, signedOut, escaped>>  BY <2>0, <2>3, <1>1 DEF Ended
  <2> QED  BY <2>1, <2>2, <2>3, <1>q
<1>2. ASSUME NEW i \in TokenIds, Live(i)', Stays(i), NEW f, f = token[i].family, Ended(f)'
      PROVE  f \in escaped'
  <2>0. Live(i)  BY <1>2 DEF Stays
  <2>1. CASE CloseFamily(t)
    <3>1. f # token[task[t].presented].family
      BY <2>1, <1>2, RevokeType DEF CloseFamily, RevokeFamily
    <3>2. Ended(f)  BY <2>1, <3>1, <1>2 DEF CloseFamily, RevokeFamily, Ended
    <3> QED  BY <2>0, <3>2, <1>2, <1>e DEF EndInv, SignedOutStaysOut, Ended
  <2>2. CASE RevokeDeviceTokens(t) \/ RevokeAllAccountTokens(t)
    BY <2>2, <1>2, RevokeType DEF RevokeDeviceTokens, RevokeAllAccountTokens
  <2>3. CASE UNCHANGED <<closed, signedOut, escaped>>
    BY <2>0, <2>3, <1>2 DEF Ended, EndInv, SignedOutStaysOut
  <2> QED  BY <2>1, <2>2, <2>3, <1>q
<1>3. SignedOutStaysOut'
  <2> SUFFICES ASSUME NEW i \in TokenIds, Live(i)', NEW f, f = token'[i].family, Ended(f)'
               PROVE  f \in escaped'
    BY DEF SignedOutStaysOut, Ended
  <2>1. CASE Stays(i)  BY <2>1, <1>2 DEF Stays
  <2>2. CASE i = t /\ Insert(t)
    <3>1. f = FamilyOf(t) /\ AboutToInsert(t)  BY <2>2, InsertMoves DEF AboutToInsert, Insert, At
    <3> QED  BY <3>1, <1>1
  <2>3. Made(i)'  BY DEF Live, Made
  <2> QED  BY <2>1, <2>2, <2>3, <1>m
<1>4. ASSUME NEW u \in Tasks, AboutToInsert(u)', Ended(FamilyOf(u))'
      PROVE  FamilyOf(u)' \in escaped'
  <2>1. CASE AboutToInsert(u)
    <3>1. PICK f : f = FamilyOf(u)  OBVIOUS
    <3>2. FamilyOf(u)' = f  BY <2>1, <3>1, <1>4, FamilyStays
    <3>3. Ended(f)'  BY <3>2, <1>4 DEF Ended
    <3> QED  BY <2>1, <3>1, <3>2, <3>3, <1>1
  <2>2. CASE u = t /\ At(t, "new")
    <3>1. SessRequests(t)
      BY <2>2, <1>4, SessBegins DEF SessActs, RevokeAllAccountTokens, CloseFamily, RotateRevokes, Insert,
         Answer, VerifyNonce, ConsumeNonce, MarkRevoked, RevokeDeviceTokens, At, AboutToInsert
    <3>2. UNCHANGED <<closed, signedOut, escaped, token>> /\ Opens(task'[t])
      BY <3>1, SessStarts DEF SessRequests, Challenge, ReadPubkey, FindPresented, FindForLogout, ReadDevice, sessVars
    <3>3. task'[t].at \in {"revoke", "nonce"}  BY <2>2, <1>4, <3>2 DEF Opens, AboutToInsert
    <3>4. CASE task'[t].at = "revoke"
      <4>1. task'[t].presented \in held /\ task'[t].op = "rotate" /\ token[task'[t].presented].state # "revoked"
        BY <3>2, <3>4 DEF Opens
      <4>2. PICK i \in TokenIds : i = task'[t].presented /\ Live(i)
        BY <1>0, <4>1 DEF Made, Live, TokenRows
      <4>3. FamilyOf(t)' = token[i].family  BY <3>2, <4>1, <4>2 DEF FamilyOf
      <4> QED  BY <2>2, <3>2, <4>2, <4>3, <1>4 DEF EndInv, SignedOutStaysOut, Ended
    <3>5. CASE task'[t].at = "nonce"
      <4>1. ~revokedAt /\ task'[t].op = "login"  BY <3>2, <3>5 DEF Opens
      <4>2. FamilyOf(t)' = t  BY <4>1 DEF FamilyOf
      <4>3. t \notin closed /\ ~signedOut  BY <2>2, <4>1, SessionsAssumption DEF RowsInv, Known
      <4> QED  BY <2>2, <3>2, <4>2, <4>3, <1>4 DEF Ended
    <3> QED  BY <3>3, <3>4, <3>5
  <2> QED  BY <2>1, <2>2, <1>k, <1>4
<1> QED  BY <1>3, <1>4 DEF EndInv

\* The token or the challenge a call turns into a new token.
Source(t) == IF task[t].op = "rotate" THEN task[t].presented ELSE task[t].signed

\* The call has used it up, or has read it and is about to.
Uses(t, x) == (Made(t) /\ token[t].from = x) \/ (At(t, "insert") /\ Source(t) = x)
May(t, x)  == (At(t, "revoke") /\ task[t].presented = x) \/ (At(t, "consume") /\ task[t].signed = x)

\* What was used up cannot be read any more, and the calls that read it before are racing.
Given(x) == x \in Tasks /\ Over(x, "challenge")
Spent(x) == ~Live(x) /\ (x \in Tasks => nonce # x) /\ (Made(x) \/ Given(x))
OnceInv ==
    \A t \in Tasks, x \in TokenIds :
        Uses(t, x) => /\ Spent(x)
                      /\ \A u \in Tasks \ {t} : Uses(u, x) \/ May(u, x) => {t, u} \cap racing # {}

\* A call that used something up had read it, or had used it before.
LEMMA UsesAfter ==
    ASSUME SessTyped, RowsInv, NEW t \in Tasks, SessActs(t), NEW u \in Tasks, NEW x, Uses(u, x)'
    PROVE  Uses(u, x) \/ (u = t /\ May(t, x) /\ (RotateRevokes(t) \/ ConsumeNonce(t)))
<1>m. /\ \A v \in Tasks \ {t} : task'[v] = task[v]
      /\ \A i \in TokenIds : Made(i) => Stays(i)
      /\ \A i \in TokenIds : Made(i)' => Stays(i) \/ (i = t /\ Insert(t))
      /\ u \in TokenIds
  BY SessMoves, RowsStay DEF TokenIds
<1>1. CASE Insert(t) /\ u = t
  <2>1. At(t, "insert") /\ task'[t].at = "answer"
        /\ token'[t].from = IF task[t].op = "rotate" THEN task[t].presented ELSE task[t].signed
    BY <1>1, InsertMoves DEF Insert
  <2>2. token'[t].from = x  BY <1>1, <2>1 DEF Uses, At
  <2> QED  BY <1>1, <2>1, <2>2 DEF Uses, Source
<1>2. CASE ~(Insert(t) /\ u = t) /\ Made(u)' /\ token'[u].from = x  BY <1>2, <1>m DEF Uses, Stays
<1>3. CASE u # t /\ At(u, "insert")' /\ Source(u)' = x  BY <1>3, <1>m DEF Uses, Source, At
<1>4. CASE u = t /\ ~Insert(t) /\ At(t, "insert")' /\ Source(t)' = x
  <2>1. ~SessRequests(t) /\ ~RevokeAllAccountTokens(t)  BY <1>4, SessStarts DEF Opens, At
  <2>2. \A p : Goes(t, p) /\ ~At(t, "new") => p = "insert"
    BY <1>4, SessGoes, SessMoves DEF Working, At
  <2>3. RotateRevokes(t) \/ ConsumeNonce(t)
    BY <1>4, <2>1, <2>2 DEF SessActs, CloseFamily, Answer, VerifyNonce, MarkRevoked, RevokeDeviceTokens, At
  <2>4. Working(t) /\ Goes(t, "insert")
    BY <2>3, SessMoves DEF RotateRevokes, ConsumeNonce, Working, At
  <2>5. May(t, x)
    <3>1. CASE RotateRevokes(t)
      <4>1. At(t, "revoke") /\ task[t].op = "rotate"  BY <3>1, SessPlaces DEF RotateRevokes
      <4> QED  BY <1>4, <2>4, <4>1, SessGoes DEF May, Source
    <3>2. CASE ConsumeNonce(t)
      <4>1. At(t, "consume") /\ task[t].op = "login"  BY <3>2, SessPlaces DEF ConsumeNonce
      <4> QED  BY <1>4, <2>4, <4>1, SessGoes DEF May, Source
    <3> QED  BY <2>3, <3>1, <3>2
  <2> QED  BY <1>4, <2>3, <2>5
<1> QED  BY <1>1, <1>2, <1>3, <1>4 DEF Uses

\* What a call is about to use up was there when it read it.
LEMMA MayAfter ==
    ASSUME SessTyped, RowsInv, NEW t \in Tasks, SessActs(t), NEW u \in Tasks, NEW x, May(u, x)'
    PROVE  May(u, x) \/ (u = t /\ (Live(x) \/ (x \in Tasks /\ nonce = x)))
<1>1. CASE u # t  BY <1>1, SessMoves DEF May, At
<1>2. CASE u = t /\ (SessRequests(t) \/ RevokeAllAccountTokens(t))
  <2>1. Opens(task'[t])  BY <1>2, SessStarts
  <2>2. task'[t].at = "revoke" /\ task'[t].presented = x  BY <1>2, <2>1 DEF Opens, May, At
  <2>3. x \in held /\ token[x].state # "revoked"  BY <2>1, <2>2 DEF Opens
  <2>4. x \in TokenIds /\ token[x].state \in {"none", "live", "revoked"} /\ token[x].state # "none"
    BY <2>3 DEF SessTyped, SessTypeOK, TokenRows
  <2> QED  BY <1>2, <2>3, <2>4 DEF Live
<1>3. CASE u = t /\ VerifyNonce(t)
  <2>1. At(t, "nonce") /\ Working(t) /\ task[t].op = "login"
    BY <1>3, SessPlaces, SessMoves DEF VerifyNonce, Working, At
  <2>2. Goes(t, "consume") /\ nonce = task[t].signed
    BY <1>3, <2>1, SessGoes DEF VerifyNonce, May, At
  <2>3. task'[t].signed = x /\ task[t].signed \in Tasks
    BY SessPlaces, <1>3, <2>1, <2>2, SessGoes DEF May, At
  <2> QED  BY <1>3, <2>1, <2>2, <2>3, SessGoes
<1>4. CASE u = t /\ ~SessRequests(t) /\ ~RevokeAllAccountTokens(t) /\ ~VerifyNonce(t)
  <2>1. Working(t) /\ \E p \in {"over", "insert", "answer", "tokens"} : Goes(t, p)
    BY <1>4, SessMoves DEF SessActs, CloseFamily, RotateRevokes, Insert, Answer, ConsumeNonce, MarkRevoked,
       RevokeDeviceTokens, Working, At
  <2> QED  BY <1>4, <2>1, SessGoes DEF May, At
<1> QED  BY <1>1, <1>2, <1>3, <1>4

\* A token is no challenge.
LEMMA TwoKinds ==
    ASSUME RowsInv, NEW x, Made(x)
    PROVE  ~Given(x)
BY DEF RowsInv, Given, Over, At

\* What one call uses up, every other call that had read it is racing for.
LEMMA RacesSeen ==
    ASSUME SessTyped, RowsInv, NEW t \in Tasks, RotateRevokes(t) \/ ConsumeNonce(t),
           NEW x \in TokenIds, May(t, x)
    PROVE  Spent(x)' /\ \A u \in Tasks \ {t} : May(u, x) => u \in racing'
<1>a. SessActs(t)  BY DEF SessActs
<1>m. /\ \A i \in TokenIds : Stays(i)
      /\ \A n \in Tasks : Over(n, "challenge") => Over(n, "challenge")'
  BY <1>a, SessMoves, RowsStay DEF RotateRevokes, ConsumeNonce, At
<1>1. CASE RotateRevokes(t)
  <2>1. At(t, "revoke") /\ task[t].op = "rotate" /\ Working(t) /\ task[t].presented = x
    BY <1>1, SessPlaces DEF RotateRevokes, May, At, Working, Failed
  <2>2. Made(x) /\ RevokeWhere({x}) /\ nonce' = nonce
    BY <1>1, <2>1 DEF RowsInv, Carries, RotateRevokes, RevokePresented
  <2>3. ~Given(x)  BY <2>2, TwoKinds
  <2>4. x \in Tasks => nonce # x  BY <2>3, SessionsAssumption DEF RowsInv, Given
  <2>5. Spent(x)'  BY <2>2, <2>4, <1>m, RevokeType DEF Spent, Stays
  <2>6. ASSUME NEW u \in Tasks \ {t}, May(u, x) PROVE u \in racing'
    <3>1. ~(At(u, "consume") /\ task[u].signed = x)
      BY <2>3, SessPlaces DEF RowsInv, Carries, Given, Working, At, Failed
    <3> QED  BY <1>1, <2>1, <2>6, <3>1 DEF RotateRevokes, May
  <2> QED  BY <2>5, <2>6
<1>2. CASE ConsumeNonce(t)
  <2>1. At(t, "consume") /\ task[t].op = "login" /\ Working(t) /\ task[t].signed = x
    BY <1>2, SessPlaces DEF ConsumeNonce, May, At, Working, Failed
  <2>2. Given(x) /\ token' = token /\ nonce' = NoNonce
    BY <1>2, <2>1, SessPlaces DEF RowsInv, Carries, ConsumeNonce, DropNonce, Given
  <2>3. ~Made(x)  BY <2>2, TwoKinds
  <2>5. Spent(x)'  BY <2>2, <2>3, <1>m, SessionsAssumption DEF Spent, Given, Made, Live
  <2>6. ASSUME NEW u \in Tasks \ {t}, May(u, x) PROVE u \in racing'
    <3>1. ~(At(u, "revoke") /\ task[u].presented = x)
      BY <2>3, SessPlaces DEF RowsInv, Carries, Working, At, Failed
    <3> QED  BY <1>2, <2>1, <2>6, <3>1 DEF ConsumeNonce, May
  <2> QED  BY <2>5, <2>6
<1> QED  BY <1>1, <1>2

\* What was used up stays so.
LEMMA SpentStays ==
    ASSUME SessTyped, RowsInv, NEW t \in Tasks, SessActs(t), NEW x \in TokenIds, Spent(x)
    PROVE  Spent(x)'
<1>m. /\ Made(x) => Stays(x)
      /\ Made(x)' => Stays(x) \/ (x = t /\ Insert(t))
      /\ Given(x) => Given(x)'
  BY RowsStay DEF Given
<1>1. ~Live(x)'
  <2>1. CASE Made(x)  BY <2>1, <1>m DEF Spent, Stays
  <2>2. CASE Given(x)  BY <2>2, <1>m DEF Spent, Stays, Insert, Given, Over, At, Live, Made
  <2> QED  BY <2>1, <2>2 DEF Spent
<1>2. x \in Tasks => nonce' # x
  <2>1. CASE Challenge(t)  BY <2>1, SessBegins DEF Challenge, Spent, Given, Over, At, RowsInv
  <2>2. CASE nonce' = nonce  BY <2>2 DEF Spent
  <2>3. CASE ConsumeNonce(t)
    <3>1. x \in Tasks => NoNonce # x  BY SessionsAssumption
    <3> QED  BY <2>3, <3>1 DEF ConsumeNonce, DropNonce
  <2> QED
    BY <2>1, <2>2, <2>3 DEF SessActs, SessRequests, ReadPubkey, FindPresented, FindForLogout,
     ReadDevice, CloseFamily, RotateRevokes, Insert, Answer, VerifyNonce,
     MarkRevoked, RevokeDeviceTokens, RevokeAllAccountTokens, sessVars
<1> QED  BY <1>1, <1>2, <1>m DEF Spent, Stays

\* A token or a challenge used up is not used again.
LEMMA OnceStep ==
    ASSUME SessTyped, RowsInv, OnceInv, NEW t \in Tasks, SessActs(t)
    PROVE  OnceInv'
<1>r. racing \subseteq racing'
  BY DEF SessActs, SessRequests, Challenge, ReadPubkey, FindPresented, FindForLogout,
     ReadDevice, CloseFamily, RotateRevokes, Insert, Answer, VerifyNonce, ConsumeNonce,
     MarkRevoked, RevokeDeviceTokens, RevokeAllAccountTokens, sessVars
<1> SUFFICES ASSUME NEW u \in Tasks, NEW x \in TokenIds, Uses(u, x)'
             PROVE  /\ Spent(x)'
                    /\ \A v \in Tasks \ {u} : Uses(v, x)' \/ May(v, x)' => {u, v} \cap racing' # {}
  BY DEF OnceInv
<1>1. CASE Uses(u, x)
  <2>1. Spent(x) /\ Spent(x)'  BY <1>1, SpentStays DEF OnceInv
  <2>2. ASSUME NEW v \in Tasks \ {u}, Uses(v, x)' \/ May(v, x)'
        PROVE  Uses(v, x) \/ May(v, x)
    <3>1. Uses(v, x) \/ May(v, x) \/ Live(x) \/ (x \in Tasks /\ nonce = x)
      BY <2>2, UsesAfter, MayAfter
    <3> QED  BY <3>1, <2>1 DEF Spent
  <2> QED  BY <1>1, <1>r, <2>1, <2>2 DEF OnceInv
<1>2. CASE u = t /\ May(t, x) /\ (RotateRevokes(t) \/ ConsumeNonce(t))
  <2>1. Spent(x)' /\ \A v \in Tasks \ {t} : May(v, x) => v \in racing'  BY <1>2, RacesSeen
  <2>2. ASSUME NEW v \in Tasks \ {u}, Uses(v, x)' \/ May(v, x)'
        PROVE  {u, v} \cap racing' # {}
    <3>1. Uses(v, x) \/ May(v, x)  BY <1>2, <2>2, UsesAfter, MayAfter
    <3>2. CASE Uses(v, x)  BY <1>2, <2>2, <3>2, <1>r DEF OnceInv
    <3> QED  BY <1>2, <2>1, <2>2, <3>1, <3>2
  <2> QED  BY <2>1, <2>2
<1> QED  BY <1>1, <1>2, UsesAfter

\* What holds of the tokens of a device.
SessInv == SessTyped /\ RowsInv /\ EndInv /\ OnceInv

\* A call that fails leaves the rows as they are.
LEMMA SessFails ==
    ASSUME SessInv, NEW t \in Tasks, Fails(t), UNCHANGED sessVars
    PROVE  SessInv'
<1>1. /\ task'[t] = Failed /\ \A u \in Tasks \ {t} : task'[u] = task[u]
      /\ task' \in [Tasks -> SessTasks] /\ ~At(t, "new") /\ ~At(t, "over")
  BY DEF Fails, SessInv, SessTyped, SessTasks, At
<1>2. SessTyped'  BY <1>1 DEF SessInv, SessTyped, SessTypeOK, sessVars, TokenIds
<1>3. \A n \in Tasks : \A op : Over(n, op) => Over(n, op)'  BY <1>1 DEF Over, At
<1>4. RowsInv'
  <2>1. \A f : Known(f) => Known(f)'  BY <1>1 DEF Known, At, Failed
  <2>2. \A u \in Tasks : Made(u)' => (At(u, "answer") \/ At(u, "failed") \/ Over(u, "rotate") \/ Over(u, "login"))'
    BY <1>1, <1>3 DEF SessInv, RowsInv, sessVars, Made, At, Failed, Over
  <2>3. \A u \in Tasks : At(u, "answer")' => Made(u)'
    BY <1>1 DEF SessInv, RowsInv, sessVars, Made, At, Failed
  <2>4. (\A i \in TokenIds : Made(i) => Known(token[i].family))' /\ (\A f \in closed : Known(f))'
    BY <2>1 DEF SessInv, RowsInv, sessVars, Made
  <2>5. ASSUME NEW u \in Tasks, NEW op, Carries(u, op)'
        PROVE  Carries(u, op) /\ task'[u] = task[u]
    BY <1>1, <2>5 DEF Carries, Working, At
  <2>6. \A u \in Tasks : (Carries(u, "rotate") \/ Carries(u, "logout"))' => Made(task[u].presented)'
    BY <2>5 DEF SessInv, RowsInv, sessVars, Made
  <2>7. ASSUME NEW u \in Tasks, Carries(u, "login")' PROVE Over(task[u].signed, "challenge")'
    <3>1. Over(task[u].signed, "challenge") /\ task[u].signed \in Tasks /\ task'[u].signed = task[u].signed
      BY <2>5, <2>7, SessPlaces DEF SessInv, RowsInv, Carries
    <3> QED  BY <1>3, <3>1 DEF Over, At
  <2>8. nonce' # NoNonce => Over(nonce, "challenge")'
    <3>1. nonce' = nonce /\ (nonce # NoNonce => nonce \in Tasks /\ Over(nonce, "challenge"))
      BY DEF SessInv, RowsInv, sessVars, SessTyped, SessTypeOK
    <3> QED  BY <1>3, <3>1 DEF Over, At
  <2>9. (signedOut \/ (\E u \in Tasks : At(u, "tokens")) => revokedAt)'
    BY <1>1 DEF SessInv, RowsInv, sessVars, At, Failed
  <2> QED  BY <2>2, <2>3, <2>4, <2>6, <2>7, <2>8, <2>9 DEF RowsInv
<1>5. EndInv'
  <2>1. ASSUME NEW u \in Tasks, AboutToInsert(u)', Ended(FamilyOf(u))' PROVE FamilyOf(u)' \in escaped'
    BY <1>1, <2>1 DEF SessInv, EndInv, AboutToInsert, Ended, FamilyOf, sessVars, Failed
  <2> QED  BY <2>1 DEF SessInv, EndInv, SignedOutStaysOut, Live, Ended, sessVars
<1>6. OnceInv'
  <2>1. ASSUME NEW u \in Tasks, NEW x, Uses(u, x)' PROVE Uses(u, x)
    BY <1>1, <2>1 DEF Uses, Made, Source, At, sessVars, Failed
  <2>2. ASSUME NEW u \in Tasks, NEW x, May(u, x)' PROVE May(u, x)
    BY <1>1, <2>2 DEF May, At, sessVars, Failed
  <2>3. ASSUME NEW x, Spent(x) PROVE Spent(x)'  BY <1>3, <2>3 DEF Spent, Live, Made, Given, sessVars
  <2>4. racing' = racing  BY DEF sessVars
  <2> QED  BY <2>1, <2>2, <2>3, <2>4 DEF SessInv, OnceInv
<1> QED  BY <1>2, <1>4, <1>5, <1>6 DEF SessInv

\* A challenge may run out at any time.
LEMMA SessExpires ==
    ASSUME SessInv, NonceExpires
    PROVE  SessInv'
<1> USE DEF NonceExpires, taskVars
<1>1. SessTyped'  BY DEF SessInv, SessTyped, SessTypeOK
<1>2. RowsInv'  BY DEF SessInv, RowsInv, At, Over, Made, Known, Carries, Working
<1>3. EndInv'  BY DEF SessInv, EndInv, SignedOutStaysOut, Live, AboutToInsert, Ended, FamilyOf
<1>4. OnceInv'
  <2>1. \A u, x : (Uses(u, x)' <=> Uses(u, x)) /\ (May(u, x)' <=> May(u, x))
    BY DEF Uses, May, Made, At, Source
  <2>2. \A x : Spent(x) => Spent(x)'  BY SessionsAssumption DEF Spent, Live, Made, Given, Over, At
  <2> QED  BY <2>1, <2>2 DEF SessInv, OnceInv
<1> QED  BY <1>1, <1>2, <1>3, <1>4 DEF SessInv

\* The invariant holds at first.
LEMMA SessStarted ==
    ASSUME TasksInit, SessInit
    PROVE  SessInv
<1> USE DEF TasksInit, SessInit
<1>0. First \in TokenIds /\ \A t \in Tasks : t # First /\ t \in TokenIds /\ task[t] = New
  BY SessionsAssumption DEF TokenIds
<1>1. \A i \in TokenIds : /\ token[i] \in TokenRows /\ token[i].family = i /\ token[i].from = i
                           /\ token[i].state = IF i = First THEN "live" ELSE "none"
  BY <1>0 DEF Absent, TokenRows
<1>2. SessTyped
  <2>1. token \in [TokenIds -> TokenRows]  BY <1>1
  <2>2. task \in [Tasks -> SessTasks]  BY DEF SessTasks
  <2>3. token[First].state = "live"  BY <1>0 DEF Absent
  <2>4. held \in SUBSET {i \in TokenIds : token[i].state # "none"}  BY <1>0, <2>3
  <2> QED  BY <1>0, <2>1, <2>2, <2>4 DEF SessTyped, SessTypeOK
<1>3. RowsInv  BY <1>0, <1>1 DEF RowsInv, Made, Known, Carries, Working, At, New
<1>4. EndInv  BY <1>0 DEF EndInv, SignedOutStaysOut, AboutToInsert, Ended, New
<1>5. OnceInv  BY <1>0, <1>1 DEF OnceInv, Uses, Made, At, New
<1> QED  BY <1>2, <1>3, <1>4, <1>5 DEF SessInv

\* One step, of a call or of the clock, keeps what holds of the tokens.
LEMMA SessStep ==
    ASSUME SessInv, [SessNext]_<<taskVars, sessVars>>
    PROVE  SessInv'
<1>1. CASE UNCHANGED <<taskVars, sessVars>>
  <2> USE <1>1 DEF taskVars, sessVars
  <2>1. SessTyped'  BY DEF SessInv, SessTyped, SessTypeOK
  <2>2. RowsInv'  BY DEF SessInv, RowsInv, At, Over, Made, Known, Carries, Working
  <2>3. EndInv'  BY DEF SessInv, EndInv, SignedOutStaysOut, Live, AboutToInsert, Ended, FamilyOf
  <2>4. OnceInv'  BY DEF SessInv, OnceInv, Uses, May, Spent, Given, Made, Live, Source, At, Over
  <2> QED  BY <2>1, <2>2, <2>3, <2>4 DEF SessInv
<1>2. CASE NonceExpires  BY <1>2, SessExpires
<1>3. ASSUME NEW t \in Tasks, SessActs(t) PROVE SessInv'
  BY <1>3, SessTypeStep, RowsStep, EndStep, OnceStep DEF SessInv
<1>4. ASSUME NEW t \in Tasks, Fails(t) /\ UNCHANGED sessVars PROVE SessInv'  BY <1>4, SessFails
<1> QED  BY <1>1, <1>2, <1>3, <1>4 DEF SessNext, SessActs

\* In every state SessInv holds.
LEMMA SessAlways == SessSpec => []SessInv
BY SessStarted, SessStep, PTL DEF SessSpec

\* The rows and the calls that work on them keep their types.
THEOREM SessionsTypeCorrect == SessSpec => []SessTypeOK
<1>1. SessInv => SessTypeOK  BY DEF SessInv, SessTyped
<1> QED  BY <1>1, SessAlways, PTL

\* Signed out means signed out, and a token or a challenge serves once, but for calls that had
\* read it before: rotateRefresh, revokeRefresh, revokeDevice and the login with a challenge,
\* none of which holds what it read.
THEOREM SessionsEndForGood == SessSpec => []SessionsEnd
<1>1. SessInv => SessionsEnd
  <2> SUFFICES ASSUME SessInv PROVE ServesTwiceOnlyByRace  BY DEF SessionsEnd, SessInv, EndInv
  <2> SUFFICES ASSUME NEW i \in Tasks, NEW j \in Tasks, i # j, Made(i), Made(j), token[i].from = token[j].from
               PROVE  {i, j} \cap racing # {}
    BY DEF ServesTwiceOnlyByRace, Made
  <2>1. token[i].from \in TokenIds  BY DEF SessInv, SessTyped, SessTypeOK, TokenRows, TokenIds
  <2> QED  BY <2>1 DEF SessInv, OnceInv, Uses
<1> QED  BY <1>1, SessAlways, PTL

----------------------------------------------------------------------------
(* Codes by SMS                                                            *)

OtpSpec == TasksInit /\ OtpInit /\ [][OtpNext]_<<taskVars, otpVars>>

\* What a call may stand at.
OtpTasks ==
    {New, Failed}
    \cup [op : {"send"}, at : {"put", "resend", "allow", "window", "autogen", "reset", "release", "over"}]
    \cup [op : {"verify"}, at : {"active", "failed", "count"}]
    \cup [op : {"verify"}, n : Nat, at : {"expire", "judge", "ask", "drop", "clear", "over", "failed"}]

OtpTyped == OtpTypeOK /\ task \in [Tasks -> OtpTasks] /\ failures \in Nat

\* Counted in the count there is, and not too many.
Fresh == {t \in Counted \ outlived : task[t].n <= MaxVerifyAttempts}
Room  == IF attempts.n < MaxVerifyAttempts THEN attempts.n ELSE MaxVerifyAttempts

\* What was asked for the code in force and what may still be asked is within the count.
CountInv ==
    /\ IsFiniteSet(Fresh) /\ Cardinality(Fresh) <= Room
    /\ code \notin crossed => asked[code] + Cardinality(Fresh) <= Room
    /\ \A c \in Codes \ crossed : asked[c] <= MaxVerifyAttempts

\* A code is asked for only after it was made; who asks is not one too many.
AskInv ==
    /\ \A t \in Tasks : code = t \/ asked[t] > 0
                            => task[t].at \notin {"new", "resend", "allow", "window", "autogen"}
    /\ \A t \in Tasks : At(t, "ask") => task[t].n <= MaxVerifyAttempts

\* While the mutex lasts one send is at work, and past the guard no code is hasty.
SendInv ==
    ~lapsed /\ failures = 0 /\ ~devPhone =>
        /\ \A t, u \in Holding : t = u
        /\ Holding # {} => mutex
        /\ \A u \in hasty : At(u, "put") \/ (active.recent /\ active.by = u)
        /\ \A u, v \in hasty : u = v
        /\ \A t \in Tasks : task[t].at \in {"allow", "window", "autogen"} => hasty = {}
        /\ \A t \in Tasks : At(t, "put") => hasty \subseteq {t}

\* The dev number takes no mutex and asks for no code.
DevPhoneInv ==
    devPhone => /\ hasty = {}
                /\ \A t \in Tasks : task[t].at \notin {"resend", "allow", "window", "autogen", "release"}

OtpInv == OtpTyped /\ CountInv /\ AskInv /\ SendInv /\ DevPhoneInv /\ CountersLapse

\* The steps a call takes after its first and before it is counted or fails.
OtpSteps ==
    {<<"release", "over">>, <<"resend", "release">>, <<"resend", "allow">>, <<"allow", "window">>,
     <<"allow", "release">>, <<"allow", "autogen">>, <<"window", "autogen">>, <<"autogen", "put">>,
     <<"autogen", "release">>, <<"put", "reset">>, <<"reset", "over">>, <<"reset", "release">>,
     <<"active", "failed">>, <<"active", "count">>, <<"expire", "judge">>, <<"judge", "drop">>,
     <<"judge", "ask">>, <<"ask", "failed">>, <<"ask", "drop">>, <<"drop", "clear">>, <<"clear", "over">>}

\* What is known of a call by where it stands.
LEMMA OtpPlaces ==
    ASSUME OtpTyped, NEW t \in Tasks
    PROVE  /\ At(t, "new") <=> task[t] = New
           /\ At(t, "expire") \/ At(t, "judge") \/ At(t, "ask") => task[t].n \in Nat
<1>1. task[t] \in OtpTasks  BY DEF OtpTyped
<1> QED  BY <1>1 DEF OtpTasks, New, Failed, At

\* A step moves one call, and one that is counted keeps its number.
LEMMA OtpGoes ==
    ASSUME OtpTyped, NEW t \in Tasks, NEW a, NEW p, <<a, p>> \in OtpSteps, At(t, a), Goes(t, p)
    PROVE  /\ task' \in [Tasks -> OtpTasks] /\ \A u \in Tasks \ {t} : task'[u] = task[u]
           /\ At(t, p)' /\ (a \in {"expire", "judge"} => task'[t].n = task[t].n)
<1> DEFINE r == [task[t] EXCEPT !.at = p]
<1>1. task[t] \in OtpTasks /\ task \in [Tasks -> OtpTasks]  BY DEF OtpTyped
<1>2. r \in OtpTasks /\ r.at = p /\ (a \in {"expire", "judge"} => r.n = task[t].n)
  BY <1>1 DEF OtpTasks, OtpSteps, At, New, Failed
<1>3. task' = [task EXCEPT ![t] = r]  BY DEF Goes
<1> HIDE DEF r
<1>4. task' \in [Tasks -> OtpTasks] /\ task'[t] = r /\ \A u \in Tasks \ {t} : task'[u] = task[u]
  BY <1>1, <1>2, <1>3
<1> QED  BY <1>2, <1>4 DEF At

\* Such a step counts nobody.
LEMMA FreshShrinks ==
    ASSUME OtpTyped, NEW t \in Tasks, \A u \in Tasks \ {t} : task'[u] = task[u], outlived \subseteq outlived',
           t \in Counted' => t \in Counted /\ task'[t].n = task[t].n
    PROVE  Fresh' \subseteq Fresh
BY DEF Fresh, Counted

\* Who leaves the count leaves room.
LEMMA CountKept ==
    ASSUME OtpTyped, CountInv, Fresh' \subseteq Fresh, UNCHANGED <<attempts, asked, code>>, crossed \subseteq crossed'
    PROVE  CountInv'
<1>1. IsFiniteSet(Fresh') /\ Cardinality(Fresh') <= Cardinality(Fresh)  BY FS_Subset DEF CountInv
<1>2. /\ Cardinality(Fresh) \in Nat /\ Cardinality(Fresh') \in Nat /\ asked[code] \in Nat
      /\ Room \in Nat /\ Room' = Room
  BY <1>1, FS_CardinalityType, OtpAssumption DEF CountInv, OtpTyped, OtpTypeOK, Room
<1> QED  BY <1>1, <1>2 DEF CountInv, Codes

\* Deleting the count.
LEMMA CountDeleted ==
    ASSUME OtpTyped, CountInv, DelAttempts, Counted' \subseteq Counted, UNCHANGED <<code, asked>>
    PROVE  CountInv'
<1>1. Fresh' = {}  BY DEF Fresh, DelAttempts
<1>2. IsFiniteSet(Fresh') /\ Cardinality(Fresh') = 0  BY <1>1, FS_EmptySet
<1>3. attempts'.n = 0 /\ Room' = 0  BY OtpAssumption DEF DelAttempts, NoCount, Room
<1>4. crossed \subseteq crossed' /\ (code \notin crossed' => asked[code] = 0)
  BY DEF DelAttempts, OtpTyped, OtpTypeOK
<1> QED  BY <1>2, <1>3, <1>4 DEF CountInv, Codes

\* What the steps of a verification leave alone.
SendPlaces == {"resend", "allow", "window", "autogen", "put", "reset", "release"}
Early      == {"new", "resend", "allow", "window", "autogen"}

\* A verification is not a send.
LEMMA SendKept ==
    ASSUME OtpTyped, SendInv, UNCHANGED <<failures, devPhone, mutex, lapsed>>,
           NEW t \in Tasks, \A u \in Tasks \ {t} : task'[u] = task[u],
           task[t].at \notin SendPlaces, task'[t].at \notin SendPlaces,
           UNCHANGED <<active, hasty>> \/ DelActive
    PROVE  SendInv'
<1>1. Holding' = Holding  BY DEF Holding, SendPlaces
<1>2. \A u \in Tasks : \A p \in SendPlaces : At(u, p)' <=> At(u, p)  BY DEF At
<1>3. \A u \in Tasks : task'[u].at \in {"allow", "window", "autogen"} => task[u].at \in {"allow", "window", "autogen"}
  BY DEF SendPlaces
<1>4. hasty \subseteq Tasks /\ "put" \in SendPlaces  BY DEF OtpTyped, OtpTypeOK, SendPlaces
<1>5. CASE UNCHANGED <<active, hasty>>  BY <1>1, <1>2, <1>3, <1>4, <1>5 DEF SendInv
<1>6. CASE DelActive  BY <1>1, <1>2, <1>3, <1>4, <1>6 DEF SendInv, DelActive
<1> QED  BY <1>5, <1>6

\* A step that asks for no code and makes none.
LEMMA AskKept ==
    ASSUME AskInv, NEW t \in Tasks, \A u \in Tasks \ {t} : task'[u] = task[u],
           task'[t].at \in Early => task[t].at \in Early,
           At(t, "ask")' => task'[t].n <= MaxVerifyAttempts, UNCHANGED <<code, asked>>
    PROVE  AskInv'
BY DEF AskInv, Early, At

\* A step that makes no code.
LEMMA DevPhoneKept ==
    ASSUME DevPhoneInv, NEW t \in Tasks, \A u \in Tasks \ {t} : task'[u] = task[u], hasty' \subseteq hasty,
           UNCHANGED devPhone, devPhone => task'[t].at \notin {"resend", "allow", "window", "autogen", "release"}
    PROVE  DevPhoneInv'
BY DEF DevPhoneInv

\* A step that touches no counter, by a call that was to set no TTL.
LEMMA LapseKept ==
    ASSUME CountersLapse, NEW t \in Tasks, \A u \in Tasks \ {t} : task'[u] = task[u],
           ~At(t, "window"), ~At(t, "expire"), UNCHANGED <<failures, sends, attempts>>
    PROVE  CountersLapse'
BY DEF CountersLapse, At

\* verify reads the session.
LEMMA OtpGetActive ==
    ASSUME OtpInv, NEW t \in Tasks, GetActive(t)
    PROVE  OtpInv'
<1>0. OtpTyped /\ At(t, "active")  BY DEF OtpInv, GetActive, otpVars
<1>1. PICK p \in {"failed", "count"} : Goes(t, p)  BY DEF GetActive, otpVars
<1>2. /\ task' \in [Tasks -> OtpTasks] /\ \A u \in Tasks \ {t} : task'[u] = task[u]
      /\ At(t, p)' /\ ("active" \in {"expire", "judge"} => task'[t].n = task[t].n)
  BY <1>0, <1>1, OtpGoes DEF OtpSteps
<1>3. OtpTyped'  BY <1>0, <1>2 DEF OtpTyped, OtpTypeOK, GetActive, otpVars
<1>4. CountInv'
  <2>1. Fresh' \subseteq Fresh  BY <1>0, <1>2, FreshShrinks DEF Counted, At, GetActive, otpVars
  <2> QED  BY <1>0, <2>1, CountKept DEF OtpInv, GetActive, otpVars
<1>5. AskInv'  BY <1>0, <1>2, AskKept DEF OtpInv, Early, At, GetActive, otpVars
<1>6. SendInv'  BY <1>0, <1>2, SendKept DEF OtpInv, SendPlaces, At, GetActive, otpVars
<1>7. DevPhoneInv'  BY <1>0, <1>2, DevPhoneKept DEF OtpInv, At, GetActive, otpVars
<1>8. CountersLapse'  BY <1>0, <1>2, LapseKept DEF OtpInv, At, GetActive, otpVars
<1> QED  BY <1>3, <1>4, <1>5, <1>6, <1>7, <1>8 DEF OtpInv

\* verify goes on: it is not one too many.
LEMMA OtpGoOn ==
    ASSUME OtpInv, NEW t \in Tasks, GoOn(t)
    PROVE  OtpInv'
<1>0. OtpTyped /\ At(t, "judge")  BY DEF OtpInv, GoOn, otpVars
<1>1. PICK p \in {"ask"} : Goes(t, p)  BY DEF GoOn, otpVars
<1>2. /\ task' \in [Tasks -> OtpTasks] /\ \A u \in Tasks \ {t} : task'[u] = task[u]
      /\ At(t, p)' /\ ("judge" \in {"expire", "judge"} => task'[t].n = task[t].n)
  BY <1>0, <1>1, OtpGoes DEF OtpSteps
<1>3. OtpTyped'  BY <1>0, <1>2 DEF OtpTyped, OtpTypeOK, GoOn, otpVars
<1>4. CountInv'
  <2>1. Fresh' \subseteq Fresh  BY <1>0, <1>2, FreshShrinks DEF Counted, At, GoOn, otpVars
  <2> QED  BY <1>0, <2>1, CountKept DEF OtpInv, GoOn, otpVars
<1>5. AskInv'
  <2>1. p = "ask" /\ task'[t].n <= MaxVerifyAttempts
    BY <1>0, <1>2, OtpPlaces, OtpAssumption DEF GoOn, TooMany
  <2> QED  BY <1>0, <1>2, <2>1, AskKept DEF OtpInv, Early, At, GoOn, otpVars
<1>6. SendInv'  BY <1>0, <1>2, SendKept DEF OtpInv, SendPlaces, At, GoOn, otpVars
<1>7. DevPhoneInv'  BY <1>0, <1>2, DevPhoneKept DEF OtpInv, At, GoOn, otpVars
<1>8. CountersLapse'  BY <1>0, <1>2, LapseKept DEF OtpInv, At, GoOn, otpVars
<1> QED  BY <1>3, <1>4, <1>5, <1>6, <1>7, <1>8 DEF OtpInv

\* verify locks the number: it no longer counts.
LEMMA OtpLock ==
    ASSUME OtpInv, NEW t \in Tasks, LockVerify(t)
    PROVE  OtpInv'
<1>0. OtpTyped /\ At(t, "judge")  BY DEF OtpInv, LockVerify
<1>1. PICK p \in {"drop"} : Goes(t, p)  BY DEF LockVerify
<1>2. /\ task' \in [Tasks -> OtpTasks] /\ \A u \in Tasks \ {t} : task'[u] = task[u]
      /\ At(t, p)' /\ ("judge" \in {"expire", "judge"} => task'[t].n = task[t].n)
  BY <1>0, <1>1, OtpGoes DEF OtpSteps
<1>3. OtpTyped'  BY <1>0, <1>2 DEF OtpTyped, OtpTypeOK, LockVerify
<1>4. CountInv'
  <2>1. Fresh' \subseteq Fresh  BY <1>0, <1>2, FreshShrinks DEF Counted, At, LockVerify
  <2> QED  BY <1>0, <2>1, CountKept DEF OtpInv, LockVerify
<1>5. AskInv'  BY <1>0, <1>2, AskKept DEF OtpInv, Early, At, LockVerify
<1>6. SendInv'  BY <1>0, <1>2, SendKept DEF OtpInv, SendPlaces, At, LockVerify
<1>7. DevPhoneInv'  BY <1>0, <1>2, DevPhoneKept DEF OtpInv, At, LockVerify
<1>8. CountersLapse'  BY <1>0, <1>2, LapseKept DEF OtpInv, At, LockVerify
<1> QED  BY <1>3, <1>4, <1>5, <1>6, <1>7, <1>8 DEF OtpInv

\* verify drops the session, and with it what was hasty.
LEMMA OtpDrop ==
    ASSUME OtpInv, NEW t \in Tasks, DropActive(t)
    PROVE  OtpInv'
<1>0. OtpTyped /\ At(t, "drop")  BY DEF OtpInv, DropActive
<1>1. PICK p \in {"clear"} : Goes(t, p)  BY DEF DropActive
<1>2. /\ task' \in [Tasks -> OtpTasks] /\ \A u \in Tasks \ {t} : task'[u] = task[u]
      /\ At(t, p)' /\ ("drop" \in {"expire", "judge"} => task'[t].n = task[t].n)
  BY <1>0, <1>1, OtpGoes DEF OtpSteps
<1>3. OtpTyped'  BY <1>0, <1>2 DEF OtpTyped, OtpTypeOK, DropActive, DelActive, NoSession, Codes
<1>4. CountInv'
  <2>1. Fresh' \subseteq Fresh  BY <1>0, <1>2, FreshShrinks DEF Counted, At, DropActive, DelActive
  <2> QED  BY <1>0, <2>1, CountKept DEF OtpInv, DropActive, DelActive
<1>5. AskInv'  BY <1>0, <1>2, AskKept DEF OtpInv, Early, At, DropActive, DelActive
<1>6. SendInv'  BY <1>0, <1>2, SendKept DEF OtpInv, SendPlaces, At, DropActive
<1>7. DevPhoneInv'  BY <1>0, <1>2, DevPhoneKept DEF OtpInv, At, DropActive, DelActive
<1>8. CountersLapse'  BY <1>0, <1>2, LapseKept DEF OtpInv, At, DropActive, DelActive
<1> QED  BY <1>3, <1>4, <1>5, <1>6, <1>7, <1>8 DEF OtpInv

\* verify deletes the count.
LEMMA OtpClear ==
    ASSUME OtpInv, NEW t \in Tasks, ClearAttempts(t)
    PROVE  OtpInv'
<1>0. OtpTyped /\ At(t, "clear")  BY DEF OtpInv, ClearAttempts
<1>1. PICK p \in {"over"} : Goes(t, p)  BY DEF ClearAttempts
<1>2. /\ task' \in [Tasks -> OtpTasks] /\ \A u \in Tasks \ {t} : task'[u] = task[u]
      /\ At(t, p)' /\ ("clear" \in {"expire", "judge"} => task'[t].n = task[t].n)
  BY <1>0, <1>1, OtpGoes DEF OtpSteps
<1>3. OtpTyped'
  BY <1>0, <1>2 DEF OtpTyped, OtpTypeOK, ClearAttempts, DelAttempts, NoCount, Codes, Counted
<1>4. CountInv'
  <2>1. Counted' \subseteq Counted  BY <1>0, <1>2 DEF Counted, At
  <2> QED  BY <1>0, <2>1, CountDeleted DEF OtpInv, ClearAttempts
<1>5. AskInv'  BY <1>0, <1>2, AskKept DEF OtpInv, Early, At, ClearAttempts
<1>6. SendInv'  BY <1>0, <1>2, SendKept DEF OtpInv, SendPlaces, At, ClearAttempts
<1>7. DevPhoneInv'  BY <1>0, <1>2, DevPhoneKept DEF OtpInv, At, ClearAttempts
<1>8. CountersLapse'
  BY <1>0, <1>2 DEF OtpInv, CountersLapse, At, ClearAttempts, DelAttempts, NoCount
<1> QED  BY <1>3, <1>4, <1>5, <1>6, <1>7, <1>8 DEF OtpInv

\* verify sets the TTL of the count it began.
LEMMA OtpExpire ==
    ASSUME OtpInv, NEW t \in Tasks, SetAttemptsTtl(t)
    PROVE  OtpInv'
<1>0. OtpTyped /\ At(t, "expire")  BY DEF OtpInv, SetAttemptsTtl
<1>1. PICK p \in {"judge"} : Goes(t, p)  BY DEF SetAttemptsTtl
<1>2. /\ task' \in [Tasks -> OtpTasks] /\ \A u \in Tasks \ {t} : task'[u] = task[u]
      /\ At(t, p)' /\ ("expire" \in {"expire", "judge"} => task'[t].n = task[t].n)
  BY <1>0, <1>1, OtpGoes DEF OtpSteps
<1>a. attempts' = [attempts EXCEPT !.ttl = (attempts.n > 0)] /\ attempts \in [n : Nat, ttl : BOOLEAN, under : Codes]
  BY <1>0 DEF OtpTyped, OtpTypeOK, SetAttemptsTtl
<1> DEFINE b == attempts.n > 0
<1>c. b \in BOOLEAN /\ attempts' = [attempts EXCEPT !.ttl = b]  BY <1>a
<1> HIDE DEF b
<1>d. /\ attempts'.n = attempts.n /\ attempts'.ttl = b
      /\ attempts' \in [n : Nat, ttl : BOOLEAN, under : Codes]
  BY <1>a, <1>c
<1>b. /\ attempts'.n = attempts.n /\ attempts' \in [n : Nat, ttl : BOOLEAN, under : Codes]
      /\ attempts'.n > 0 => attempts'.ttl
  BY <1>d DEF b
<1>3. OtpTyped'  BY <1>0, <1>2, <1>b DEF OtpTyped, OtpTypeOK, SetAttemptsTtl
<1>4. CountInv'
  <2>1. Fresh' \subseteq Fresh  BY <1>0, <1>2, FreshShrinks DEF Counted, At, SetAttemptsTtl
  <2>2. IsFiniteSet(Fresh') /\ Cardinality(Fresh') <= Cardinality(Fresh) /\ Room' = Room
    BY <1>b, <2>1, FS_Subset DEF OtpInv, CountInv, Room
  <2>3. Cardinality(Fresh) \in Nat /\ Cardinality(Fresh') \in Nat /\ Room \in Nat /\ asked[code] \in Nat
    BY <1>0, <2>2, FS_CardinalityType, OtpAssumption DEF OtpInv, CountInv, OtpTyped, OtpTypeOK, Room
  <2>4. UNCHANGED <<code, asked, crossed>>  BY DEF SetAttemptsTtl
  <2> QED  BY <2>2, <2>3, <2>4 DEF OtpInv, CountInv, Codes
<1>5. AskInv'  BY <1>0, <1>2, AskKept DEF OtpInv, Early, At, SetAttemptsTtl
<1>6. SendInv'  BY <1>0, <1>2, SendKept DEF OtpInv, SendPlaces, At, SetAttemptsTtl
<1>7. DevPhoneInv'  BY <1>0, <1>2, DevPhoneKept DEF OtpInv, At, SetAttemptsTtl
<1>8. CountersLapse'  BY <1>0, <1>2, <1>b DEF OtpInv, CountersLapse, At, SetAttemptsTtl
<1> QED  BY <1>3, <1>4, <1>5, <1>6, <1>7, <1>8 DEF OtpInv

\* send lets the mutex go, and was the only one to hold it.
LEMMA OtpRelease ==
    ASSUME OtpInv, NEW t \in Tasks, ReleaseMutex(t)
    PROVE  OtpInv'
<1>0. OtpTyped /\ At(t, "release")  BY DEF OtpInv, ReleaseMutex
<1>1. PICK p \in {"over"} : Goes(t, p)  BY DEF ReleaseMutex
<1>2. /\ task' \in [Tasks -> OtpTasks] /\ \A u \in Tasks \ {t} : task'[u] = task[u]
      /\ At(t, p)' /\ ("release" \in {"expire", "judge"} => task'[t].n = task[t].n)
  BY <1>0, <1>1, OtpGoes DEF OtpSteps
<1>3. OtpTyped'  BY <1>0, <1>2 DEF OtpTyped, OtpTypeOK, ReleaseMutex
<1>4. CountInv'
  <2>1. Fresh' \subseteq Fresh  BY <1>0, <1>2, FreshShrinks DEF Counted, At, ReleaseMutex
  <2> QED  BY <1>0, <2>1, CountKept DEF OtpInv, ReleaseMutex
<1>5. AskInv'  BY <1>0, <1>2, AskKept DEF OtpInv, Early, At, ReleaseMutex
<1>6. SendInv'
  <2> SUFFICES ASSUME ~lapsed, failures = 0, ~devPhone
               PROVE  SendInv'
    BY DEF SendInv, ReleaseMutex
  <2>1. /\ t \in Holding /\ \A u \in Tasks \ {t} : u \notin Holding
        /\ \A u \in Tasks \ {t} : u \notin Holding'
    BY <1>0, <1>2 DEF OtpInv, SendInv, Holding, At
  <2>2. hasty \subseteq Tasks  BY <1>0 DEF OtpTyped, OtpTypeOK
  <2>3. Holding' = {}  BY <1>0, <1>1, <1>2, <2>1 DEF Holding, At
  <2>4. \A u \in Tasks : ~At(u, "put") /\ ~At(u, "put")' /\ task'[u].at \notin {"allow", "window", "autogen"}
    BY <1>0, <1>2, <2>1, <2>3 DEF Holding, At
  <2> QED  BY <2>2, <2>3, <2>4 DEF OtpInv, SendInv, ReleaseMutex
<1>7. DevPhoneInv'  BY <1>0, <1>2, DevPhoneKept DEF OtpInv, At, ReleaseMutex
<1>8. CountersLapse'  BY <1>0, <1>2, LapseKept DEF OtpInv, At, ReleaseMutex
<1> QED  BY <1>3, <1>4, <1>5, <1>6, <1>7, <1>8 DEF OtpInv

\* Past the guard no code is hasty, since whoever made one is no longer at work.
LEMMA OtpGuard ==
    ASSUME OtpInv, NEW t \in Tasks, ResendGuard(t)
    PROVE  OtpInv'
<1>0. OtpTyped /\ At(t, "resend")  BY DEF OtpInv, ResendGuard, otpVars
<1>1. PICK p \in {"release", "allow"} : Goes(t, p) /\ (p = "allow" => active = NoSession \/ ~active.recent)
  BY DEF ResendGuard, otpVars
<1>2. /\ task' \in [Tasks -> OtpTasks] /\ \A u \in Tasks \ {t} : task'[u] = task[u]
      /\ At(t, p)' /\ ("resend" \in {"expire", "judge"} => task'[t].n = task[t].n)
  BY <1>0, <1>1, OtpGoes DEF OtpSteps
<1>3. OtpTyped'  BY <1>0, <1>2 DEF OtpTyped, OtpTypeOK, ResendGuard, otpVars
<1>4. CountInv'
  <2>1. Fresh' \subseteq Fresh  BY <1>0, <1>2, FreshShrinks DEF Counted, At, ResendGuard, otpVars
  <2> QED  BY <1>0, <2>1, CountKept DEF OtpInv, ResendGuard, otpVars
<1>5. AskInv'  BY <1>0, <1>2, AskKept DEF OtpInv, Early, At, ResendGuard, otpVars
<1>6. SendInv'
  <2> SUFFICES ASSUME ~lapsed, failures = 0, ~devPhone
               PROVE  SendInv'
    BY DEF SendInv, ResendGuard, otpVars
  <2>1. /\ t \in Holding /\ \A u \in Tasks \ {t} : u \notin Holding
        /\ \A u \in Tasks \ {t} : u \notin Holding'
    BY <1>0, <1>2 DEF OtpInv, SendInv, Holding, At
  <2>2. hasty \subseteq Tasks  BY <1>0 DEF OtpTyped, OtpTypeOK
  <2>3. Holding' = {t} /\ Holding # {}  BY <1>0, <1>1, <1>2, <2>1 DEF Holding, At
  <2>4. \A u \in Tasks : ~At(u, "put") /\ ~At(u, "put")' /\ (task'[u].at \in {"allow", "window", "autogen"} => u = t)
    BY <1>0, <1>1, <1>2, <2>1, <2>3 DEF Holding, At
  <2>5. p = "allow" => ~active.recent  BY <1>1 DEF NoSession
  <2>6. p = "allow" => hasty = {}  BY <2>2, <2>4, <2>5 DEF OtpInv, SendInv
  <2> QED  BY <1>1, <1>2, <2>2, <2>3, <2>4, <2>6 DEF OtpInv, SendInv, ResendGuard, otpVars, At
<1>7. DevPhoneInv'  BY <1>0, <1>2, DevPhoneKept DEF OtpInv, DevPhoneInv, At, ResendGuard, otpVars
<1>8. CountersLapse'  BY <1>0, <1>2, LapseKept DEF OtpInv, At, ResendGuard, otpVars
<1> QED  BY <1>3, <1>4, <1>5, <1>6, <1>7, <1>8 DEF OtpInv

\* The limiter counts the send; the first is to set the TTL.
LEMMA OtpAllow ==
    ASSUME OtpInv, NEW t \in Tasks, AllowSend(t)
    PROVE  OtpInv'
<1>0. OtpTyped /\ At(t, "allow")  BY DEF OtpInv, AllowSend
<1>1. PICK p \in {"window", "release", "autogen"} : Goes(t, p) /\ (sends.n = 0 => p = "window")
  <2> DEFINE q == CASE sends.n = 0 -> "window" [] sends.n >= MaxSends -> "release" [] OTHER -> "autogen"
  <2>1. Goes(t, q)  BY DEF AllowSend
  <2>2. q \in {"window", "release", "autogen"} /\ (sends.n = 0 => q = "window")
    <3>1. CASE sends.n = 0  BY <3>1, OtpAssumption
    <3>2. CASE sends.n # 0 /\ sends.n >= MaxSends  BY <3>2
    <3>3. CASE sends.n # 0 /\ ~(sends.n >= MaxSends)  BY <3>3
    <3> QED  BY <3>1, <3>2, <3>3
  <2> HIDE DEF q
  <2> QED  BY <2>1, <2>2
<1>2. /\ task' \in [Tasks -> OtpTasks] /\ \A u \in Tasks \ {t} : task'[u] = task[u]
      /\ At(t, p)' /\ ("allow" \in {"expire", "judge"} => task'[t].n = task[t].n)
  BY <1>0, <1>1, OtpGoes DEF OtpSteps
<1>a. sends \in [n : Nat, ttl : BOOLEAN]  BY <1>0 DEF OtpTyped, OtpTypeOK
<1>3. OtpTyped'
  <2>1. sends' \in [n : Nat, ttl : BOOLEAN]  BY <1>a DEF AllowSend
  <2> QED  BY <1>0, <1>2, <2>1 DEF OtpTyped, OtpTypeOK, AllowSend
<1>4. CountInv'
  <2>1. Fresh' \subseteq Fresh  BY <1>0, <1>2, FreshShrinks DEF Counted, At, AllowSend
  <2> QED  BY <1>0, <2>1, CountKept DEF OtpInv, AllowSend
<1>5. AskInv'  BY <1>0, <1>2, AskKept DEF OtpInv, Early, At, AllowSend
<1>6. SendInv'
  <2> SUFFICES ASSUME ~lapsed, failures = 0, ~devPhone
               PROVE  SendInv'
    BY DEF SendInv, AllowSend
  <2>1. /\ t \in Holding /\ \A u \in Tasks \ {t} : u \notin Holding
        /\ \A u \in Tasks \ {t} : u \notin Holding'
    BY <1>0, <1>2 DEF OtpInv, SendInv, Holding, At
  <2>2. hasty \subseteq Tasks  BY <1>0 DEF OtpTyped, OtpTypeOK
  <2>3. Holding' = {t} /\ Holding # {}  BY <1>0, <1>1, <1>2, <2>1 DEF Holding, At
  <2>4. \A u \in Tasks : ~At(u, "put") /\ ~At(u, "put")'
    BY <1>0, <1>1, <1>2, <2>1, <2>3 DEF Holding, At
  <2>5. hasty = {}  BY <1>0 DEF OtpInv, SendInv, At
  <2> QED  BY <2>2, <2>3, <2>4, <2>5 DEF OtpInv, SendInv, AllowSend
<1>7. DevPhoneInv'  BY <1>0, <1>2, DevPhoneKept DEF OtpInv, DevPhoneInv, At, AllowSend
<1>8. CountersLapse'
  <2>1. sends' = [sends EXCEPT !.n = sends.n + 1] /\ sends'.ttl = sends.ttl  BY <1>a DEF AllowSend
  <2>2. sends.n = 0 => p = "window"  BY <1>1
  <2>3. sends.n = 0 \/ sends.n > 0  BY <1>a
  <2>4. UNCHANGED <<failures, attempts>>  BY DEF AllowSend
  <2> QED  BY <1>0, <1>1, <1>2, <2>1, <2>2, <2>3, <2>4 DEF OtpInv, CountersLapse, At
<1> QED  BY <1>3, <1>4, <1>5, <1>6, <1>7, <1>8 DEF OtpInv

\* The TTL is set.
LEMMA OtpWindow ==
    ASSUME OtpInv, NEW t \in Tasks, SetWindow(t)
    PROVE  OtpInv'
<1>0. OtpTyped /\ At(t, "window")  BY DEF OtpInv, SetWindow
<1>1. PICK p \in {"autogen"} : Goes(t, p)  BY DEF SetWindow
<1>2. /\ task' \in [Tasks -> OtpTasks] /\ \A u \in Tasks \ {t} : task'[u] = task[u]
      /\ At(t, p)' /\ ("window" \in {"expire", "judge"} => task'[t].n = task[t].n)
  BY <1>0, <1>1, OtpGoes DEF OtpSteps
<1>a. sends \in [n : Nat, ttl : BOOLEAN]  BY <1>0 DEF OtpTyped, OtpTypeOK
<1>3. OtpTyped'
  <2>1. (sends.n > 0) \in BOOLEAN /\ sends' = [sends EXCEPT !.ttl = (sends.n > 0)]  BY DEF SetWindow
  <2>2. sends' \in [n : Nat, ttl : BOOLEAN]  BY <1>a, <2>1
  <2> QED  BY <1>0, <1>2, <2>2 DEF OtpTyped, OtpTypeOK, SetWindow
<1>4. CountInv'
  <2>1. Fresh' \subseteq Fresh  BY <1>0, <1>2, FreshShrinks DEF Counted, At, SetWindow
  <2> QED  BY <1>0, <2>1, CountKept DEF OtpInv, SetWindow
<1>5. AskInv'  BY <1>0, <1>2, AskKept DEF OtpInv, Early, At, SetWindow
<1>6. SendInv'
  <2> SUFFICES ASSUME ~lapsed, failures = 0, ~devPhone
               PROVE  SendInv'
    BY DEF SendInv, SetWindow
  <2>1. /\ t \in Holding /\ \A u \in Tasks \ {t} : u \notin Holding
        /\ \A u \in Tasks \ {t} : u \notin Holding'
    BY <1>0, <1>2 DEF OtpInv, SendInv, Holding, At
  <2>2. hasty \subseteq Tasks  BY <1>0 DEF OtpTyped, OtpTypeOK
  <2>3. Holding' = {t} /\ Holding # {}  BY <1>0, <1>1, <1>2, <2>1 DEF Holding, At
  <2>4. \A u \in Tasks : ~At(u, "put") /\ ~At(u, "put")'
    BY <1>0, <1>1, <1>2, <2>1, <2>3 DEF Holding, At
  <2>5. hasty = {}  BY <1>0 DEF OtpInv, SendInv, At
  <2> QED  BY <2>2, <2>3, <2>4, <2>5 DEF OtpInv, SendInv, SetWindow
<1>7. DevPhoneInv'  BY <1>0, <1>2, DevPhoneKept DEF OtpInv, DevPhoneInv, At, SetWindow
<1>8. CountersLapse'
  <2>1. sends' = [sends EXCEPT !.ttl = (sends.n > 0)] /\ (sends'.n > 0 => sends'.ttl)
    BY <1>a DEF SetWindow
  <2> QED  BY <1>0, <1>2, <2>1 DEF OtpInv, CountersLapse, At, SetWindow
<1> QED  BY <1>3, <1>4, <1>5, <1>6, <1>7, <1>8 DEF OtpInv

\* The session takes over from the call that made the code.
LEMMA OtpPut ==
    ASSUME OtpInv, NEW t \in Tasks, PutActive(t)
    PROVE  OtpInv'
<1>0. OtpTyped /\ At(t, "put")  BY DEF OtpInv, PutActive
<1>1. PICK p \in {"reset"} : Goes(t, p)  BY DEF PutActive
<1>2. /\ task' \in [Tasks -> OtpTasks] /\ \A u \in Tasks \ {t} : task'[u] = task[u]
      /\ At(t, p)' /\ ("put" \in {"expire", "judge"} => task'[t].n = task[t].n)
  BY <1>0, <1>1, OtpGoes DEF OtpSteps
<1>3. OtpTyped'  BY <1>0, <1>2 DEF OtpTyped, OtpTypeOK, PutActive, Codes
<1>4. CountInv'
  <2>1. Fresh' \subseteq Fresh  BY <1>0, <1>2, FreshShrinks DEF Counted, At, PutActive
  <2> QED  BY <1>0, <2>1, CountKept DEF OtpInv, PutActive
<1>5. AskInv'  BY <1>0, <1>2, AskKept DEF OtpInv, Early, At, PutActive
<1>6. SendInv'
  <2> SUFFICES ASSUME ~lapsed, failures = 0, ~devPhone
               PROVE  SendInv'
    BY DEF SendInv, PutActive
  <2>1. /\ t \in Holding /\ \A u \in Tasks \ {t} : u \notin Holding
        /\ \A u \in Tasks \ {t} : u \notin Holding'
    BY <1>0, <1>2 DEF OtpInv, SendInv, Holding, At
  <2>2. hasty \subseteq Tasks  BY <1>0 DEF OtpTyped, OtpTypeOK
  <2>3. Holding' = {t} /\ Holding # {} /\ hasty \subseteq {t}
    BY <1>0, <1>1, <1>2, <2>1 DEF OtpInv, SendInv, Holding, At
  <2>4. \A u \in Tasks : ~At(u, "put")' /\ task'[u].at \notin {"allow", "window", "autogen"}
    BY <1>0, <1>1, <1>2, <2>1, <2>3 DEF Holding, At
  <2> QED  BY <2>2, <2>3, <2>4 DEF OtpInv, SendInv, PutActive
<1>7. DevPhoneInv'  BY <1>0, <1>2, DevPhoneKept DEF OtpInv, At, PutActive
<1>8. CountersLapse'  BY <1>0, <1>2, LapseKept DEF OtpInv, At, PutActive
<1> QED  BY <1>3, <1>4, <1>5, <1>6, <1>7, <1>8 DEF OtpInv

\* send deletes the count.
LEMMA OtpReset ==
    ASSUME OtpInv, NEW t \in Tasks, ResetAttempts(t)
    PROVE  OtpInv'
<1>0. OtpTyped /\ At(t, "reset")  BY DEF OtpInv, ResetAttempts
<1>1. PICK p \in {"over", "release"} : Goes(t, p)  BY DEF ResetAttempts
<1>2. /\ task' \in [Tasks -> OtpTasks] /\ \A u \in Tasks \ {t} : task'[u] = task[u]
      /\ At(t, p)' /\ ("reset" \in {"expire", "judge"} => task'[t].n = task[t].n)
  BY <1>0, <1>1, OtpGoes DEF OtpSteps
<1>3. OtpTyped'
  BY <1>0, <1>2 DEF OtpTyped, OtpTypeOK, ResetAttempts, DelAttempts, NoCount, Codes, Counted
<1>4. CountInv'
  <2>1. Counted' \subseteq Counted  BY <1>0, <1>1, <1>2 DEF Counted, At
  <2> QED  BY <1>0, <2>1, CountDeleted DEF OtpInv, ResetAttempts
<1>5. AskInv'  BY <1>0, <1>2, AskKept DEF OtpInv, Early, At, ResetAttempts
<1>6. SendInv'
  <2> SUFFICES ASSUME ~lapsed, failures = 0, ~devPhone
               PROVE  SendInv'
    BY DEF SendInv, ResetAttempts
  <2>1. /\ t \in Holding /\ \A u \in Tasks \ {t} : u \notin Holding
        /\ \A u \in Tasks \ {t} : u \notin Holding'
    BY <1>0, <1>2 DEF OtpInv, SendInv, Holding, At
  <2>2. hasty \subseteq Tasks  BY <1>0 DEF OtpTyped, OtpTypeOK
  <2>3. Holding' \subseteq {t} /\ Holding # {}  BY <1>0, <1>1, <1>2, <2>1 DEF Holding, At
  <2>4. \A u \in Tasks : ~At(u, "put") /\ ~At(u, "put")' /\ task'[u].at \notin {"allow", "window", "autogen"}
    BY <1>0, <1>1, <1>2, <2>1, <2>3 DEF Holding, At
  <2> QED  BY <2>2, <2>3, <2>4 DEF OtpInv, SendInv, ResetAttempts
<1>7. DevPhoneInv'
  <2>1. devPhone => p = "over"  BY <1>0, <1>1, <1>2, OtpGoes DEF ResetAttempts, OtpSteps, At
  <2> QED  BY <1>0, <1>2, <2>1, DevPhoneKept DEF OtpInv, At, ResetAttempts
<1>8. CountersLapse'
  BY <1>0, <1>1, <1>2 DEF OtpInv, CountersLapse, At, ResetAttempts, DelAttempts, NoCount
<1> QED  BY <1>3, <1>4, <1>5, <1>6, <1>7, <1>8 DEF OtpInv

\* The provider makes a code nobody was asked for yet.
LEMMA OtpAutogen ==
    ASSUME OtpInv, NEW t \in Tasks, Autogen(t)
    PROVE  OtpInv'
<1>0. OtpTyped /\ At(t, "autogen")  BY DEF OtpInv, Autogen
<1>1. PICK p \in {"put", "release"} : Goes(t, p)  BY DEF Autogen
<1>2. /\ task' \in [Tasks -> OtpTasks] /\ \A u \in Tasks \ {t} : task'[u] = task[u]
      /\ At(t, p)' /\ ("autogen" \in {"expire", "judge"} => task'[t].n = task[t].n)
  BY <1>0, <1>1, OtpGoes DEF OtpSteps
<1>3. OtpTyped'  BY <1>0, <1>2 DEF OtpTyped, OtpTypeOK, Autogen, Codes
<1>4. CountInv'
  <2>1. Fresh' = Fresh  BY <1>0, <1>1, <1>2 DEF Fresh, Counted, At, Autogen
  <2>2. asked[t] = 0 /\ t \in Codes  BY <1>0 DEF OtpInv, AskInv, At, OtpTyped, OtpTypeOK, Codes
  <2>3. Cardinality(Fresh) \in Nat /\ Room \in Nat /\ Room' = Room
    BY <1>0, FS_CardinalityType, OtpAssumption DEF OtpInv, CountInv, OtpTyped, OtpTypeOK, Room, Autogen
  <2> QED  BY <2>1, <2>2, <2>3 DEF OtpInv, CountInv, Autogen, Codes
<1>5. AskInv'
  <2>1. code' = code \/ (code' = t /\ p = "put")  BY <1>0, <1>2, OtpGoes DEF Autogen, OtpSteps, At
  <2> QED  BY <1>0, <1>1, <1>2, <2>1 DEF OtpInv, AskInv, At, Autogen
<1>6. SendInv'
  <2> SUFFICES ASSUME ~lapsed, failures = 0, ~devPhone
               PROVE  SendInv'
    BY DEF SendInv, Autogen
  <2>1. /\ t \in Holding /\ \A u \in Tasks \ {t} : u \notin Holding
        /\ \A u \in Tasks \ {t} : u \notin Holding'
    BY <1>0, <1>2 DEF OtpInv, SendInv, Holding, At
  <2>2. hasty \subseteq Tasks  BY <1>0 DEF OtpTyped, OtpTypeOK
  <2>3. Holding' = {t} /\ Holding # {}  BY <1>0, <1>1, <1>2, <2>1 DEF Holding, At
  <2>4. hasty = {} /\ ((hasty' = {t} /\ p = "put") \/ hasty' = {})
    BY <1>0, <1>2, OtpGoes DEF OtpInv, SendInv, Autogen, OtpSteps, At
  <2>5. \A u \in Tasks : task'[u].at \notin {"allow", "window", "autogen"} /\ (At(u, "put")' => u = t)
    BY <1>0, <1>1, <1>2, <2>1, <2>3 DEF Holding, At
  <2> QED  BY <1>2, <2>2, <2>3, <2>4, <2>5 DEF OtpInv, SendInv, Autogen, At
<1>7. DevPhoneInv'  BY <1>0 DEF OtpInv, DevPhoneInv, Autogen, At
<1>8. CountersLapse'  BY <1>0, <1>2, LapseKept DEF OtpInv, At, Autogen
<1> QED  BY <1>3, <1>4, <1>5, <1>6, <1>7, <1>8 DEF OtpInv

\* send takes the mutex nobody holds, or leaves.
LEMMA OtpBegin ==
    ASSUME OtpInv, NEW t \in Tasks, BeginSend(t)
    PROVE  OtpInv'
<1>0. OtpTyped /\ At(t, "new") /\ t \notin Holding
  BY DEF OtpInv, BeginSend, Begins, New, At, Holding
<1>1. PICK p \in {"put", "resend", "over"} :
          /\ task' = [task EXCEPT ![t] = [op |-> "send", at |-> p]]
          /\ devPhone <=> p = "put"
          /\ p = "resend" => ~mutex
  BY <1>0 DEF BeginSend, Begins, Acquire, OtpTyped, OtpTypeOK
<1>2. /\ task' \in [Tasks -> OtpTasks] /\ \A u \in Tasks \ {t} : task'[u] = task[u]
      /\ At(t, p)'
  <2> DEFINE r == [op |-> "send", at |-> p]
  <2>1. r \in OtpTasks /\ r.at = p  BY DEF OtpTasks
  <2>2. task' = [task EXCEPT ![t] = r] /\ task \in [Tasks -> OtpTasks]  BY <1>0, <1>1 DEF OtpTyped
  <2> HIDE DEF r
  <2> QED  BY <2>1, <2>2 DEF At
<1>3. OtpTyped'  BY <1>0, <1>2 DEF OtpTyped, OtpTypeOK, BeginSend
<1>4. CountInv'
  <2>1. Fresh' \subseteq Fresh  BY <1>0, <1>1, <1>2, FreshShrinks DEF Counted, At, BeginSend
  <2> QED  BY <1>0, <2>1, CountKept DEF OtpInv, BeginSend
<1>5. AskInv'  BY <1>0, <1>1, <1>2, AskKept DEF OtpInv, Early, At, BeginSend
<1>6. SendInv'
  <2> SUFFICES ASSUME ~lapsed, failures = 0, ~devPhone
               PROVE  SendInv'
    BY DEF SendInv, BeginSend
  <2>1. hasty \subseteq Tasks /\ mutex' = TRUE  BY <1>0 DEF OtpTyped, OtpTypeOK, BeginSend
  <2>2. CASE p = "over"
    <3>1. Holding' = Holding /\ \A u \in Tasks : At(u, "put")' <=> At(u, "put")
      BY <1>0, <1>2, <2>2 DEF Holding, At
    <3>2. \A u \in Tasks : task'[u].at \in {"allow", "window", "autogen"} => task[u].at \in {"allow", "window", "autogen"}
      BY <1>2, <2>2 DEF At
    <3> QED  BY <2>1, <3>1, <3>2 DEF OtpInv, SendInv, BeginSend
  <2>3. CASE p = "resend"
    <3>1. Holding = {}  BY <1>1, <2>3 DEF OtpInv, SendInv
    <3>2. Holding' = {t}  BY <1>2, <2>3, <3>1 DEF Holding, At
    <3>3. \A u \in Tasks : ~At(u, "put") /\ ~At(u, "put")' /\ task'[u].at \notin {"allow", "window", "autogen"}
      BY <1>2, <2>3, <3>1 DEF Holding, At
    <3> QED  BY <2>1, <3>2, <3>3 DEF OtpInv, SendInv, BeginSend
  <2> QED  BY <1>1, <2>2, <2>3
<1>7. DevPhoneInv'  BY <1>0, <1>1, <1>2, DevPhoneKept DEF OtpInv, At, BeginSend
<1>8. CountersLapse'  BY <1>0, <1>2, LapseKept DEF OtpInv, At, BeginSend
<1> QED  BY <1>3, <1>4, <1>5, <1>6, <1>7, <1>8 DEF OtpInv

\* verify begins.
LEMMA OtpRead ==
    ASSUME OtpInv, NEW t \in Tasks, ReadLock(t)
    PROVE  OtpInv'
<1>0. OtpTyped /\ At(t, "new")  BY DEF OtpInv, ReadLock, Begins, New, At
<1>2. /\ task' \in [Tasks -> OtpTasks] /\ \A u \in Tasks \ {t} : task'[u] = task[u]
      /\ At(t, "active")'
  <2> DEFINE r == [op |-> "verify", at |-> "active"]
  <2>1. r \in OtpTasks /\ r.at = "active"  BY DEF OtpTasks
  <2>2. task' = [task EXCEPT ![t] = r] /\ task \in [Tasks -> OtpTasks]
    BY <1>0 DEF OtpTyped, ReadLock, Begins
  <2> HIDE DEF r
  <2> QED  BY <2>1, <2>2 DEF At
<1>3. OtpTyped'  BY <1>0, <1>2 DEF OtpTyped, OtpTypeOK, ReadLock, otpVars
<1>4. CountInv'
  <2>1. Fresh' \subseteq Fresh  BY <1>0, <1>2, FreshShrinks DEF Counted, At, ReadLock, otpVars
  <2> QED  BY <1>0, <2>1, CountKept DEF OtpInv, ReadLock, otpVars
<1>5. AskInv'  BY <1>0, <1>2, AskKept DEF OtpInv, Early, At, ReadLock, otpVars
<1>6. SendInv'  BY <1>0, <1>2, SendKept DEF OtpInv, SendPlaces, At, ReadLock, otpVars
<1>7. DevPhoneInv'  BY <1>0, <1>2, DevPhoneKept DEF OtpInv, At, ReadLock, otpVars
<1>8. CountersLapse'  BY <1>0, <1>2, LapseKept DEF OtpInv, At, ReadLock, otpVars
<1> QED  BY <1>3, <1>4, <1>5, <1>6, <1>7, <1>8 DEF OtpInv

\* verify is counted: one more in the count, and room for one more until there are too many.
LEMMA OtpIncr ==
    ASSUME OtpInv, NEW t \in Tasks, IncrAttempts(t)
    PROVE  OtpInv'
<1>0. OtpTyped /\ At(t, "count")  BY DEF OtpInv, IncrAttempts
<1>1. PICK p \in {"expire", "judge"} :
          /\ task' = [task EXCEPT ![t] = With(task[t], "n", attempts.n + 1, p)]
          /\ attempts.n = 0 => p = "expire"
  BY DEF IncrAttempts, GoesWith
<1>a. attempts \in [n : Nat, ttl : BOOLEAN, under : Codes] /\ active.by \in Codes
  BY <1>0 DEF OtpTyped, OtpTypeOK
<1>2. /\ task' \in [Tasks -> OtpTasks] /\ \A u \in Tasks \ {t} : task'[u] = task[u]
      /\ At(t, p)' /\ task'[t].n = attempts.n + 1
  <2> DEFINE r == With(task[t], "n", attempts.n + 1, p)
  <2>1. task[t] \in [op : {"verify"}, at : {"count"}]
    BY <1>0 DEF OtpTyped, OtpTasks, At, New, Failed
  <2>2. r = [op |-> "verify", at |-> p, n |-> attempts.n + 1]  BY <2>1 DEF With
  <2>3. r \in OtpTasks /\ r.at = p /\ r.n = attempts.n + 1  BY <1>a, <2>2 DEF OtpTasks
  <2>4. task' = [task EXCEPT ![t] = r] /\ task \in [Tasks -> OtpTasks]  BY <1>0, <1>1 DEF OtpTyped
  <2> HIDE DEF r
  <2> QED  BY <2>3, <2>4 DEF At
<1>b. /\ attempts' \in [n : Nat, ttl : BOOLEAN, under : Codes]
      /\ attempts'.n = attempts.n + 1 /\ attempts'.ttl = attempts.ttl
  <2> DEFINE c == IF attempts.n = 0 THEN active.by ELSE attempts.under
         m == attempts.n + 1
  <2>1. c \in Codes /\ m \in Nat /\ attempts' = [attempts EXCEPT !.n = m, !.under = c]
    BY <1>a DEF IncrAttempts
  <2> HIDE DEF c, m
  <2>2. /\ attempts' \in [n : Nat, ttl : BOOLEAN, under : Codes]
        /\ attempts'.n = m /\ attempts'.ttl = attempts.ttl
    BY <1>a, <2>1
  <2> QED  BY <2>2 DEF m
<1>3. OtpTyped'  BY <1>0, <1>2, <1>b DEF OtpTyped, OtpTypeOK, IncrAttempts
<1>4. CountInv'
  <2>1. /\ Cardinality(Fresh) \in Nat /\ asked[code] \in Nat /\ IsFiniteSet(Fresh)
        /\ UNCHANGED <<asked, code, crossed>>
    BY <1>0, FS_CardinalityType DEF OtpInv, CountInv, OtpTyped, OtpTypeOK, IncrAttempts
  <2>2. CASE attempts.n < MaxVerifyAttempts
    <3>1. Fresh' \subseteq Fresh \cup {t}  BY <1>2 DEF Fresh, Counted, IncrAttempts
    <3>2. IsFiniteSet(Fresh \cup {t}) /\ Cardinality(Fresh \cup {t}) <= Cardinality(Fresh) + 1
      <4>1. /\ IsFiniteSet(Fresh \cup {t})
            /\ Cardinality(Fresh \cup {t}) = IF t \in Fresh THEN Cardinality(Fresh) ELSE Cardinality(Fresh) + 1
        BY <2>1, FS_AddElement
      <4> QED  BY <2>1, <4>1
    <3>3. IsFiniteSet(Fresh') /\ Cardinality(Fresh') <= Cardinality(Fresh \cup {t})
      BY <3>1, <3>2, FS_Subset
    <3>4. Cardinality(Fresh') \in Nat /\ Cardinality(Fresh \cup {t}) \in Nat
      BY <3>2, <3>3, FS_CardinalityType
    <3>5. Room = attempts.n /\ Room' = attempts.n + 1  BY <1>a, <1>b, <2>2, OtpAssumption DEF Room
    <3> QED  BY <1>a, <2>1, <3>2, <3>3, <3>4, <3>5 DEF OtpInv, CountInv, Codes
  <2>3. CASE ~(attempts.n < MaxVerifyAttempts)
    <3>1. Fresh' \subseteq Fresh
      BY <1>0, <1>a, <1>2, <2>3, OtpAssumption DEF Fresh, Counted, IncrAttempts
    <3>2. IsFiniteSet(Fresh') /\ Cardinality(Fresh') <= Cardinality(Fresh)  BY <2>1, <3>1, FS_Subset
    <3>3. Cardinality(Fresh') \in Nat  BY <3>2, FS_CardinalityType
    <3>4. Room = MaxVerifyAttempts /\ Room' = MaxVerifyAttempts
      BY <1>a, <1>b, <2>3, OtpAssumption DEF Room
    <3> QED  BY <2>1, <3>2, <3>3, <3>4, OtpAssumption DEF OtpInv, CountInv, Codes
  <2> QED  BY <2>2, <2>3
<1>5. AskInv'  BY <1>0, <1>2, AskKept DEF OtpInv, Early, At, IncrAttempts
<1>6. SendInv'  BY <1>0, <1>2, SendKept DEF OtpInv, SendPlaces, At, IncrAttempts
<1>7. DevPhoneInv'  BY <1>0, <1>2, DevPhoneKept DEF OtpInv, At, IncrAttempts
<1>8. CountersLapse'
  <2>1. UNCHANGED <<failures, sends>> /\ CountersLapse  BY DEF IncrAttempts, OtpInv
  <2>2. CASE attempts.n = 0  BY <1>0, <1>1, <1>2, <2>1, <2>2 DEF CountersLapse, At
  <2>3. CASE attempts.n > 0  BY <1>0, <1>2, <1>b, <2>1, <2>3 DEF CountersLapse, At
  <2> QED  BY <1>a, <2>2, <2>3
<1> QED  BY <1>3, <1>4, <1>5, <1>6, <1>7, <1>8 DEF OtpInv

\* The provider is asked: one more question, one fewer left to ask, or the code is crossed.
LEMMA OtpAsk ==
    ASSUME OtpInv, NEW t \in Tasks, AskProvider(t)
    PROVE  OtpInv'
<1>0. OtpTyped /\ At(t, "ask")  BY DEF OtpInv, AskProvider
<1>1. PICK p \in {"failed", "drop"} : Goes(t, p)  BY DEF AskProvider
<1>2. /\ task' \in [Tasks -> OtpTasks] /\ \A u \in Tasks \ {t} : task'[u] = task[u]
      /\ At(t, p)' /\ ("ask" \in {"expire", "judge"} => task'[t].n = task[t].n)
  BY <1>0, <1>1, OtpGoes DEF OtpSteps
<1>a. /\ asked \in [Codes -> Nat] /\ code \in Codes /\ code' = code
      /\ asked' = [asked EXCEPT ![code] = asked[code] + 1]
  BY <1>0 DEF OtpTyped, OtpTypeOK, AskProvider
<1>b. /\ asked' \in [Codes -> Nat] /\ asked'[code] = asked[code] + 1
      /\ \A c \in Codes \ {code} : asked'[c] = asked[c]
  BY <1>a
<1>3. OtpTyped'  BY <1>0, <1>2, <1>a, <1>b DEF OtpTyped, OtpTypeOK, AskProvider
<1>4. CountInv'
  <2>1. /\ Cardinality(Fresh) \in Nat /\ IsFiniteSet(Fresh) /\ asked[code] \in Nat
        /\ Room' = Room /\ Room \in Nat /\ Room <= MaxVerifyAttempts /\ outlived' = outlived
    BY <1>0, FS_CardinalityType, OtpAssumption
       DEF OtpInv, CountInv, OtpTyped, OtpTypeOK, AskProvider, Room
  <2>2. t \notin Counted'  BY <1>1, <1>2 DEF Counted, At
  <2>3. CASE t \in outlived
    <3>1. Fresh' \subseteq Fresh /\ crossed' = crossed \cup {code}
      BY <1>2, <2>1, <2>2, <2>3 DEF Fresh, Counted, AskProvider
    <3>2. IsFiniteSet(Fresh') /\ Cardinality(Fresh') <= Cardinality(Fresh) /\ Cardinality(Fresh') \in Nat
      BY <2>1, <3>1, FS_Subset, FS_CardinalityType
    <3> QED  BY <1>a, <1>b, <2>1, <3>1, <3>2 DEF OtpInv, CountInv
  <2>4. CASE t \notin outlived
    <3>1. t \in Fresh  BY <1>0, <2>4 DEF OtpInv, AskInv, Fresh, Counted, At
    <3>2. Fresh' = Fresh \ {t} /\ crossed' = crossed
      BY <1>2, <2>1, <2>2, <2>4 DEF Fresh, Counted, AskProvider
    <3>3. IsFiniteSet(Fresh') /\ Cardinality(Fresh') = Cardinality(Fresh) - 1
      BY <2>1, <3>1, <3>2, FS_RemoveElement
    <3>4. Cardinality(Fresh') \in Nat  BY <3>3, FS_CardinalityType
    <3> QED  BY <1>a, <1>b, <2>1, <3>2, <3>3, <3>4, OtpAssumption DEF OtpInv, CountInv
  <2> QED  BY <2>3, <2>4
<1>5. AskInv'
  <2>1. \A u \in Tasks : code = u \/ asked'[u] > 0 => code = u \/ asked[u] > 0
    BY <1>a, <1>b DEF Codes
  <2> QED  BY <1>0, <1>1, <1>2, <1>a, <2>1 DEF OtpInv, AskInv, At
<1>6. SendInv'  BY <1>0, <1>1, <1>2, SendKept DEF OtpInv, SendPlaces, At, AskProvider
<1>7. DevPhoneInv'  BY <1>0, <1>1, <1>2, DevPhoneKept DEF OtpInv, At, AskProvider
<1>8. CountersLapse'  BY <1>0, <1>2, LapseKept DEF OtpInv, At, AskProvider
<1> QED  BY <1>3, <1>4, <1>5, <1>6, <1>7, <1>8 DEF OtpInv

\* What lapses moves no call.
LEMMA OtpTime ==
    ASSUME OtpInv, Lapses, UNCHANGED <<taskVars, devPhone, code, asked>>
    PROVE  OtpInv'
<1>0. OtpTyped /\ UNCHANGED <<task, failures, devPhone, code, asked>>  BY DEF OtpInv, taskVars
<1>1. AskInv' /\ Holding' = Holding /\ Counted' = Counted
  BY <1>0 DEF OtpInv, AskInv, At, Holding, Counted
<1>2. OtpTyped'
  <2>1. active \in [by : Codes, recent : BOOLEAN] /\ NoSession \in [by : Codes, recent : BOOLEAN]
    BY <1>0 DEF OtpTyped, OtpTypeOK, NoSession, Codes
  <2>2. active' \in [by : Codes, recent : BOOLEAN]
    <3>1. \/ active' = active \/ active' = NoSession
          \/ active' = [active EXCEPT !.recent = FALSE]
      BY DEF Lapses, DelActive
    <3> QED  BY <2>1, <3>1
  <2>3. attempts' \in [n : Nat, ttl : BOOLEAN, under : Codes] /\ sends' \in [n : Nat, ttl : BOOLEAN]
    <3>1. /\ attempts' = attempts \/ attempts' = NoCount
          /\ sends' = sends \/ sends' = [n |-> 0, ttl |-> FALSE]
      BY DEF Lapses, DelAttempts
    <3>2. NoCount \in [n : Nat, ttl : BOOLEAN, under : Codes]  BY DEF NoCount, Codes
    <3>3. attempts \in [n : Nat, ttl : BOOLEAN, under : Codes] /\ sends \in [n : Nat, ttl : BOOLEAN]
      BY <1>0 DEF OtpTyped, OtpTypeOK
    <3>4. [n |-> 0, ttl |-> FALSE] \in [n : Nat, ttl : BOOLEAN]  OBVIOUS
    <3> QED  BY <3>1, <3>2, <3>3, <3>4
  <2>4. /\ {locked', mutex', lapsed'} \subseteq BOOLEAN
        /\ hasty' \in SUBSET Tasks /\ outlived' \in SUBSET Tasks /\ crossed' \in SUBSET Codes
    BY <1>0 DEF Lapses, DelActive, DelAttempts, Counted, OtpTyped, OtpTypeOK
  <2> QED  BY <1>0, <2>2, <2>3, <2>4 DEF OtpTyped, OtpTypeOK
<1>3. CountInv'
  <2>1. CASE DelAttempts  BY <1>0, <1>1, <2>1, CountDeleted DEF OtpInv
  <2>2. CASE UNCHANGED <<attempts, outlived, crossed>>
    <3>1. Fresh' \subseteq Fresh  BY <1>0, <1>1, <2>2 DEF Fresh
    <3> QED  BY <1>0, <2>2, <3>1, CountKept DEF OtpInv
  <2> QED  BY <2>1, <2>2 DEF Lapses
<1>4. SendInv'
  <2> SUFFICES ASSUME ~lapsed', failures = 0, ~devPhone
               PROVE  SendInv'
    BY <1>0 DEF SendInv
  <2>1. /\ ~lapsed /\ (Holding # {} => mutex') /\ hasty' \subseteq hasty
        /\ \A u \in hasty' : At(u, "put") \/ (active' = active /\ hasty' = hasty)
    BY <1>0 DEF OtpInv, SendInv, Lapses, DelActive, OtpTyped, OtpTypeOK
  <2> QED  BY <1>0, <1>1, <2>1 DEF OtpInv, SendInv, At, Holding
<1>5. DevPhoneInv'  BY <1>0 DEF OtpInv, DevPhoneInv, Lapses, DelActive
<1>6. CountersLapse'
  <2>1. attempts' = attempts \/ attempts'.n = 0  BY DEF Lapses, DelAttempts, NoCount
  <2>2. sends' = sends \/ sends'.n = 0  BY DEF Lapses
  <2> QED  BY <1>0, <2>1, <2>2 DEF OtpInv, CountersLapse, At
<1> QED  BY <1>1, <1>2, <1>3, <1>4, <1>5, <1>6 DEF OtpInv

\* A call that dies; after that only the count of questions is still bounded.
LEMMA OtpFail ==
    ASSUME OtpInv, NEW t \in Tasks, Fails(t), UNCHANGED otpVars
    PROVE  OtpInv'
<1>0. OtpTyped /\ failures \in Nat /\ failures' = failures + 1 /\ failures' > 0
  BY DEF OtpInv, OtpTyped, Fails
<1>2. /\ task' \in [Tasks -> OtpTasks] /\ \A u \in Tasks \ {t} : task'[u] = task[u]
      /\ At(t, "failed")'
  <2>1. Failed \in OtpTasks /\ Failed.at = "failed"  BY DEF OtpTasks, Failed
  <2>2. task' = [task EXCEPT ![t] = Failed] /\ task \in [Tasks -> OtpTasks]
    BY <1>0 DEF OtpTyped, Fails
  <2> QED  BY <2>1, <2>2 DEF At
<1>3. OtpTyped'  BY <1>0, <1>2 DEF OtpTyped, OtpTypeOK, otpVars
<1>4. CountInv'
  <2>1. Fresh' \subseteq Fresh  BY <1>0, <1>2, FreshShrinks DEF Counted, At, otpVars
  <2> QED  BY <1>0, <2>1, CountKept DEF OtpInv, otpVars
<1>5. AskInv'  BY <1>0, <1>2, AskKept DEF OtpInv, Early, At, otpVars
<1>6. SendInv' /\ CountersLapse'  BY <1>0 DEF SendInv, CountersLapse
<1>7. DevPhoneInv'  BY <1>0, <1>2, DevPhoneKept DEF OtpInv, At, otpVars
<1> QED  BY <1>3, <1>4, <1>5, <1>6, <1>7 DEF OtpInv

\* A stuttering step changes nothing the invariant reads.
LEMMA OtpStutter ==
    ASSUME OtpInv, UNCHANGED <<taskVars, otpVars>>
    PROVE  OtpInv'
<1> USE DEF taskVars, otpVars
<1>1. OtpTyped' /\ AskInv' /\ SendInv' /\ DevPhoneInv' /\ CountersLapse'
  BY DEF OtpInv, OtpTyped, OtpTypeOK, AskInv, SendInv, DevPhoneInv, CountersLapse, At, Holding
<1>2. CountInv'
  <2>1. Fresh' = Fresh /\ Room' = Room  BY DEF Fresh, Counted, Room
  <2> QED  BY <2>1 DEF OtpInv, CountInv
<1> QED  BY <1>1, <1>2 DEF OtpInv

\* The invariant holds at first.
LEMMA OtpStarts == TasksInit /\ OtpInit => OtpInv
<1> SUFFICES ASSUME TasksInit, OtpInit
             PROVE  OtpInv
  OBVIOUS
<1>1. \A t \in Tasks : task[t] = New /\ task[t].at = "new"  BY DEF TasksInit, New
<1>2. OtpTyped
  <2>1. New \in OtpTasks  BY DEF OtpTasks
  <2> QED  BY <2>1 DEF OtpTyped, OtpTypeOK, TasksInit, OtpInit, NoSession, NoCount, Codes
<1>3. CountInv
  <2>1. Fresh = {}  BY <1>1 DEF Fresh, Counted
  <2>2. IsFiniteSet(Fresh) /\ Cardinality(Fresh) = 0  BY <2>1, FS_EmptySet
  <2> QED  BY <2>2, OtpAssumption DEF CountInv, Room, OtpInit, NoCount, Codes
<1>4. AskInv  BY <1>1, OtpAssumption DEF AskInv, OtpInit, At, Codes
<1>5. SendInv /\ DevPhoneInv  BY <1>1 DEF SendInv, DevPhoneInv, OtpInit, Holding, At
<1>6. CountersLapse  BY DEF CountersLapse, OtpInit, NoCount
<1> QED  BY <1>2, <1>3, <1>4, <1>5, <1>6 DEF OtpInv

\* The invariant holds in every state the codes reach.
LEMMA OtpAlways == OtpSpec => []OtpInv
<1>1. OtpInv /\ [OtpNext]_<<taskVars, otpVars>> => OtpInv'
  BY OtpTime, OtpBegin, OtpRead, OtpRelease, OtpGuard, OtpAllow, OtpWindow, OtpAutogen, OtpPut,
     OtpReset, OtpGetActive, OtpIncr, OtpExpire, OtpLock, OtpGoOn, OtpAsk, OtpDrop, OtpClear,
     OtpFail, OtpStutter
  DEF OtpNext, OtpRequests
<1> QED  BY <1>1, OtpStarts, PTL DEF OtpSpec

\* The codes' state has its type in every state.
THEOREM OtpTypeCorrect == OtpSpec => []OtpTypeOK
<1>1. OtpInv => OtpTypeOK  BY DEF OtpInv, OtpTyped
<1> QED  BY <1>1, OtpAlways, PTL

\* For any number of calls: a code is checked too often only across a deletion of the count, two
\* codes come within one window only after the mutex ran out or a call died, and a counter keeps
\* no TTL only after the call that was to set it died.  About send and verify of OtpService.
THEOREM CodesStayLimited == OtpSpec => []OtpLimits
<1>1. OtpInv => OtpLimits
  <2> SUFFICES ASSUME OtpInv
               PROVE  OtpLimits
    OBVIOUS
  <2>1. AttemptsBounded
    <3> SUFFICES ASSUME NEW c \in Tasks, c \notin crossed
                 PROVE  ~(asked[c] > MaxVerifyAttempts)
      BY DEF AttemptsBounded
    <3>1. asked[c] <= MaxVerifyAttempts /\ asked[c] \in Nat
      BY DEF OtpInv, CountInv, Codes, OtpTyped, OtpTypeOK
    <3> QED  BY <3>1, OtpAssumption
  <2>2. NoHastyResend
    <3> SUFFICES ASSUME ~lapsed, ~(failures > 0)
                 PROVE  ~(Cardinality(hasty) > 1)
      BY DEF NoHastyResend
    <3>1. \A u, v \in hasty : u = v  BY DEF OtpInv, OtpTyped, SendInv, DevPhoneInv
    <3>2. CASE hasty = {}
      <4>1. Cardinality(hasty) = 0  BY <3>2, FS_EmptySet
      <4> QED  BY <4>1
    <3>3. ASSUME NEW u \in hasty
          PROVE  Cardinality(hasty) = 1
      <4>1. hasty = {u}  BY <3>1, <3>3
      <4> QED  BY <4>1, FS_Singleton
    <3> QED  BY <3>2, <3>3
  <2> QED  BY <2>1, <2>2 DEF OtpLimits, OtpInv
<1> QED  BY <1>1, OtpAlways, PTL

----------------------------------------------------------------------------
(* Recovery: the request and the backup codes                              *)

RecSpec == TasksInit /\ RecInit /\ [][RecNext]_<<taskVars, recVars>>

\* What a call may stand at.
RecTasks ==
    {New, Failed}
    \cup [op : {"begin"}, at : {"over"}]
    \cup [op : {"factor"}, id : Ids, factor : Factors, at : {"get", "failed"}]
    \cup [op : {"factor"}, id : Ids, factor : Factors, seen : RequestRows, at : {"set", "over"}]
    \cup [op : {"complete"}, id : Ids, at : {"signOut", "consume", "over"}]
    \cup [op : {"issue"}, at : {"insert", "over"}]

RecTyped == RecTypeOK /\ task \in [Tasks -> RecTasks] /\ failures \in Nat

\* A request that was not begun has neither a value nor a factor.
BegunInv ==
    /\ \A t \in Tasks :
          At(t, "get") \/ At(t, "set") \/ Under(t, "complete") \/ Over(t, "complete") => task[t].id \in Begun
    /\ \A r \in Tasks : r \notin Begun => request[r] = NoRequest /\ given[r] = {}

\* A call that is about to write the request back saw every factor, or another one that wrote
\* (lost) or removed (late) it in between is on record.
FactorInv ==
    /\ \A r \in Ids : r \notin lost \cup late =>
          /\ request[r] # NoRequest => given[r] \subseteq request[r].factors
          /\ \A t \in Tasks : At(t, "set") /\ task[t].id = r => given[r] \subseteq task[t].seen.factors
    /\ \A t \in Tasks, r \in Ids : At(t, "set") /\ task[t].id = r /\ request[r] = NoRequest => r \in late
    /\ \A r \in Ids : request[r] # NoRequest /\ request[r].lasting => r \in late

Signed(t, r)   == At(t, "consume") /\ task[t].id = r
Consumed(t, r) == Over(t, "complete") /\ task[t].id = r

\* Who signed the devices out and did not consume the request yet is still at work; after the
\* one who did consume it there is no request to complete.
CompleteInv ==
    failures = 0 => \A r \in Ids \ late :
        /\ \A t \in Tasks : Consumed(t, r) => request[r] = NoRequest /\ completed[r] <= 1 /\ Completing(r) = {}
        /\ \/ \E t \in Tasks : Consumed(t, r)
           \/ /\ completed[r] > 0 => \E t \in Tasks : Signed(t, r)
              /\ completed[r] > 1 => \E t, u \in Tasks : t # u /\ Signed(t, r) /\ Signed(u, r)

\* Two sets of codes, there or about to be, cross.
CodesInv ==
    /\ \A c, d \in codes : c # d => {c, d} \cap crossing # {}
    /\ \A c \in codes, t \in Tasks : At(t, "insert") => {c, t} \cap crossing # {}
    /\ \A t, u \in Tasks : t # u /\ At(t, "insert") /\ At(u, "insert") => {t, u} \cap crossing # {}

RecInv == RecTyped /\ BegunInv /\ FactorInv /\ CompleteInv /\ CodesInv

\* What is known of a call by where it stands.
LEMMA RecPlaces ==
    ASSUME RecTyped, NEW t \in Tasks
    PROVE  /\ At(t, "new") <=> task[t] = New
           /\ At(t, "get") => task[t] \in [op : {"factor"}, id : Ids, factor : Factors, at : {"get"}]
           /\ At(t, "set") => task[t] \in [op : {"factor"}, id : Ids, factor : Factors, seen : RequestRows, at : {"set"}]
           /\ At(t, "signOut") \/ At(t, "consume") \/ Under(t, "complete") \/ Over(t, "complete")
                => task[t] \in [op : {"complete"}, id : Ids, at : {"signOut", "consume", "over"}]
           /\ Under(t, "complete") <=> At(t, "signOut") \/ At(t, "consume")
           /\ At(t, "insert") => task[t] = [op |-> "issue", at |-> "insert"]
<1>1. task[t] \in RecTasks  BY DEF RecTyped
<1> QED  BY <1>1 DEF RecTasks, New, Failed, At, Under, Over

\* A step moves one call.
LEMMA RecMoves ==
    ASSUME RecTyped, NEW t \in Tasks, NEW r \in RecTasks, task' = [task EXCEPT ![t] = r]
    PROVE  /\ task' \in [Tasks -> RecTasks] /\ task'[t] = r
           /\ \A u \in Tasks \ {t} : task'[u] = task[u]
BY DEF RecTyped

\* The calls of the codes and those of the request leave each other alone.
LEMMA CodesApart ==
    ASSUME CodesInv, UNCHANGED codeVars, \A t \in Tasks : At(t, "insert")' => At(t, "insert")
    PROVE  CodesInv'
BY DEF CodesInv, codeVars, At

\* Issuing codes is no business of the requests.
LEMMA RequestApart ==
    ASSUME RecTyped, BegunInv, FactorInv, CompleteInv, NEW t \in Tasks,
           \A u \in Tasks \ {t} : task'[u] = task[u],
           At(t, "new") \/ At(t, "insert"), task'[t].at \in {"insert", "over"}, task'[t].op = "issue",
           UNCHANGED <<failures, request, given, lost, late, completed>>
    PROVE  BegunInv' /\ FactorInv' /\ CompleteInv'
<1>1. \A u \in Tasks : \A op : op # "issue" => (Over(u, op)' <=> Over(u, op)) /\ (Under(u, op)' <=> Under(u, op))
  BY RecPlaces DEF Over, Under, At, New
<1>2. \A u \in Tasks : \A p : p \notin {"new", "insert", "over"} => (At(u, p)' <=> At(u, p))
  BY DEF At
<1>3. \A u \in Tasks : At(u, "get") \/ At(u, "set") \/ At(u, "consume") \/ Under(u, "complete") \/ Over(u, "complete")
        => u # t
  BY RecPlaces DEF At, Under, Over, New
<1>4. Begun' = Begun  BY <1>1 DEF Begun
<1>5. BegunInv'  BY <1>1, <1>2, <1>3, <1>4 DEF BegunInv
<1>6. FactorInv'  BY <1>2, <1>3 DEF FactorInv, Ids
<1>7. \A u \in Tasks, r \in Ids : (Consumed(u, r)' <=> Consumed(u, r)) /\ (Signed(u, r)' <=> Signed(u, r))
  BY <1>1, <1>2, <1>3 DEF Consumed, Signed
<1>8. \A r \in Ids : Completing(r)' = Completing(r)  BY <1>1, <1>3 DEF Completing
<1>9. CompleteInv'  BY <1>7, <1>8 DEF CompleteInv, Ids
<1> QED  BY <1>5, <1>6, <1>9

\* The old codes go; whoever is about to insert is crossed.
LEMMA RecDelete ==
    ASSUME RecInv, NEW t \in Tasks, DeleteCodes(t)
    PROVE  RecInv'
<1>0. RecTyped  BY DEF RecInv
<1> DEFINE r == [op |-> "issue", at |-> "insert"]
<1>r. r \in RecTasks /\ r.at = "insert" /\ r.op = "issue"  BY DEF RecTasks
<1>1. task' = [task EXCEPT ![t] = r] /\ At(t, "new")  BY DEF DeleteCodes, Begins, At, New
<1> HIDE DEF r
<1>2. /\ task' \in [Tasks -> RecTasks] /\ task'[t] = r /\ \A u \in Tasks \ {t} : task'[u] = task[u]
      /\ codes' = {} /\ crossing' = IF Issuing # {} THEN crossing \cup Issuing \cup {t} ELSE crossing
      /\ UNCHANGED <<failures, request, given, lost, late, completed>>
  BY <1>0, <1>r, <1>1, RecMoves DEF DeleteCodes, NoCodes
<1>3. RecTyped'  BY <1>0, <1>2 DEF RecTyped, RecTypeOK, Issuing, Ids
<1>4. BegunInv' /\ FactorInv' /\ CompleteInv'  BY <1>0, <1>r, <1>1, <1>2, RequestApart DEF RecInv
<1>5. CodesInv'  BY <1>r, <1>1, <1>2 DEF RecInv, CodesInv, Issuing, At
<1> QED  BY <1>3, <1>4, <1>5 DEF RecInv

\* The new codes are one set, or two crossed ones.
LEMMA RecInsert ==
    ASSUME RecInv, NEW t \in Tasks, InsertCodes(t)
    PROVE  RecInv'
<1>0. RecTyped  BY DEF RecInv
<1> DEFINE r == [op |-> "issue", at |-> "over"]
<1>r. r \in RecTasks /\ r.at = "over" /\ r.op = "issue"  BY DEF RecTasks
<1>1. task' = [task EXCEPT ![t] = r] /\ At(t, "insert")
  <2>1. At(t, "insert") /\ task[t] = [op |-> "issue", at |-> "insert"]
    BY <1>0, RecPlaces DEF InsertCodes
  <2>2. [task[t] EXCEPT !.at = "over"] = r  BY <2>1
  <2> QED  BY <2>1, <2>2 DEF InsertCodes, Goes
<1> HIDE DEF r
<1>2. /\ task' \in [Tasks -> RecTasks] /\ task'[t] = r /\ \A u \in Tasks \ {t} : task'[u] = task[u]
      /\ codes' = codes \cup {t} /\ UNCHANGED <<failures, request, given, lost, late, completed, crossing>>
  BY <1>0, <1>r, <1>1, RecMoves DEF InsertCodes
<1>3. RecTyped'  BY <1>0, <1>2 DEF RecTyped, RecTypeOK, Ids
<1>4. BegunInv' /\ FactorInv' /\ CompleteInv'  BY <1>0, <1>r, <1>1, <1>2, RequestApart DEF RecInv
<1>5. CodesInv'  BY <1>r, <1>1, <1>2 DEF RecInv, CodesInv, At
<1> QED  BY <1>3, <1>4, <1>5 DEF RecInv

\* A new request has nothing to remember.
LEMMA RecBegin ==
    ASSUME RecInv, NEW t \in Tasks, RecoveryBegin(t)
    PROVE  RecInv'
<1>0. RecTyped  BY DEF RecInv
<1> DEFINE r == [op |-> "begin", at |-> "over"]
<1>r. r \in RecTasks /\ r.at = "over" /\ r.op = "begin"  BY DEF RecTasks
<1>1. task' = [task EXCEPT ![t] = r] /\ At(t, "new")  BY DEF RecoveryBegin, Begins, At, New
<1> HIDE DEF r
<1>2. /\ task' \in [Tasks -> RecTasks] /\ task'[t] = r /\ \A u \in Tasks \ {t} : task'[u] = task[u]
      /\ request' = [request EXCEPT ![t] = NewRequest]
      /\ UNCHANGED <<failures, given, lost, late, completed, codeVars>>
  BY <1>0, <1>r, <1>1, RecMoves DEF RecoveryBegin
<1>n. NewRequest \in RequestRows /\ ~NewRequest.lasting  BY DEF NewRequest, RequestRows
<1>q. t \in Ids /\ request'[t] = NewRequest /\ \A i \in Ids \ {t} : request'[i] = request[i]
  BY <1>0, <1>2 DEF RecTyped, RecTypeOK, Ids
<1>3. RecTyped'  BY <1>0, <1>2, <1>n DEF RecTyped, RecTypeOK, RequestRows, codeVars
<1>4. t \notin Begun /\ Begun' = Begun \cup {t}
  BY <1>r, <1>1, <1>2, RecoveryAssumption DEF Begun, Over, At
<1>5. /\ given[t] = {}
      /\ \A u \in Tasks : At(u, "get") \/ At(u, "set") \/ Under(u, "complete") \/ Over(u, "complete")
            => u # t /\ task[u].id # t
  BY <1>1, <1>4 DEF RecInv, BegunInv, At, Under, Over
<1>6. BegunInv'  BY <1>r, <1>1, <1>2, <1>4, <1>q DEF RecInv, BegunInv, At, Under, Over, Ids
<1>7. FactorInv'  BY <1>r, <1>1, <1>2, <1>5, <1>n, <1>q DEF RecInv, FactorInv, At, Ids
<1>8. CompleteInv'
  <2>1. \A u \in Tasks, x \in Ids : (Signed(u, x)' <=> Signed(u, x))
    BY <1>r, <1>1, <1>2 DEF Signed, At
  <2>2. \A u \in Tasks, x \in Ids : (Consumed(u, x)' <=> Consumed(u, x))
    BY <1>r, <1>1, <1>2 DEF Consumed, Over, At
  <2>3. \A x \in Ids : Completing(x)' = Completing(x)  BY <1>r, <1>1, <1>2 DEF Completing, Under, At
  <2>4. \A u \in Tasks : ~Consumed(u, t)  BY <1>5 DEF Consumed
  <2> QED  BY <1>2, <1>q, <2>1, <2>2, <2>3, <2>4 DEF RecInv, CompleteInv, Ids
<1>9. CodesInv'  BY <1>r, <1>1, <1>2, CodesApart DEF RecInv, At
<1> QED  BY <1>3, <1>6, <1>7, <1>8, <1>9 DEF RecInv

\* A step that is no completion's, and after which no request is there again unless it was late.
LEMMA CompleteApart ==
    ASSUME CompleteInv, NEW t \in Tasks, \A u \in Tasks \ {t} : task'[u] = task[u],
           ~At(t, "consume"), ~Under(t, "complete"), ~Over(t, "complete"),
           ~At(t, "consume")', ~Under(t, "complete")', ~Over(t, "complete")',
           UNCHANGED <<failures, completed>>, late \subseteq late',
           \A r \in Ids \ late' : request[r] = NoRequest => request'[r] = NoRequest
    PROVE  CompleteInv'
<1>1. \A u \in Tasks, r \in Ids : (Consumed(u, r)' <=> Consumed(u, r)) /\ (Signed(u, r)' <=> Signed(u, r))
  BY DEF Consumed, Signed, Over, At
<1>2. \A r \in Ids : Completing(r)' = Completing(r)  BY DEF Completing, Under
<1> QED  BY <1>1, <1>2 DEF CompleteInv, Ids

\* A proof of a factor begins by reading the request.
LEMMA RecProve ==
    ASSUME RecInv, NEW t \in Tasks, UseBackupCode(t) \/ ProveFactor(t)
    PROVE  RecInv'
<1>0. RecTyped /\ Begun \subseteq Ids  BY DEF RecInv, Begun, Ids
<1>1. PICK x \in Begun, f \in Factors : Begins(t, [op |-> "factor", id |-> x, factor |-> f, at |-> "get"])
  BY RecoveryAssumption DEF UseBackupCode, ProveFactor
<1> DEFINE r == [op |-> "factor", id |-> x, factor |-> f, at |-> "get"]
<1>r. r \in RecTasks /\ r.at = "get" /\ r.id = x /\ r.op = "factor"  BY <1>0 DEF RecTasks
<1>2. task' = [task EXCEPT ![t] = r] /\ At(t, "new") /\ codes' \subseteq codes
      /\ UNCHANGED <<failures, request, given, lost, late, completed, crossing>>
  <2>1. task' = [task EXCEPT ![t] = r] /\ At(t, "new")  BY <1>1 DEF Begins, At, New
  <2>2. codes' \subseteq codes /\ UNCHANGED <<failures, request, given, lost, late, completed, crossing>>
    BY DEF UseBackupCode, ProveFactor, recVars
  <2> QED  BY <2>1, <2>2
<1> HIDE DEF r
<1>3. /\ task' \in [Tasks -> RecTasks] /\ task'[t] = r /\ \A u \in Tasks \ {t} : task'[u] = task[u]
  BY <1>0, <1>r, <1>2, RecMoves
<1>4. RecTyped'  BY <1>0, <1>2, <1>3 DEF RecTyped, RecTypeOK, Ids
<1>5. Begun' = Begun  BY <1>r, <1>2, <1>3 DEF Begun, Over, At
<1>6. BegunInv'  BY <1>r, <1>2, <1>3, <1>5 DEF RecInv, BegunInv, At, Under, Over
<1>7. FactorInv'  BY <1>r, <1>2, <1>3 DEF RecInv, FactorInv, At, Ids
<1>8. CompleteInv'  BY <1>r, <1>2, <1>3, CompleteApart DEF RecInv, At, Under, Over
<1>9. CodesInv'  BY <1>r, <1>2, <1>3 DEF RecInv, CodesInv, At
<1> QED  BY <1>4, <1>6, <1>7, <1>8, <1>9 DEF RecInv

\* What is read is what is there.
LEMMA RecGet ==
    ASSUME RecInv, NEW t \in Tasks, GetRequest(t)
    PROVE  RecInv'
<1>0. RecTyped /\ request \in [Ids -> RequestRows \cup {NoRequest}]
  BY DEF RecInv, RecTyped, RecTypeOK
<1>1. PICK x \in Ids : x = task[t].id /\ At(t, "get")  BY <1>0, RecPlaces DEF GetRequest
<1>2. PICK r \in RecTasks : /\ task' = [task EXCEPT ![t] = r]
                            /\ r.op = "factor"
                            /\ r.at = "failed" \/ (r.at = "set" /\ r.id = x /\ request[x] # NoRequest /\ r.seen = request[x])
  <2>1. CASE request[x] = NoRequest
    <3> DEFINE r == [task[t] EXCEPT !.at = "failed"]
    <3>1. r \in RecTasks /\ r.at = "failed" /\ r.op = "factor"
      BY <1>0, <1>1, RecPlaces DEF RecTasks
    <3> QED  BY <1>1, <2>1, <3>1 DEF GetRequest, Goes
  <2>2. CASE request[x] # NoRequest
    <3> DEFINE r == With(task[t], "seen", request[x], "set")
    <3>1. request[x] \in RequestRows  BY <1>0, <2>2
    <3>2. r \in RecTasks /\ r.at = "set" /\ r.op = "factor" /\ r.id = x /\ r.seen = request[x]
      BY <1>0, <1>1, <3>1, RecPlaces DEF RecTasks, With
    <3> QED  BY <1>1, <2>2, <3>2 DEF GetRequest, GoesWith
  <2> QED  BY <2>1, <2>2
<1>3. /\ task' \in [Tasks -> RecTasks] /\ task'[t] = r /\ \A u \in Tasks \ {t} : task'[u] = task[u]
      /\ UNCHANGED <<failures, request, given, lost, late, completed, codes, crossing>>
  BY <1>0, <1>2, RecMoves DEF GetRequest, recVars
<1>4. RecTyped'  BY <1>0, <1>3 DEF RecTyped, RecTypeOK, Ids
<1>5. Begun' = Begun  BY <1>1, <1>2, <1>3 DEF Begun, Over, At
<1>6. BegunInv'  BY <1>1, <1>2, <1>3, <1>5 DEF RecInv, BegunInv, At, Under, Over
<1>7. FactorInv'  BY <1>1, <1>2, <1>3 DEF RecInv, FactorInv, At, Ids
<1>8. CompleteInv'
  <2>1. ~Under(t, "complete")  BY <1>0, <1>1, RecPlaces DEF At
  <2> QED  BY <1>1, <1>2, <1>3, <2>1, CompleteApart DEF RecInv, At, Under, Over
<1>9. CodesInv'  BY <1>2, <1>3 DEF RecInv, CodesInv, At
<1> QED  BY <1>4, <1>6, <1>7, <1>8, <1>9 DEF RecInv

\* What is written is what was read and the factor; another factor written between is lost.
LEMMA RecSet ==
    ASSUME RecInv, NEW t \in Tasks, SetRequest(t)
    PROVE  RecInv'
<1>0. /\ RecTyped /\ request \in [Ids -> RequestRows \cup {NoRequest}] /\ given \in [Ids -> SUBSET Factors]
      /\ lost \subseteq Ids
  BY DEF RecInv, RecTyped, RecTypeOK
<1>1. /\ At(t, "set")
      /\ task[t] \in [op : {"factor"}, id : Ids, factor : Factors, seen : RequestRows, at : {"set"}]
  BY <1>0, RecPlaces DEF SetRequest
<1>2. PICK x \in Ids, f \in Factors, s \in RequestRows : x = task[t].id /\ f = task[t].factor /\ s = task[t].seen
  BY <1>1
<1> DEFINE r == [task[t] EXCEPT !.at = "over"]
           q == [factors |-> s.factors \cup {f}, cooled |-> s.cooled,
                 lasting |-> IF request[x] = NoRequest THEN TRUE ELSE request[x].lasting]
<1>r. r \in RecTasks /\ r.at = "over" /\ r.op = "factor" /\ task' = [task EXCEPT ![t] = r]
  BY <1>1 DEF RecTasks, SetRequest, Goes
<1>q. q \in RequestRows /\ q # NoRequest /\ q.factors = s.factors \cup {f}
      /\ q.lasting = IF request[x] = NoRequest THEN TRUE ELSE request[x].lasting
  <2>1. q \in RequestRows  BY <1>0, <1>2 DEF RequestRows
  <2> QED  BY <2>1, RecoveryAssumption
<1>3. /\ task' \in [Tasks -> RecTasks] /\ task'[t] = r /\ \A u \in Tasks \ {t} : task'[u] = task[u]
      /\ UNCHANGED <<failures, late, completed, codes, crossing>>
      /\ request' = [request EXCEPT ![x] = q] /\ given' = [given EXCEPT ![x] = given[x] \cup {f}]
      /\ lost' = IF Adding(x) # {t} THEN lost \cup {x} ELSE lost
  BY <1>0, <1>r, <1>2, RecMoves DEF SetRequest, codeVars, WithFactor
<1> HIDE DEF r, q
<1>m. /\ request'[x] = q /\ given'[x] = given[x] \cup {f}
      /\ \A y \in Ids \ {x} : request'[y] = request[y] /\ given'[y] = given[y]
      /\ request' \in [Ids -> RequestRows \cup {NoRequest}] /\ given' \in [Ids -> SUBSET Factors]
  BY <1>0, <1>q, <1>3
<1>4. RecTyped'  BY <1>0, <1>2, <1>3, <1>m DEF RecTyped, RecTypeOK, Ids
<1>5. Begun' = Begun /\ x \in Begun  BY <1>1, <1>2, <1>3, <1>r DEF RecInv, BegunInv, Begun, Over, At
<1>6. BegunInv'
  <2>1. \A y \in Tasks : y \notin Begun => y # x /\ y \in Ids  BY <1>5 DEF Ids
  <2> QED  BY <1>1, <1>r, <1>3, <1>5, <1>m, <2>1 DEF RecInv, BegunInv, At, Under, Over
<1>7. FactorInv'
  <2>1. ASSUME NEW y \in Ids, y \notin lost' \cup late'
        PROVE  /\ request'[y] # NoRequest => given'[y] \subseteq request'[y].factors
               /\ \A u \in Tasks : At(u, "set")' /\ task'[u].id = y => given'[y] \subseteq task'[u].seen.factors
    <3>0. y \notin lost \cup late  BY <1>3, <2>1
    <3>1. CASE y = x
      <4>1. Adding(x) = {t}  BY <1>2, <1>3, <2>1, <3>1
      <4>2. given[x] \subseteq s.factors  BY <1>1, <1>2, <3>0, <3>1 DEF RecInv, FactorInv
      <4>3. \A u \in Tasks : ~(At(u, "set")' /\ task'[u].id = x)  BY <1>r, <1>3, <4>1 DEF Adding, At
      <4> QED  BY <1>q, <1>m, <3>1, <4>2, <4>3
    <3>2. CASE y # x  BY <1>r, <1>3, <1>m, <3>0, <3>2 DEF RecInv, FactorInv, At
    <3> QED  BY <3>1, <3>2
  <2>2. ASSUME NEW u \in Tasks, NEW y \in Ids, At(u, "set")', task'[u].id = y, request'[y] = NoRequest
        PROVE  y \in late'
    <3>1. u # t /\ y # x  BY <1>r, <1>q, <1>3, <1>m, <2>2 DEF At
    <3>2. At(u, "set") /\ task[u].id = y /\ request[y] = NoRequest  BY <1>3, <1>m, <2>2, <3>1 DEF At
    <3> QED  BY <1>3, <3>2 DEF RecInv, FactorInv
  <2>3. ASSUME NEW y \in Ids, request'[y] # NoRequest, request'[y].lasting
        PROVE  y \in late'
    <3>1. CASE y # x  BY <1>3, <1>m, <2>3, <3>1 DEF RecInv, FactorInv
    <3>2. CASE y = x /\ request[x] = NoRequest  BY <1>1, <1>2, <1>3, <3>2 DEF RecInv, FactorInv
    <3>3. CASE y = x /\ request[x] # NoRequest
      BY <1>q, <1>3, <1>m, <2>3, <3>3 DEF RecInv, FactorInv
    <3> QED  BY <3>1, <3>2, <3>3
  <2> QED  BY <2>1, <2>2, <2>3 DEF FactorInv, Ids
<1>8. CompleteInv'
  <2>1. \A y \in Ids \ late' : request[y] = NoRequest => request'[y] = NoRequest
    BY <1>1, <1>2, <1>3, <1>m DEF RecInv, FactorInv
  <2>2. ~Under(t, "complete")  BY <1>0, <1>1, RecPlaces DEF At
  <2>3. late \subseteq late' /\ UNCHANGED <<failures, completed>>  BY <1>3
  <2> QED  BY <1>1, <1>r, <1>3, <2>1, <2>2, <2>3, CompleteApart DEF RecInv, At, Under, Over
<1>9. CodesInv'  BY <1>r, <1>3 DEF RecInv, CodesInv, At
<1> QED  BY <1>4, <1>6, <1>7, <1>8, <1>9 DEF RecInv

\* A completion begins.
LEMMA RecAssert ==
    ASSUME RecInv, NEW t \in Tasks, AssertCompletable(t)
    PROVE  RecInv'
<1>0. RecTyped  BY DEF RecInv
<1>1. PICK x \in Ids : request[x] # NoRequest /\ Begins(t, [op |-> "complete", id |-> x, at |-> "signOut"])
  BY DEF AssertCompletable
<1> DEFINE r == [op |-> "complete", id |-> x, at |-> "signOut"]
<1>r. r \in RecTasks /\ r.at = "signOut" /\ r.id = x /\ r.op = "complete"  BY DEF RecTasks
<1>2. task' = [task EXCEPT ![t] = r] /\ At(t, "new")  BY <1>1 DEF Begins, At, New
<1>u. UNCHANGED <<failures, request, given, lost, late, completed, codes, crossing>>
  BY DEF AssertCompletable, recVars
<1> HIDE DEF r
<1>3. /\ task' \in [Tasks -> RecTasks] /\ task'[t] = r /\ \A u \in Tasks \ {t} : task'[u] = task[u]
  BY <1>0, <1>r, <1>2, RecMoves
<1>4. RecTyped'  BY <1>0, <1>u, <1>3 DEF RecTyped, RecTypeOK, Ids
<1>5. Begun' = Begun /\ x \in Begun
  BY <1>1, <1>r, <1>2, <1>3 DEF Begun, Over, At, RecInv, BegunInv, Ids
<1>6. BegunInv'  BY <1>r, <1>2, <1>3, <1>u, <1>5 DEF RecInv, BegunInv, At, Under, Over
<1>7. FactorInv'  BY <1>r, <1>2, <1>3, <1>u DEF RecInv, FactorInv, At, Ids
<1>8. CompleteInv'
  <2>1. \A u \in Tasks, y \in Ids : (Consumed(u, y)' <=> Consumed(u, y)) /\ (Signed(u, y)' <=> Signed(u, y))
    BY <1>r, <1>2, <1>3 DEF Consumed, Signed, Over, At
  <2>2. \A y \in Ids \ {x} : Completing(y)' = Completing(y)
    BY <1>r, <1>2, <1>3 DEF Completing, Under, At
  <2> SUFFICES ASSUME failures = 0, NEW y \in Ids \ late
               PROVE  /\ \A u \in Tasks : Consumed(u, y) => request[y] = NoRequest /\ completed[y] <= 1 /\ Completing(y)' = {}
                      /\ \/ \E u \in Tasks : Consumed(u, y)
                         \/ /\ completed[y] > 0 => \E u \in Tasks : Signed(u, y)
                            /\ completed[y] > 1 => \E u, v \in Tasks : u # v /\ Signed(u, y) /\ Signed(v, y)
    BY <1>u, <2>1 DEF CompleteInv, Ids
  <2> QED  BY <1>1, <2>2 DEF RecInv, CompleteInv
<1>9. CodesInv'  BY <1>r, <1>2, <1>3, <1>u DEF RecInv, CodesInv, At
<1> QED  BY <1>4, <1>6, <1>7, <1>8, <1>9 DEF RecInv

\* A completion signs out before it consumes.
LEMMA RecSignOut ==
    ASSUME RecInv, NEW t \in Tasks, SignOut(t)
    PROVE  RecInv'
<1>0. RecTyped /\ completed \in [Ids -> Nat]  BY DEF RecInv, RecTyped, RecTypeOK
<1>1. /\ At(t, "signOut") /\ Under(t, "complete")
      /\ task[t] \in [op : {"complete"}, id : Ids, at : {"signOut", "consume", "over"}]
  BY <1>0, RecPlaces DEF SignOut
<1>2. PICK x \in Ids : x = task[t].id  BY <1>1
<1> DEFINE r == [task[t] EXCEPT !.at = "consume"]
<1>r. r \in RecTasks /\ r.at = "consume" /\ r.id = x /\ r.op = "complete" /\ task' = [task EXCEPT ![t] = r]
  BY <1>1, <1>2 DEF RecTasks, SignOut, Goes
<1> HIDE DEF r
<1>3. /\ task' \in [Tasks -> RecTasks] /\ task'[t] = r /\ \A u \in Tasks \ {t} : task'[u] = task[u]
      /\ UNCHANGED <<failures, request, given, lost, late, codes, crossing>>
      /\ completed' = [completed EXCEPT ![x] = completed[x] + 1]
  BY <1>0, <1>r, <1>2, RecMoves DEF SignOut, codeVars
<1>m. /\ completed' \in [Ids -> Nat] /\ completed'[x] = completed[x] + 1
      /\ \A y \in Ids \ {x} : completed'[y] = completed[y]
  BY <1>0, <1>3
<1>4. RecTyped'  BY <1>0, <1>m, <1>3 DEF RecTyped, RecTypeOK, Ids
<1>5. Begun' = Begun /\ x \in Begun  BY <1>1, <1>2, <1>r, <1>3 DEF Begun, Over, At, RecInv, BegunInv
<1>6. BegunInv'  BY <1>r, <1>3, <1>5 DEF RecInv, BegunInv, At, Under, Over
<1>7. FactorInv'  BY <1>r, <1>3 DEF RecInv, FactorInv, At, Ids
<1>8. CompleteInv'
  <2>1. /\ \A u \in Tasks, y \in Ids : (Consumed(u, y)' <=> Consumed(u, y))
        /\ \A u \in Tasks, y \in Ids : Signed(u, y)' <=> Signed(u, y) \/ (u = t /\ y = x)
        /\ ~Signed(t, x)
    BY <1>1, <1>2, <1>r, <1>3 DEF Consumed, Signed, Over, At
  <2>2. \A y \in Ids : Completing(y)' = Completing(y)
    BY <1>1, <1>2, <1>r, <1>3 DEF Completing, Under, At
  <2>3. t \in Completing(x)  BY <1>1, <1>2 DEF Completing
  <2>4. ASSUME failures = 0, NEW y \in Ids \ late
        PROVE  /\ \A u \in Tasks : Consumed(u, y) => request[y] = NoRequest /\ completed'[y] <= 1 /\ Completing(y) = {}
               /\ \/ \E u \in Tasks : Consumed(u, y)
                  \/ /\ completed'[y] > 0 => \E u \in Tasks : Signed(u, y)'
                     /\ completed'[y] > 1 => \E u, v \in Tasks : u # v /\ Signed(u, y)' /\ Signed(v, y)'
    <3>1. CASE y # x  BY <2>1, <2>4, <1>m, <3>1 DEF RecInv, CompleteInv
    <3>2. CASE y = x
      <4>1. ~\E u \in Tasks : Consumed(u, x)  BY <2>3, <2>4, <3>2 DEF RecInv, CompleteInv
      <4>2. completed[x] \in Nat /\ (completed[x] > 0 => \E u \in Tasks : Signed(u, x))
        BY <1>0, <2>4, <3>2, <4>1 DEF RecInv, CompleteInv
      <4>3. completed'[x] > 1 => \E u \in Tasks : u # t /\ Signed(u, x)'  BY <1>m, <2>1, <4>2
      <4> QED  BY <2>1, <3>2, <4>1, <4>3
    <3> QED  BY <3>1, <3>2
  <2> QED  BY <1>3, <2>1, <2>2, <2>4 DEF CompleteInv, Ids
<1>9. CodesInv'  BY <1>r, <1>3 DEF RecInv, CodesInv, At
<1> QED  BY <1>4, <1>6, <1>7, <1>8, <1>9 DEF RecInv

\* A completion is the last of its request, or crossed a factor.
LEMMA RecConsume ==
    ASSUME RecInv, NEW t \in Tasks, Consume(t)
    PROVE  RecInv'
<1>0. RecTyped /\ completed \in [Ids -> Nat] /\ request \in [Ids -> RequestRows \cup {NoRequest}]
  BY DEF RecInv, RecTyped, RecTypeOK
<1>1. /\ At(t, "consume") /\ Under(t, "complete")
      /\ task[t] \in [op : {"complete"}, id : Ids, at : {"signOut", "consume", "over"}]
  BY <1>0, RecPlaces DEF Consume
<1>2. PICK x \in Ids : x = task[t].id  BY <1>1
<1> DEFINE r == [task[t] EXCEPT !.at = "over"]
<1>r. r \in RecTasks /\ r.at = "over" /\ r.id = x /\ r.op = "complete" /\ task' = [task EXCEPT ![t] = r]
  BY <1>1, <1>2 DEF RecTasks, Consume, Goes
<1> HIDE DEF r
<1>3. /\ task' \in [Tasks -> RecTasks] /\ task'[t] = r /\ \A u \in Tasks \ {t} : task'[u] = task[u]
      /\ UNCHANGED <<failures, given, lost, completed, codes, crossing>>
      /\ request' = [request EXCEPT ![x] = NoRequest]
      /\ late' = IF Adding(x) # {} \/ Completing(x) # {t} THEN late \cup {x} ELSE late
  BY <1>0, <1>r, <1>2, RecMoves DEF Consume, WithoutRequest, codeVars
<1>m. /\ request' \in [Ids -> RequestRows \cup {NoRequest}] /\ request'[x] = NoRequest
      /\ \A y \in Ids \ {x} : request'[y] = request[y]
      /\ late \subseteq late' /\ late' \subseteq late \cup {x}
  BY <1>0, <1>3
<1>4. RecTyped'  BY <1>0, <1>m, <1>3 DEF RecTyped, RecTypeOK, Ids
<1>5. Begun' = Begun /\ x \in Begun  BY <1>1, <1>2, <1>r, <1>3 DEF Begun, Over, At, RecInv, BegunInv
<1>6. BegunInv'
  <2>1. \A y \in Tasks : y \notin Begun => y # x /\ y \in Ids  BY <1>5 DEF Ids
  <2> QED  BY <1>1, <1>2, <1>r, <1>3, <1>5, <1>m, <2>1 DEF RecInv, BegunInv, At, Under, Over
<1>7. FactorInv'
  <2>1. \A u \in Tasks : At(u, "set")' => At(u, "set") /\ task'[u] = task[u]  BY <1>r, <1>3 DEF At
  <2>2. \A u \in Tasks : At(u, "set")' /\ task'[u].id = x => x \in late'  BY <1>3, <2>1 DEF Adding
  <2> QED  BY <1>3, <1>m, <2>1, <2>2 DEF RecInv, FactorInv, Ids
<1>8. CompleteInv'
  <2>1. /\ \A u \in Tasks, y \in Ids : Consumed(u, y)' <=> Consumed(u, y) \/ (u = t /\ y = x)
        /\ \A u \in Tasks, y \in Ids : y # x => (Signed(u, y)' <=> Signed(u, y))
        /\ \A u \in Tasks : Signed(u, x) => u \in Completing(x)
    BY <1>0, <1>1, <1>2, <1>r, <1>3, RecPlaces DEF Consumed, Signed, Over, At, Completing
  <2>2. /\ \A y \in Ids \ {x} : Completing(y)' = Completing(y)
        /\ Completing(x)' = Completing(x) \ {t} /\ t \in Completing(x)
    BY <1>1, <1>2, <1>r, <1>3 DEF Completing, Under, At
  <2>4. ASSUME failures = 0, NEW y \in Ids \ late'
        PROVE  /\ \A u \in Tasks : Consumed(u, y)' => request'[y] = NoRequest /\ completed[y] <= 1 /\ Completing(y)' = {}
               /\ \/ \E u \in Tasks : Consumed(u, y)'
                  \/ /\ completed[y] > 0 => \E u \in Tasks : Signed(u, y)'
                     /\ completed[y] > 1 => \E u, v \in Tasks : u # v /\ Signed(u, y)' /\ Signed(v, y)'
    <3>0. y \notin late  BY <1>m, <2>4
    <3>1. CASE y # x  BY <2>1, <2>2, <2>4, <1>m, <3>0, <3>1 DEF RecInv, CompleteInv
    <3>2. CASE y = x
      <4>1. Completing(x) = {t}  BY <1>3, <2>4, <3>2
      <4>2. ~\E u \in Tasks : Consumed(u, x)  BY <2>4, <3>0, <3>2, <4>1 DEF RecInv, CompleteInv
      <4>3. ~(completed[x] > 1) /\ completed[x] \in Nat
        BY <1>0, <2>1, <2>4, <3>0, <3>2, <4>1, <4>2 DEF RecInv, CompleteInv
      <4> QED  BY <1>m, <2>1, <2>2, <3>2, <4>1, <4>3
    <3> QED  BY <3>1, <3>2
  <2> QED  BY <1>3, <2>4 DEF CompleteInv, Ids
<1>9. CodesInv'  BY <1>r, <1>3 DEF RecInv, CodesInv, At
<1> QED  BY <1>4, <1>6, <1>7, <1>8, <1>9 DEF RecInv

\* Time cools a request or ends it.
LEMMA RecAges ==
    ASSUME RecInv, RequestAges
    PROVE  RecInv'
<1>0. RecTyped /\ request \in [Ids -> RequestRows \cup {NoRequest}] /\ late \subseteq Ids
  BY DEF RecInv, RecTyped, RecTypeOK
<1>1. PICK x \in Ids :
        /\ request[x] # NoRequest
        /\ \/ ~request[x].cooled /\ request' = [request EXCEPT ![x].cooled = TRUE] /\ UNCHANGED late
           \/ /\ ~request[x].lasting /\ request' = [request EXCEPT ![x] = NoRequest]
              /\ late' = IF Adding(x) # {} THEN late \cup {x} ELSE late
  BY DEF RequestAges
<1>2. UNCHANGED <<task, failures, given, lost, completed, codes, crossing>>
  BY DEF RequestAges, taskVars, codeVars
<1>3. request[x] \in RequestRows /\ [request[x] EXCEPT !.cooled = TRUE] \in RequestRows
  BY <1>0, <1>1 DEF RequestRows
<1>4. /\ request' \in [Ids -> RequestRows \cup {NoRequest}] /\ late \subseteq late' /\ late' \subseteq Ids
      /\ \A y \in Ids \ {x} : request'[y] = request[y] /\ (y \in late' <=> y \in late)
      /\ request'[x] # NoRequest => /\ request'[x].factors = request[x].factors
                                    /\ request'[x].lasting = request[x].lasting
      /\ request'[x] = NoRequest => (Adding(x) # {} => x \in late')
  BY <1>0, <1>1, <1>3, RecoveryAssumption DEF RequestRows
<1>5. RecTyped'  BY <1>0, <1>2, <1>4 DEF RecTyped, RecTypeOK, Ids
<1>6. BegunInv'  BY <1>1, <1>2, <1>4 DEF RecInv, BegunInv, Begun, At, Under, Over, Ids
<1>7. FactorInv'  BY <1>1, <1>2, <1>4 DEF RecInv, FactorInv, Adding, At, Ids
<1>8. CompleteInv'
  <2>1. \A u \in Tasks, y \in Ids : (Consumed(u, y)' <=> Consumed(u, y)) /\ (Signed(u, y)' <=> Signed(u, y))
    BY <1>2 DEF Consumed, Signed, Over, At
  <2>2. \A y \in Ids : Completing(y)' = Completing(y)  BY <1>2 DEF Completing, Under
  <2> QED  BY <1>1, <1>2, <1>4, <2>1, <2>2 DEF RecInv, CompleteInv, Ids
<1>9. CodesInv'  BY <1>2 DEF RecInv, CodesInv, At
<1> QED  BY <1>5, <1>6, <1>7, <1>8, <1>9 DEF RecInv

\* A call that dies leaves what it has done.
LEMMA RecFails ==
    ASSUME RecInv, NEW t \in Tasks, Fails(t), UNCHANGED recVars
    PROVE  RecInv'
<1>0. RecTyped /\ failures \in Nat  BY DEF RecInv, RecTyped
<1>1. /\ task' \in [Tasks -> RecTasks] /\ task'[t] = Failed /\ \A u \in Tasks \ {t} : task'[u] = task[u]
      /\ failures' = failures + 1 /\ ~At(t, "over")
      /\ UNCHANGED <<request, given, lost, late, completed, codes, crossing>>
  BY <1>0, RecMoves DEF Fails, RecTasks, recVars, At
<1>2. RecTyped'  BY <1>0, <1>1 DEF RecTyped, RecTypeOK, Ids
<1>3. Begun' = Begun  BY <1>1 DEF Begun, Over, At, Failed
<1>4. BegunInv'  BY <1>1, <1>3 DEF RecInv, BegunInv, At, Under, Over, Failed
<1>5. FactorInv'  BY <1>1 DEF RecInv, FactorInv, At, Ids, Failed
<1>6. CompleteInv'  BY <1>0, <1>1 DEF CompleteInv
<1>7. CodesInv'  BY <1>1 DEF RecInv, CodesInv, At, Failed
<1> QED  BY <1>2, <1>4, <1>5, <1>6, <1>7 DEF RecInv

\* The invariant holds at first.
LEMMA RecStarted ==
    ASSUME TasksInit, RecInit
    PROVE  RecInv
<1>1. PICK F \in SUBSET Factors :
        /\ request = [i \in Ids |-> IF i = Earlier THEN [NewRequest EXCEPT !.factors = F] ELSE NoRequest]
        /\ given = [i \in Ids |-> IF i = Earlier THEN F ELSE {}]
  BY DEF RecInit
<1>2. /\ lost = {} /\ late = {} /\ completed = [i \in Ids |-> 0] /\ codes = {Earlier} /\ crossing = {}
      /\ failures = 0 /\ task = [t \in Tasks |-> New]
  BY DEF RecInit, TasksInit
<1> DEFINE q == [NewRequest EXCEPT !.factors = F]
<1>3. q \in RequestRows /\ q.factors = F /\ ~q.lasting  BY DEF NewRequest, RequestRows
<1> HIDE DEF q
<1>4. /\ Earlier \in Ids /\ request[Earlier] = q /\ given[Earlier] = F
      /\ \A t \in Tasks : t \in Ids /\ t # Earlier /\ request[t] = NoRequest /\ given[t] = {} /\ task[t] = New
  BY <1>1, <1>2, <1>3, RecoveryAssumption DEF Ids, q
<1>5. RecTyped
  <2>1. request \in [Ids -> RequestRows \cup {NoRequest}]  BY <1>1, <1>3 DEF q
  <2>2. given \in [Ids -> SUBSET Factors] /\ completed \in [Ids -> Nat] /\ task \in [Tasks -> RecTasks]
    BY <1>1, <1>2 DEF RecTasks
  <2> QED  BY <1>2, <1>4, <2>1, <2>2 DEF RecTyped, RecTypeOK
<1>6. BegunInv  BY <1>4 DEF BegunInv, At, Under, Over, New
<1>7. FactorInv
  <2>1. \A t \in Tasks : ~At(t, "set")  BY <1>4 DEF At, New
  <2>2. \A i \in Ids : request[i] # NoRequest => i = Earlier  BY <1>4 DEF Ids
  <2> QED  BY <1>3, <1>4, <2>1, <2>2 DEF FactorInv
<1>8. CompleteInv  BY <1>2 DEF CompleteInv, Consumed, Over, New
<1>9. CodesInv  BY <1>2, <1>4 DEF CodesInv, At, New
<1> QED  BY <1>5, <1>6, <1>7, <1>8, <1>9 DEF RecInv

\* In every state RecInv holds.
LEMMA RecAlways == RecSpec => []RecInv
<1>1. ASSUME RecInv, UNCHANGED <<taskVars, recVars>> PROVE RecInv'
  <2> USE <1>1 DEF RecInv, taskVars, recVars
  <2>1. RecTyped'  BY DEF RecTyped, RecTypeOK
  <2>2. BegunInv' /\ FactorInv'  BY DEF BegunInv, FactorInv, Begun, At, Over, Under
  <2>3. CompleteInv'  BY DEF CompleteInv, Consumed, Signed, Completing, At, Over, Under
  <2>4. CodesInv'  BY DEF CodesInv, At
  <2> QED  BY <2>1, <2>2, <2>3, <2>4
<1>2. RecInv /\ [RecNext]_<<taskVars, recVars>> => RecInv'
  BY <1>1, RecAges, RecBegin, RecProve, RecGet, RecSet, RecAssert, RecSignOut, RecConsume, RecDelete,
     RecInsert, RecFails DEF RecNext, RecRequests
<1> QED  BY <1>2, RecStarted, PTL DEF RecSpec

\* The request, the factors and the codes keep their types.
THEOREM RecoveryTypeCorrect == RecSpec => []RecTypeOK
<1>1. RecInv => RecTypeOK  BY DEF RecInv, RecTyped
<1> QED  BY <1>1, RecAlways, PTL

\* Acknowledged factors stay in the request, it completes once, and the codes are of one issue,
\* but for what addFactor, consume and storeBackupCodes leave to two calls at once.
THEOREM RecoveriesHold == RecSpec => []RecoveryHolds
<1>1. RecInv => RecoveryHolds
  <2> SUFFICES ASSUME RecInv PROVE RecoveryHolds  OBVIOUS
  <2>1. FactorsAreKept  BY DEF RecInv, FactorInv, FactorsAreKept
  <2>2. CompletesOnce
    <3> SUFFICES ASSUME NEW r \in Ids, completed[r] > 1, r \notin late, failures = 0, Completing(r) = {}
                 PROVE  FALSE
      BY DEF CompletesOnce, RecInv, RecTyped, FactorInv
    <3>1. \A t \in Tasks : Signed(t, r) => t \in Completing(r)
      BY RecPlaces DEF RecInv, Signed, Completing
    <3>2. completed[r] \in Nat  BY DEF RecInv, RecTyped, RecTypeOK
    <3> QED  BY <3>1, <3>2 DEF RecInv, CompleteInv
  <2>3. CodesOfOneIssue
    <3> SUFFICES ASSUME codes \cap crossing = {} PROVE ~(Cardinality(codes) > 1)
      BY DEF CodesOfOneIssue
    <3>1. \A c, d \in codes : c = d  BY DEF RecInv, CodesInv
    <3>2. CASE codes = {}  BY <3>2, FS_EmptySet
    <3>3. ASSUME NEW c \in codes PROVE ~(Cardinality(codes) > 1)
      <4>1. codes = {c}  BY <3>1
      <4>2. Cardinality(codes) = 1  BY <4>1, FS_Singleton
      <4> QED  BY <4>2
    <3> QED  BY <3>2, <3>3
  <2> QED  BY <2>1, <2>2, <2>3 DEF RecoveryHolds
<1> QED  BY <1>1, RecAlways, PTL

----------------------------------------------------------------------------
(* Devices: the list, its epoch and its log                                *)

DevSpec == TasksInit /\ DevInit /\ [][DevNext]_<<taskVars, devVars>>

\* What a call may stand at.
DevTasks ==
    {New, Failed}
    \cup [op : {"change"}, device : DeviceIds, action : DOMAIN StateOf, epoch : Nat, at : {"state"}]
    \cup [op : {"change"}, device : DeviceIds, action : DOMAIN StateOf, epoch : Nat, tip : Nat,
          at : {"commit", "publish", "over"}]
    \cup [op : {"fetch"}, seen : Nat, at : {"second", "over"}]
    \cup [op : {"revokeDevice"}, at : {"over"}]

Entries == [epoch : Nat, device : DeviceIds, action : DOMAIN StateOf, prev : Nat]

\* What getDeviceList may return.
Lists == UNION {[D -> States] : D \in SUBSET DeviceIds}

DevTyped ==
    /\ DevTypeOK
    /\ task \in [Tasks -> DevTasks]
    /\ log \in Seq(Entries) /\ history \in Seq(Lists)

\* The transaction that holds the row is one ahead of the epoch and saw the tip of the log.
LockInv ==
    /\ \A t \in Tasks : At(t, "state") \/ At(t, "commit") => lock = t /\ task[t].epoch = epoch + 1
    /\ \A t \in Tasks : At(t, "commit") => task[t].tip = Len(log)

\* The last entry of a device says how it stands.
LastIs(d, i) ==
    /\ i \in 1..Len(log) /\ log[i].device = d
    /\ \A j \in 1..Len(log) : log[j].device = d => j <= i
LogInv ==
    /\ Len(log) = epoch
    /\ \A i \in 1..Len(log) : log[i].epoch = i /\ log[i].prev = i - 1
    /\ \A d \in DeviceIds :
          (\E i \in 1..Len(log) : log[i].device = d)
          => \E i \in 1..Len(log) : LastIs(d, i) /\ rows[d].state = StateOf[log[i].action]

\* The list says of every device, but those revoked without it, what the rows say.
Shows(list) ==
    \A d \in DeviceIds \ unlisted :
        /\ d \in DOMAIN list <=> ~rows[d].revoked
        /\ d \in DOMAIN list => list[d] = rows[d].state
Match(list, other) ==
    \A d \in DeviceIds \ unlisted :
        /\ d \in DOMAIN list <=> d \in DOMAIN other
        /\ d \in DOMAIN list => list[d] = other[d]

HistoryInv ==
    /\ Len(history) = epoch + 1
    /\ Shows(history[epoch + 1])
    /\ \A t \in Tasks : At(t, "second") => task[t].seen <= epoch
    /\ \A a \in answers : a[1] \in Nat /\ \E n \in a[1]..epoch : Match(a[2], history[n + 1])

DevInv == DevTyped /\ LockInv /\ LogInv /\ HistoryInv

\* What is known of a call by where it stands.
LEMMA DevPlaces ==
    ASSUME DevTyped, NEW t \in Tasks
    PROVE  /\ At(t, "new") <=> task[t] = New
           /\ At(t, "state") => task[t] \in [op : {"change"}, device : DeviceIds, action : DOMAIN StateOf,
                                             epoch : Nat, at : {"state"}]
           /\ At(t, "commit") \/ At(t, "publish")
                => task[t] \in [op : {"change"}, device : DeviceIds, action : DOMAIN StateOf, epoch : Nat,
                                tip : Nat, at : {"commit", "publish", "over"}]
           /\ At(t, "second") => task[t] \in [op : {"fetch"}, seen : Nat, at : {"second", "over"}]
<1>1. task[t] \in DevTasks  BY DEF DevTyped
<1> QED  BY <1>1 DEF DevTasks, New, Failed, At

\* A step of a call changes no other call, and keeps the calls well formed.
LEMMA DevMoves ==
    ASSUME DevTyped, NEW t \in Tasks, NEW r \in DevTasks, task' = [task EXCEPT ![t] = r]
    PROVE  /\ task' \in [Tasks -> DevTasks] /\ task'[t] = r
           /\ \A u \in Tasks \ {t} : task'[u] = task[u]
BY DEF DevTyped

\* A list shows the devices that are not revoked, as their rows stand.
LEMMA ListedType ==
    ASSUME NEW r \in [DeviceIds -> [state : States, revoked : BOOLEAN]]
    PROVE  /\ Listed(r) \in Lists
           /\ \A d \in DeviceIds : /\ d \in DOMAIN Listed(r) <=> ~r[d].revoked
                                   /\ d \in DOMAIN Listed(r) => Listed(r)[d] = r[d].state
<1> DEFINE D == {e \in DeviceIds : ~r[e].revoked}
<1>1. Listed(r) = [d \in D |-> r[d].state] /\ \A d \in D : r[d].state \in States  BY DEF Listed
<1>2. Listed(r) \in [D -> States] /\ D \in SUBSET DeviceIds  BY <1>1
<1> QED  BY <1>1, <1>2 DEF Lists

\* The row is locked and one epoch ahead.
LEMMA DevBump ==
    ASSUME DevInv, NEW t \in Tasks, BumpEpoch(t)
    PROVE  DevInv'
<1>0. DevTyped /\ epoch \in Nat  BY DEF DevInv, DevTyped, DevTypeOK
<1>1. PICK d \in DeviceIds, a \in DOMAIN StateOf :
        Begins(t, [op |-> "change", device |-> d, action |-> a, epoch |-> epoch + 1, at |-> "state"])
  BY DEF BumpEpoch
<1> DEFINE r == [op |-> "change", device |-> d, action |-> a, epoch |-> epoch + 1, at |-> "state"]
<1>2. r \in DevTasks  BY <1>0 DEF DevTasks
<1>3. task' \in [Tasks -> DevTasks] /\ task'[t] = r /\ \A u \in Tasks \ {t} : task'[u] = task[u]
  BY <1>0, <1>1, <1>2, DevMoves DEF Begins
<1>4. lock = NoHolder /\ lock' = t /\ UNCHANGED <<failures, epoch, rows, log, sent, answers, history, unlisted>>
  BY DEF BumpEpoch, RowFree
<1>5. \A u \in Tasks \ {t} : ~At(u, "state") /\ ~At(u, "commit")
  BY <1>4, DevicesAssumption DEF DevInv, LockInv
<1>6. DevTyped'  BY <1>0, <1>3, <1>4 DEF DevTyped, DevTypeOK
<1>7. LockInv'  BY <1>3, <1>4, <1>5 DEF LockInv, At
<1>8. LogInv'  BY <1>4 DEF DevInv, LogInv, LastIs
<1>9. HistoryInv'
  <2>1. r.at = "state"  OBVIOUS
  <2> HIDE DEF r
  <2> QED  BY <1>3, <1>4, <2>1 DEF DevInv, HistoryInv, Shows, Match, At
<1> QED  BY <1>6, <1>7, <1>8, <1>9 DEF DevInv

\* The tip is read under the lock.
LEMMA DevTip ==
    ASSUME DevInv, NEW t \in Tasks, ReadTip(t)
    PROVE  DevInv'
<1>0. DevTyped /\ epoch \in Nat /\ Len(log) \in Nat  BY DEF DevInv, DevTyped, DevTypeOK
<1> DEFINE r == With(task[t], "tip", Len(log), "commit")
<1>1. At(t, "state") /\ task' = [task EXCEPT ![t] = r] /\ UNCHANGED <<failures, devVars>>
  BY DEF ReadTip, GoesWith
<1>2. r \in DevTasks /\ r.at = "commit" /\ r.tip = Len(log) /\ r.epoch = task[t].epoch
  BY <1>0, <1>1, DevPlaces DEF With, DevTasks
<1> HIDE DEF r
<1>3. task' \in [Tasks -> DevTasks] /\ task'[t] = r /\ \A u \in Tasks \ {t} : task'[u] = task[u]
  BY <1>0, <1>1, <1>2, DevMoves
<1>6. DevTyped'  BY <1>0, <1>1, <1>3 DEF DevTyped, DevTypeOK, devVars
<1>7. LockInv'  BY <1>1, <1>2, <1>3 DEF DevInv, LockInv, At, devVars
<1>8. LogInv'  BY <1>1 DEF DevInv, LogInv, LastIs, devVars
<1>9. HistoryInv'  BY <1>1, <1>2, <1>3 DEF DevInv, HistoryInv, Shows, Match, At, devVars
<1> QED  BY <1>6, <1>7, <1>8, <1>9 DEF DevInv

\* The new entry is the last of its device, and the list it makes is kept.
LEMMA DevCommit ==
    ASSUME DevInv, NEW t \in Tasks, Commit(t)
    PROVE  DevInv'
<1>0. DevTyped /\ epoch \in Nat /\ Len(log) \in Nat  BY DEF DevInv, DevTyped, DevTypeOK
<1>1. At(t, "commit") /\ lock = t /\ task[t].epoch = epoch + 1 /\ task[t].tip = Len(log) /\ Len(log) = epoch
  BY DEF DevInv, LockInv, LogInv, Commit
<1>2. PICK d \in DeviceIds, a \in DOMAIN StateOf : d = task[t].device /\ a = task[t].action
  BY <1>0, <1>1, DevPlaces
<1> DEFINE r == [task[t] EXCEPT !.at = "publish"]
           e == [epoch |-> epoch + 1, device |-> d, action |-> a, prev |-> epoch]
<1>3. r \in DevTasks /\ r.at = "publish" /\ task' = [task EXCEPT ![t] = r]
  BY <1>0, <1>1, DevPlaces DEF DevTasks, Commit, Goes
<1>4. task' \in [Tasks -> DevTasks] /\ task'[t] = r /\ \A u \in Tasks \ {t} : task'[u] = task[u]
  BY <1>0, <1>3, DevMoves
<1>5. e \in Entries /\ log' = Append(log, e)  BY <1>0, <1>1, <1>2 DEF Entries, Commit
<1>6. log' \in Seq(Entries) /\ Len(log') = epoch + 1 /\ log'[epoch + 1] = e
      /\ \A i \in 1..epoch : log'[i] = log[i]
  <2> HIDE DEF e
  <2> QED  BY <1>0, <1>1, <1>5 DEF DevTyped
<1>7. /\ epoch' = epoch + 1 /\ lock' = NoHolder /\ UNCHANGED <<failures, sent, answers, unlisted>>
      /\ rows' = Changed(t) /\ history' = Append(history, Listed(rows'))
  BY <1>1 DEF Commit
<1>8. /\ rows' \in [DeviceIds -> [state : States, revoked : BOOLEAN]]
      /\ rows'[d].state = StateOf[a]
      /\ \A x \in DeviceIds \ {d} : rows'[x] = rows[x]
  <2>1. rows \in [DeviceIds -> [state : States, revoked : BOOLEAN]]  BY <1>0 DEF DevTyped, DevTypeOK
  <2>2. StateOf[a] \in States  BY DEF StateOf, States
  <2>3. rows' = [rows EXCEPT ![d] = [state |-> StateOf[a], revoked |-> rows[d].revoked \/ a = "revoked"]]
    BY <1>2, <1>7 DEF Changed
  <2> QED  BY <2>1, <2>2, <2>3
<1>9. /\ history' \in Seq(Lists) /\ Len(history') = epoch + 2
      /\ history'[epoch + 2] = Listed(rows')
      /\ \A i \in 1..(epoch + 1) : history'[i] = history[i]
  <2>1. PICK l \in Lists : l = Listed(rows')  BY <1>8, ListedType
  <2>2. history \in Seq(Lists) /\ Len(history) = epoch + 1  BY <1>0 DEF DevInv, DevTyped, HistoryInv
  <2> QED  BY <1>0, <1>7, <2>1, <2>2
<1>10. DevTyped'
  <2>1. epoch' \in Nat /\ lock' \in Tasks \cup {NoHolder} /\ sent' \in SUBSET Nat /\ unlisted' \in SUBSET DeviceIds
    BY <1>0, <1>7 DEF DevTyped, DevTypeOK
  <2>2. \A i \in 1..Len(log') : log'[i] \in Entries  BY <1>6
  <2> QED  BY <1>4, <1>6, <1>8, <1>9, <2>1, <2>2 DEF DevTyped, DevTypeOK, Entries
<1>11. LockInv'  BY <1>1, <1>3, <1>4 DEF DevInv, LockInv, At
<1>12. LogInv'
  <2> HIDE DEF e
  <2>1. \A i \in 1..Len(log') : log'[i].epoch = i /\ log'[i].prev = i - 1
    BY <1>0, <1>1, <1>6 DEF e, DevInv, LogInv
  <2>2. ASSUME NEW x \in DeviceIds, NEW i \in 1..Len(log'), log'[i].device = x
        PROVE  \E j \in 1..Len(log') : LastIs(x, j)' /\ rows'[x].state = StateOf[log'[j].action]
    <3>1. CASE x = d
      <4>1. PICK k \in 1..Len(log') : k = epoch + 1 /\ log'[k].device = d /\ log'[k].action = a
        BY <1>0, <1>6 DEF e
      <4>2. LastIs(x, k)'  BY <1>0, <1>6, <3>1, <4>1 DEF LastIs
      <4> QED  BY <1>8, <3>1, <4>1, <4>2
    <3>2. CASE x # d
      <4>1. i \in 1..Len(log) /\ log[i].device = x  BY <1>0, <1>1, <1>6, <2>2, <3>2 DEF e
      <4>2. PICK j \in 1..Len(log) : LastIs(x, j) /\ rows[x].state = StateOf[log[j].action]
        BY <4>1 DEF DevInv, LogInv
      <4>3. LastIs(x, j)'  BY <1>0, <1>1, <1>6, <3>2, <4>2 DEF LastIs, e
      <4> QED  BY <1>0, <1>1, <1>6, <1>8, <3>2, <4>2, <4>3
    <3> QED  BY <3>1, <3>2
  <2> QED  BY <1>6, <1>7, <2>1, <2>2 DEF LogInv
<1>13. HistoryInv'
  <2>1. Shows(history[epoch + 1])'
    <3>1. history'[epoch' + 1] = Listed(rows')  BY <1>0, <1>7, <1>9
    <3> QED  BY <1>8, <3>1, ListedType DEF Shows
  <2>2. ASSUME NEW b \in answers PROVE b[1] \in Nat /\ \E n \in b[1]..epoch' : Match(b[2], history[n + 1])'
    <3>1. PICK n \in b[1]..epoch : b[1] \in Nat /\ Match(b[2], history[n + 1])
      BY DEF DevInv, HistoryInv
    <3>2. n \in b[1]..epoch' /\ history'[n + 1] = history[n + 1]  BY <1>0, <1>7, <1>9, <3>1
    <3>3. Match(b[2], history[n + 1])'  BY <1>7, <3>1, <3>2 DEF Match
    <3> QED  BY <3>1, <3>2, <3>3
  <2>3. ASSUME NEW u \in Tasks, At(u, "second")' PROVE task'[u].seen <= epoch'
    <3>1. At(u, "second") /\ task'[u] = task[u]  BY <1>3, <1>4, <2>3 DEF At
    <3>2. task[u].seen <= epoch /\ task[u].seen \in Nat
      BY <1>0, <3>1, DevPlaces DEF DevInv, HistoryInv
    <3> QED  BY <1>0, <1>7, <3>1, <3>2
  <2>4. Len(history') = epoch' + 1  BY <1>0, <1>7, <1>9
  <2> QED  BY <1>7, <2>1, <2>2, <2>3, <2>4 DEF HistoryInv
<1> QED  BY <1>10, <1>11, <1>12, <1>13 DEF DevInv

\* A transaction that fails leaves nothing.
LEMMA DevFail ==
    ASSUME DevInv, NEW t \in Tasks, FailChange(t)
    PROVE  DevInv'
<1>0. DevTyped  BY DEF DevInv
<1>1. /\ task' \in [Tasks -> DevTasks] /\ task'[t] = Failed /\ \A u \in Tasks \ {t} : task'[u] = task[u]
      /\ lock' = IF lock = t THEN NoHolder ELSE lock
      /\ UNCHANGED <<epoch, rows, log, sent, answers, history, unlisted>>
  BY <1>0, DevMoves DEF FailChange, Fails, DevTasks
<1>2. DevTyped'  BY <1>0, <1>1 DEF DevTyped, DevTypeOK
<1>3. LockInv'  BY <1>1 DEF DevInv, LockInv, At, Failed
<1>4. LogInv'  BY <1>1 DEF DevInv, LogInv, LastIs
<1>5. HistoryInv'  BY <1>1 DEF DevInv, HistoryInv, Shows, Match, At, Failed
<1> QED  BY <1>2, <1>3, <1>4, <1>5 DEF DevInv

\* The event changes no row.
LEMMA DevPublish ==
    ASSUME DevInv, NEW t \in Tasks, Publish(t)
    PROVE  DevInv'
<1>0. DevTyped  BY DEF DevInv
<1> DEFINE r == [task[t] EXCEPT !.at = "over"]
<1>1. r \in DevTasks /\ r.at = "over" /\ task' = [task EXCEPT ![t] = r] /\ task[t].epoch \in Nat
  BY <1>0, DevPlaces DEF DevTasks, Publish, Goes
<1>2. /\ task' \in [Tasks -> DevTasks] /\ task'[t] = r /\ \A u \in Tasks \ {t} : task'[u] = task[u]
      /\ sent' = sent \cup {task[t].epoch}
      /\ UNCHANGED <<failures, epoch, rows, log, lock, answers, history, unlisted>>
  BY <1>0, <1>1, DevMoves DEF Publish
<1> HIDE DEF r
<1>3. DevTyped'  BY <1>0, <1>1, <1>2 DEF DevTyped, DevTypeOK
<1>4. LockInv'  BY <1>1, <1>2 DEF DevInv, LockInv, At
<1>5. LogInv'  BY <1>2 DEF DevInv, LogInv, LastIs
<1>6. HistoryInv'  BY <1>1, <1>2 DEF DevInv, HistoryInv, Shows, Match, At
<1> QED  BY <1>3, <1>4, <1>5, <1>6 DEF DevInv

\* Two reads: the list is that of the epoch or of a later one.
LEMMA DevFetch ==
    ASSUME DevInv, NEW t \in Tasks, Fetch(t)
    PROVE  DevInv'
<1>0. DevTyped /\ epoch \in Nat /\ rows \in [DeviceIds -> [state : States, revoked : BOOLEAN]]
  BY DEF DevInv, DevTyped, DevTypeOK
<1>1. UNCHANGED <<failures, epoch, rows, log, lock, sent, history, unlisted>>  BY DEF Fetch
<1>2. PICK r \in DevTasks : /\ task' = [task EXCEPT ![t] = r]
                            /\ \/ r.at = "second" /\ r.seen = epoch /\ answers' = answers
                               \/ /\ r.at = "over" /\ At(t, "second")
                                  /\ answers' = answers \cup {<<task[t].seen, Listed(rows)>>}
  <2>1. [op |-> "fetch", seen |-> epoch, at |-> "second"] \in DevTasks  BY <1>0 DEF DevTasks
  <2>2. At(t, "second") => [task[t] EXCEPT !.at = "over"] \in DevTasks /\ [task[t] EXCEPT !.at = "over"].at = "over"
    BY <1>0, DevPlaces DEF DevTasks
  <2> QED  BY <2>1, <2>2 DEF Fetch, EpochFirst, Begins, Goes
<1>3. task' \in [Tasks -> DevTasks] /\ task'[t] = r /\ \A u \in Tasks \ {t} : task'[u] = task[u]
  BY <1>0, <1>2, DevMoves
<1>4. DevTyped'  BY <1>0, <1>1, <1>3 DEF DevTyped, DevTypeOK
<1>5. LockInv' /\ LogInv'  BY <1>1, <1>2, <1>3 DEF DevInv, LockInv, LogInv, LastIs, At
<1>6. HistoryInv'
  <2>1. \A u \in Tasks : At(u, "second")' => task'[u].seen <= epoch'
    BY <1>0, <1>1, <1>2, <1>3 DEF DevInv, HistoryInv, At
  <2>2. \A a \in answers : a[1] \in Nat /\ \E n \in a[1]..epoch : Match(a[2], history[n + 1])'
    BY <1>1 DEF DevInv, HistoryInv, Match
  <2>3. ASSUME At(t, "second"), NEW a, a = <<task[t].seen, Listed(rows)>>
        PROVE  a[1] \in Nat /\ \E n \in a[1]..epoch : Match(a[2], history[n + 1])'
    <3>1. task[t].seen \in Nat /\ task[t].seen <= epoch
      BY <1>0, <2>3, DevPlaces DEF DevInv, HistoryInv
    <3>2. Match(Listed(rows), history[epoch + 1])'
      BY <1>0, <1>1, ListedType DEF DevInv, HistoryInv, Shows, Match
    <3> QED  BY <1>0, <1>1, <2>3, <3>1, <3>2 DEF Match
  <2>4. Len(history') = epoch' + 1 /\ Shows(history[epoch + 1])'
    BY <1>1 DEF DevInv, HistoryInv, Shows
  <2> QED  BY <1>1, <1>2, <2>1, <2>2, <2>3, <2>4 DEF HistoryInv
<1> QED  BY <1>4, <1>5, <1>6 DEF DevInv

\* A device revoked without an epoch is no longer spoken of.
LEMMA DevRevoke ==
    ASSUME DevInv, NEW t \in Tasks, RevokeUnlisted(t)
    PROVE  DevInv'
<1>0. DevTyped /\ rows \in [DeviceIds -> [state : States, revoked : BOOLEAN]] /\ unlisted \subseteq DeviceIds
  BY DEF DevInv, DevTyped, DevTypeOK
<1>1. PICK d \in DeviceIds : rows' = [rows EXCEPT ![d].revoked = TRUE] /\ unlisted' = unlisted \cup {d}
  BY DEF RevokeUnlisted
<1>2. /\ rows' \in [DeviceIds -> [state : States, revoked : BOOLEAN]]
      /\ \A x \in DeviceIds : rows'[x].state = rows[x].state
      /\ \A x \in DeviceIds \ unlisted' : rows'[x] = rows[x]
  BY <1>0, <1>1
<1>3. [op |-> "revokeDevice", at |-> "over"] \in DevTasks  BY DEF DevTasks
<1>4. /\ task' \in [Tasks -> DevTasks] /\ \A u \in Tasks \ {t} : task'[u] = task[u]
      /\ task'[t].at = "over"
      /\ UNCHANGED <<failures, epoch, log, lock, sent, answers, history>>
  BY <1>0, <1>3, DevMoves DEF RevokeUnlisted, Begins
<1>5. DevTyped'  BY <1>0, <1>1, <1>2, <1>4 DEF DevTyped, DevTypeOK
<1>6. LockInv'  BY <1>4 DEF DevInv, LockInv, At
<1>7. LogInv'
  <2>1. \A e, i : LastIs(e, i)' <=> LastIs(e, i)  BY <1>4 DEF LastIs
  <2>2. \A e \in DeviceIds : rows'[e].state = rows[e].state  BY <1>2
  <2>3. ASSUME NEW e \in DeviceIds, \E i \in 1..Len(log) : log[i].device = e
        PROVE  \E i \in 1..Len(log) : LastIs(e, i)' /\ rows'[e].state = StateOf[log[i].action]
    <3>1. PICK i \in 1..Len(log) : LastIs(e, i) /\ rows[e].state = StateOf[log[i].action]
      BY <2>3 DEF DevInv, LogInv
    <3> QED  BY <2>1, <2>2, <3>1
  <2> QED  BY <1>4, <2>3 DEF DevInv, LogInv
<1>8. HistoryInv'  BY <1>1, <1>2, <1>4 DEF DevInv, HistoryInv, Shows, Match, At
<1> QED  BY <1>5, <1>6, <1>7, <1>8 DEF DevInv

\* The invariant holds at first.
LEMMA DevStarted ==
    ASSUME TasksInit, DevInit
    PROVE  DevInv
<1>1. /\ rows \in [DeviceIds -> [state : States, revoked : BOOLEAN]] /\ epoch = 0 /\ log = <<>> /\ answers = {}
      /\ task \in [Tasks -> DevTasks] /\ \A t \in Tasks : task[t] = New
  BY DEF TasksInit, DevInit, States, DevTasks
<1>2. PICK l \in Lists : l = Listed(rows)  BY <1>1, ListedType
<1>3. history = <<l>> /\ history \in Seq(Lists) /\ Len(history) = 1 /\ history[1] = l
  BY <1>2 DEF DevInit
<1>4. DevTyped  BY <1>1, <1>3 DEF DevInit, DevTyped, DevTypeOK
<1>5. LockInv /\ LogInv  BY <1>1 DEF LockInv, LogInv, At, New
<1>6. HistoryInv  BY <1>1, <1>2, <1>3, ListedType DEF HistoryInv, Shows, At, New
<1> QED  BY <1>4, <1>5, <1>6 DEF DevInv

\* In every state DevInv holds.
LEMMA DevAlways == DevSpec => []DevInv
<1>1. ASSUME DevInv, UNCHANGED <<taskVars, devVars>> PROVE DevInv'
  <2> USE <1>1 DEF DevInv, taskVars, devVars
  <2>1. DevTyped'  BY DEF DevTyped, DevTypeOK
  <2>2. LockInv' /\ LogInv'  BY DEF LockInv, LogInv, LastIs, At
  <2>3. HistoryInv'  BY DEF HistoryInv, Shows, Match, At
  <2> QED  BY <2>1, <2>2, <2>3
<1>2. DevInv /\ [DevNext]_<<taskVars, devVars>> => DevInv'
  BY <1>1, DevBump, DevTip, DevCommit, DevFail, DevPublish, DevFetch, DevRevoke DEF DevNext
<1> QED  BY <1>2, DevStarted, PTL DEF DevSpec

\* The rows, the log and the calls keep their types.
THEOREM DevicesTypeCorrect == DevSpec => []DevTypeOK
<1>1. DevInv => DevTypeOK  BY DEF DevInv, DevTyped
<1> QED  BY <1>1, DevAlways, PTL

\* The epoch, the audit log, the rows and every list that was fetched agree: the transaction of
\* transition, which locks the account's row first, and the two queries of getDeviceList.
THEOREM TheListIsTheLog == DevSpec => []DeviceListIsTheLog
<1>1. DevInv => DeviceListIsTheLog
  <2> SUFFICES ASSUME DevInv PROVE DeviceListIsTheLog  OBVIOUS
  <2>1. LogIsTheEpoch
    <3> SUFFICES ASSUME NEW d \in DeviceIds
                 PROVE  LET mine == {i \in 1..Len(log) : log[i].device = d}
                            last == CHOOSE i \in mine : \A j \in mine : j <= i
                        IN mine # {} => rows[d].state = StateOf[log[last].action]
      BY DEF DevInv, LogInv, LogIsTheEpoch
    <3> DEFINE mine == {i \in 1..Len(log) : log[i].device = d}
               last == CHOOSE i \in mine : \A j \in mine : j <= i
    <3> SUFFICES ASSUME mine # {} PROVE rows[d].state = StateOf[log[last].action]  OBVIOUS
    <3>1. PICK i \in 1..Len(log) : LastIs(d, i) /\ rows[d].state = StateOf[log[i].action]
      BY DEF DevInv, LogInv
    <3>2. i \in mine /\ \A j \in mine : j <= i  BY <3>1 DEF LastIs
    <3>3. last \in mine /\ \A j \in mine : j <= last  BY <3>2
    <3>4. last = i  BY <3>2, <3>3
    <3> QED  BY <3>1, <3>4
  <2>2. ListNoOlderThanItsEpoch  BY DEF DevInv, HistoryInv, Match, ListNoOlderThanItsEpoch
  <2> QED  BY <2>1, <2>2 DEF DeviceListIsTheLog
<1> QED  BY <1>1, DevAlways, PTL

----------------------------------------------------------------------------
(* Discovery                                                               *)

TasksAreThere == task = [t \in Tasks |-> task[t]]

\* What a call may stand at: the version of a rotation is whatever was read.
DiscTask(t) ==
    \/ task[t] \in {New, Failed}
    \/ task[t] \in [op : {"login"}, account : Registrants, version : Versions, at : {"token", "link"}]
    \/ task[t] \in [op : {"login"}, account : Registrants, version : {0}, at : {"over"}]
    \/ task[t] \in [op : {"login"}, account : Registrants, version : Versions, owners : SUBSET Owners, at : {"publish", "over"}]
    \/ task[t] \in [op : {"register", "unregister"}, at : {"over"}]
    \/ task[t] \in [op : {"edges"}, owner : Owners, version : Versions, peer : Registrants \cup {Unlisted}, at : {"insertEdge", "over"}]
    \/ task[t] \in [op : {"rotate"}, version : {task[t].version}, at : {"insertKey", "over", "failed"}]

DiscTyped == DiscTypeOK /\ TasksAreThere /\ (\A t \in Tasks : DiscTask(t)) /\ failures \in Nat

Plain == Versions \ (mingled \cup optedIn)

\* While nothing of a token was written under another: a registration that has yet to link wrote the account, an
\* edge that has yet to be inserted took it, and with none to link the edges follow.
TokenInv ==
    failures = 0 =>
       /\ \A t \in Tasks : At(t, "link") /\ task[t].version \in Plain => known[task[t].version] = task[t].account
       /\ \A t \in Tasks : At(t, "insertEdge") /\ task[t].version \in Plain => task[t].peer = known[task[t].version]
       /\ \A o \in Owners, v \in Plain :
             known[v] # Unlisted /\ (\A t \in Tasks : At(t, "link") => task[t].version # v) => edge[<<o, v>>] \in {"none", known[v]}

LinkedInv == \A l \in linked : l \in notified \/ failures > 0 \/ \E t \in Tasks : At(t, "publish") /\ l \in ToNotify(t)

DiscInv == DiscTyped /\ TokenInv /\ LinkedInv

LEMMA TaskIsSet ==
    ASSUME TasksAreThere, NEW t \in Tasks, NEW r, task' = [task EXCEPT ![t] = r]
    PROVE  TasksAreThere' /\ task'[t] = r /\ \A u \in Tasks \ {t} : task'[u] = task[u]
<1>1. task' = [u \in Tasks |-> IF u = t THEN r ELSE task[u]]  BY DEF TasksAreThere
<1> QED BY <1>1 DEF TasksAreThere

\* Where a step of t leaves it; no other call moves.
DiscMoves(t, r) == task'[t] = r /\ \A u \in Tasks \ {t} : task'[u] = task[u]

LEMMA DiscStep ==
    ASSUME DiscTyped, NEW t \in Tasks, NEW r, task' = [task EXCEPT ![t] = r],
           DiscTypeOK', failures' \in Nat,
           \/ r \in {New, Failed}
           \/ r \in [op : {"rotate"}, version : {r.version}, at : {"insertKey", "over", "failed"}]
           \/ r \in [op : {"login"}, account : Registrants, version : Versions, at : {"token", "link"}]
           \/ r \in [op : {"login"}, account : Registrants, version : {0}, at : {"over"}]
           \/ r \in [op : {"login"}, account : Registrants, version : Versions, owners : SUBSET Owners, at : {"publish", "over"}]
           \/ r \in [op : {"register", "unregister"}, at : {"over"}]
           \/ r \in [op : {"edges"}, owner : Owners, version : Versions, peer : Registrants \cup {Unlisted}, at : {"insertEdge", "over"}]
    PROVE  DiscTyped' /\ DiscMoves(t, r)
<1>1. TasksAreThere' /\ task'[t] = r /\ \A u \in Tasks \ {t} : task'[u] = task[u]
    BY TaskIsSet DEF DiscTyped
<1>2. DiscTask(t)'  BY <1>1 DEF DiscTask
<1>3. \A u \in Tasks \ {t} : DiscTask(u)'  BY <1>1 DEF DiscTyped, DiscTask
<1> QED BY <1>1, <1>2, <1>3 DEF DiscTyped, DiscMoves

LEMMA DiscPlaces ==
    ASSUME DiscTyped, NEW t \in Tasks
    PROVE  /\ At(t, "token") \/ At(t, "link") => task[t] \in [op : {"login"}, account : Registrants, version : Versions, at : {"token", "link"}]
           /\ At(t, "publish") => task[t] \in [op : {"login"}, account : Registrants, version : Versions, owners : SUBSET Owners, at : {"publish", "over"}]
           /\ At(t, "insertEdge") => task[t] \in [op : {"edges"}, owner : Owners, version : Versions, peer : Registrants \cup {Unlisted}, at : {"insertEdge", "over"}]
           /\ At(t, "insertKey") => task[t] \in [op : {"rotate"}, version : {task[t].version}, at : {"insertKey", "over", "failed"}]
<1>1. DiscTask(t)  BY DEF DiscTyped
<1> QED BY <1>1 DEF DiscTask, New, Failed, At

\* Steps that leave the tokens, the edges and what was linked.
LEMMA TokensKept ==
    ASSUME TokenInv, LinkedInv, NEW t \in Tasks, NEW r, DiscMoves(t, r), ~At(t, "link"), ~At(t, "publish"),
           r.at \notin {"link", "insertEdge"}, UNCHANGED <<known, edge, linked, notified>>, failures' = failures,
           mingled \subseteq mingled', optedIn \subseteq optedIn'
    PROVE  TokenInv' /\ LinkedInv'
<1>1. Plain' \subseteq Plain  BY DEF Plain
<1>2. /\ \A u \in Tasks : At(u, "link")' \/ At(u, "insertEdge")' => u # t
      /\ \A u \in Tasks : At(u, "link") => At(u, "link")' /\ task'[u] = task[u]
      /\ \A u \in Tasks : At(u, "publish") => At(u, "publish")' /\ task'[u] = task[u]
    BY DEF DiscMoves, At
<1>3. TokenInv'  BY <1>1, <1>2 DEF TokenInv, DiscMoves, At
<1>4. LinkedInv'  BY <1>2 DEF LinkedInv, ToNotify
<1> QED BY <1>3, <1>4

LEMMA ReadVersionKeeps == ASSUME DiscInv, NEW t \in Tasks, ReadVersion(t) PROVE DiscInv'
<1> USE DEF DiscInv
<1>1. PICK v : Begins(t, [op |-> "rotate", version |-> v, at |-> "insertKey"])  BY DEF ReadVersion
<1> DEFINE r == [op |-> "rotate", version |-> v, at |-> "insertKey"]
<1>2. task[t] = New /\ task' = [task EXCEPT ![t] = r]  BY <1>1 DEF Begins
<1>3. UNCHANGED discVars /\ failures' = failures  BY DEF ReadVersion
<1>4. DiscTypeOK' /\ failures' \in Nat  BY <1>3 DEF discVars, DiscTyped, DiscTypeOK
<1>5. r \in [op : {"rotate"}, version : {r.version}, at : {"insertKey", "over", "failed"}] /\ r.at = "insertKey"
    OBVIOUS
<1> HIDE DEF r
<1>6. DiscTyped' /\ DiscMoves(t, r)  BY <1>2, <1>4, <1>5, DiscStep
<1> QED BY <1>2, <1>3, <1>5, <1>6, TokensKept DEF discVars, At, New

LEMMA InsertKeyKeeps == ASSUME DiscInv, NEW t \in Tasks, InsertKey(t) PROVE DiscInv'
<1> USE DEF DiscInv
<1>1. task[t] \in [op : {"rotate"}, version : {task[t].version}, at : {"insertKey", "over", "failed"}] /\ At(t, "insertKey")
    BY DiscPlaces DEF InsertKey
<1>2. PICK p \in {"over", "failed"} : Goes(t, p)  BY DEF InsertKey
<1> DEFINE r == [task[t] EXCEPT !.at = p]
<1>3. task' = [task EXCEPT ![t] = r]  BY <1>2 DEF Goes
<1>4. r \in [op : {"rotate"}, version : {r.version}, at : {"insertKey", "over", "failed"}] /\ r.at = p
    BY <1>1
<1>5. DiscTypeOK' /\ failures' \in Nat  BY DEF InsertKey, DiscTyped, DiscTypeOK
<1> HIDE DEF r
<1>6. DiscTyped' /\ DiscMoves(t, r)  BY <1>3, <1>4, <1>5, DiscStep
<1> QED BY <1>1, <1>4, <1>6, TokensKept DEF InsertKey, At

LEMMA ReadKeyKeeps == ASSUME DiscInv, NEW t \in Tasks, ReadKey(t) PROVE DiscInv'
<1> USE DEF DiscInv
<1>1. PICK a \in Registrants : Begins(t, [op |-> "login", account |-> a, version |-> activeKey, at |-> IF activeKey = 0 THEN "over" ELSE "token"])
    BY DEF ReadKey
<1> DEFINE r == [op |-> "login", account |-> a, version |-> activeKey, at |-> IF activeKey = 0 THEN "over" ELSE "token"]
<1>2. task[t] = New /\ task' = [task EXCEPT ![t] = r]  BY <1>1 DEF Begins
<1>3. UNCHANGED discVars /\ failures' = failures  BY DEF ReadKey
<1>4. DiscTypeOK' /\ failures' \in Nat  BY <1>3 DEF discVars, DiscTyped, DiscTypeOK
<1>5. \/ r \in [op : {"login"}, account : Registrants, version : Versions, at : {"token", "link"}] /\ r.at = "token"
      \/ r \in [op : {"login"}, account : Registrants, version : {0}, at : {"over"}] /\ r.at = "over"
  <2>1. activeKey \in Versions \cup {0}  BY DEF DiscTyped, DiscTypeOK
  <2> QED BY <2>1
<1> HIDE DEF r
<1>6. DiscTyped' /\ DiscMoves(t, r)  BY <1>2, <1>4, <1>5, DiscStep
<1> QED BY <1>2, <1>3, <1>5, <1>6, TokensKept DEF discVars, At, New

LEMMA RegisterOprfTokenKeeps == ASSUME DiscInv, NEW t \in Tasks, RegisterOprfToken(t) PROVE DiscInv'
<1> USE DEF DiscInv
<1> DEFINE v == task[t].version
           r == [task[t] EXCEPT !.at = "link"]
<1>1. task[t] \in [op : {"login"}, account : Registrants, version : Versions, at : {"token", "link"}] /\ At(t, "token")
    BY DiscPlaces DEF RegisterOprfToken
<1>2. task' = [task EXCEPT ![t] = r]  BY DEF RegisterOprfToken, Goes
<1>3. r \in [op : {"login"}, account : Registrants, version : Versions, at : {"token", "link"}] /\ r.at = "link" /\ r.version = v /\ r.account = task[t].account
    BY <1>1
<1>4. mingled \subseteq mingled' /\ mingled' \in SUBSET Versions /\ (v \notin mingled' => Registering(v) \ {t} = {} /\ Inserting(v) = {})
    BY <1>1 DEF RegisterOprfToken, Cross, DiscTyped, DiscTypeOK, Inserting, At
<1>5. DiscTypeOK' /\ failures' \in Nat  BY <1>1, <1>4 DEF RegisterOprfToken, DiscTyped, DiscTypeOK
<1> HIDE DEF r
<1>6. DiscTyped' /\ DiscMoves(t, r)  BY <1>2, <1>3, <1>5, DiscStep
<1>7. known'[v] = task[t].account /\ (\A w \in Versions \ {v} : known'[w] = known[w]) /\ edge' = edge /\ linked' = linked /\ notified' = notified
      /\ optedIn' = optedIn /\ failures' = failures
    BY <1>1 DEF RegisterOprfToken, DiscTyped, DiscTypeOK
<1>8. LinkedInv'
  <2>1. \A u \in Tasks : At(u, "publish") => At(u, "publish")' /\ task'[u] = task[u]
      BY <1>1, <1>6 DEF DiscMoves, At
  <2> QED BY <1>7, <2>1 DEF LinkedInv, ToNotify
<1>9. TokenInv'
  <2> SUFFICES ASSUME failures = 0
               PROVE  /\ \A u \in Tasks : At(u, "link")' /\ task'[u].version \in Plain' => known'[task'[u].version] = task'[u].account
                      /\ \A u \in Tasks : At(u, "insertEdge")' /\ task'[u].version \in Plain' => task'[u].peer = known'[task'[u].version]
                      /\ \A o \in Owners, w \in Plain' : known'[w] # Unlisted /\ (\A u \in Tasks : At(u, "link")' => task'[u].version # w)
                                                             => edge'[<<o, w>>] \in {"none", known'[w]}
      BY <1>7 DEF TokenInv
  <2>1. Plain' \subseteq Plain /\ Plain' \subseteq Versions  BY <1>4, <1>7 DEF Plain
  <2>2. \A u \in Tasks : At(u, "link")' /\ task'[u].version \in Plain' => known'[task'[u].version] = task'[u].account
    <3> SUFFICES ASSUME NEW u \in Tasks, At(u, "link")', task'[u].version \in Plain' PROVE known'[task'[u].version] = task'[u].account
        OBVIOUS
    <3>1. CASE u = t  BY <1>3, <1>6, <1>7, <3>1 DEF DiscMoves
    <3>2. CASE u # t
      <4>1. task'[u] = task[u] /\ At(u, "link")  BY <1>6, <3>2 DEF DiscMoves, At
      <4>2. task[u].version # v  BY <1>4, <2>1, <3>2, <4>1 DEF Plain, Registering, At
      <4> QED BY <1>7, <2>1, <4>1, <4>2 DEF TokenInv
    <3> QED BY <3>1, <3>2
  <2>3. \A u \in Tasks : At(u, "insertEdge")' /\ task'[u].version \in Plain' => task'[u].peer = known'[task'[u].version]
    <3> SUFFICES ASSUME NEW u \in Tasks, At(u, "insertEdge")', task'[u].version \in Plain' PROVE task'[u].peer = known'[task'[u].version]
        OBVIOUS
    <3>1. task'[u] = task[u] /\ At(u, "insertEdge")  BY <1>3, <1>6 DEF DiscMoves, At
    <3>2. task[u].version # v  BY <1>4, <2>1, <3>1 DEF Plain, Inserting
    <3> QED BY <1>7, <2>1, <3>1, <3>2 DEF TokenInv
  <2>4. \A o \in Owners, w \in Plain' : known'[w] # Unlisted /\ (\A u \in Tasks : At(u, "link")' => task'[u].version # w)
                                            => edge'[<<o, w>>] \in {"none", known'[w]}
    <3> SUFFICES ASSUME NEW o \in Owners, NEW w \in Plain', known'[w] # Unlisted, \A u \in Tasks : At(u, "link")' => task'[u].version # w
                 PROVE  edge'[<<o, w>>] \in {"none", known'[w]}
        OBVIOUS
    <3>1. w # v  BY <1>3, <1>6 DEF DiscMoves, At
    <3>2. \A u \in Tasks : At(u, "link") => task[u].version # w  BY <1>1, <1>6 DEF DiscMoves, At
    <3> QED BY <1>7, <2>1, <3>1, <3>2 DEF TokenInv
  <2> QED BY <2>2, <2>3, <2>4
<1> QED BY <1>6, <1>8, <1>9

LEMMA LinkContactEdgesKeeps == ASSUME DiscInv, NEW t \in Tasks, LinkContactEdges(t) PROVE DiscInv'
<1> USE DEF DiscInv
<1> DEFINE v == task[t].version
           a == task[t].account
           O == Distinct(v, a)
           r == [op |-> "login", account |-> a, version |-> v, owners |-> O, at |-> "publish"]
<1>1. task[t] \in [op : {"login"}, account : Registrants, version : Versions, at : {"token", "link"}] /\ At(t, "link")
    BY DiscPlaces DEF LinkContactEdges
<1>2. With(task[t], "owners", O, "publish") = r  BY <1>1 DEF With
<1>3. task' = [task EXCEPT ![t] = r]  BY <1>2 DEF LinkContactEdges, GoesWith
<1>4. /\ edge' = [e \in Owners \X Versions |-> IF e[2] = v /\ e[1] \in O THEN a ELSE edge[e]]
      /\ linked' = linked \cup {<<o, v, a>> : o \in O} /\ Cross(t, v)
      /\ UNCHANGED <<failures, keys, activeKey, known, notified, optedIn>>
    BY DEF LinkContactEdges
<1>5. O \subseteq Owners /\ \A o \in Owners : o \in O <=> edge[<<o, v>>] \notin {"none", a}
    BY DEF Distinct
<1>6. r \in [op : {"login"}, account : Registrants, version : Versions, owners : SUBSET Owners, at : {"publish", "over"}]
      /\ r.at = "publish" /\ r.version = v /\ r.account = a /\ r.owners = O
    BY <1>1, <1>5
<1>7. mingled \subseteq mingled' /\ mingled' \in SUBSET Versions /\ (v \notin mingled' => Registering(v) \ {t} = {} /\ Inserting(v) = {})
    BY <1>1, <1>4 DEF Cross, DiscTyped, DiscTypeOK, Inserting, At
<1> HIDE DEF r, O
<1>8. DiscTypeOK' /\ failures' \in Nat  BY <1>1, <1>4, <1>7 DEF DiscTyped, DiscTypeOK
<1>9. DiscTyped' /\ DiscMoves(t, r)  BY <1>3, <1>6, <1>8, DiscStep
<1>10. LinkedInv'
  <2>1. \A u \in Tasks : At(u, "publish") => At(u, "publish")' /\ task'[u] = task[u]
      BY <1>1, <1>9 DEF DiscMoves, At
  <2>2. At(t, "publish")' /\ \A o \in O : <<o, v, a>> \in ToNotify(t)'
      BY <1>6, <1>9 DEF DiscMoves, At, ToNotify
  <2>3. \A l \in linked : l \in notified \/ failures > 0 \/ \E u \in Tasks : At(u, "publish")' /\ l \in ToNotify(u)'
      BY <2>1 DEF LinkedInv, ToNotify
  <2> QED BY <1>4, <2>2, <2>3 DEF LinkedInv
<1>11. TokenInv'
  <2> SUFFICES ASSUME failures = 0
               PROVE  /\ \A u \in Tasks : At(u, "link")' /\ task'[u].version \in Plain' => known'[task'[u].version] = task'[u].account
                      /\ \A u \in Tasks : At(u, "insertEdge")' /\ task'[u].version \in Plain' => task'[u].peer = known'[task'[u].version]
                      /\ \A o \in Owners, w \in Plain' : known'[w] # Unlisted /\ (\A u \in Tasks : At(u, "link")' => task'[u].version # w)
                                                             => edge'[<<o, w>>] \in {"none", known'[w]}
      BY <1>4 DEF TokenInv
  <2>1. Plain' \subseteq Plain /\ Plain' \subseteq Versions  BY <1>4, <1>7 DEF Plain
  <2>2. \A u \in Tasks : At(u, "link")' \/ At(u, "insertEdge")' => u # t /\ task'[u] = task[u] /\ (At(u, "link") \/ At(u, "insertEdge"))
      BY <1>6, <1>9 DEF DiscMoves, At
  <2>3. \A u \in Tasks : At(u, "link")' /\ task'[u].version \in Plain' => known'[task'[u].version] = task'[u].account
      BY <1>4, <2>1, <2>2 DEF TokenInv, At
  <2>4. \A u \in Tasks : At(u, "insertEdge")' /\ task'[u].version \in Plain' => task'[u].peer = known'[task'[u].version]
      BY <1>4, <2>1, <2>2 DEF TokenInv, At
  <2>5. \A o \in Owners, w \in Plain' : known'[w] # Unlisted /\ (\A u \in Tasks : At(u, "link")' => task'[u].version # w)
                                            => edge'[<<o, w>>] \in {"none", known'[w]}
    <3> SUFFICES ASSUME NEW o \in Owners, NEW w \in Plain', known'[w] # Unlisted, \A u \in Tasks : At(u, "link")' => task'[u].version # w
                 PROVE  edge'[<<o, w>>] \in {"none", known'[w]}
        OBVIOUS
    <3>1. edge'[<<o, w>>] = IF w = v /\ o \in O THEN a ELSE edge[<<o, w>>]  BY <1>4, <2>1
    <3>2. CASE w = v
      <4>1. known[v] = a  BY <1>1, <2>1, <3>2 DEF TokenInv
      <4> QED BY <1>4, <1>5, <3>1, <3>2, <4>1
    <3>3. CASE w # v
      <4>1. \A u \in Tasks : At(u, "link") => task[u].version # w  BY <1>9, <3>3 DEF DiscMoves, At
      <4> QED BY <1>4, <2>1, <3>1, <3>3, <4>1 DEF TokenInv
    <3> QED BY <3>2, <3>3
  <2> QED BY <2>3, <2>4, <2>5
<1> QED BY <1>9, <1>10, <1>11

LEMMA PublishLinkedKeeps == ASSUME DiscInv, NEW t \in Tasks, PublishLinked(t) PROVE DiscInv'
<1> USE DEF DiscInv
<1> DEFINE r == [task[t] EXCEPT !.at = "over"]
<1>1. task[t] \in [op : {"login"}, account : Registrants, version : Versions, owners : SUBSET Owners, at : {"publish", "over"}] /\ At(t, "publish")
    BY DiscPlaces DEF PublishLinked
<1>2. task' = [task EXCEPT ![t] = r]  BY DEF PublishLinked, Goes
<1>3. r \in [op : {"login"}, account : Registrants, version : Versions, owners : SUBSET Owners, at : {"publish", "over"}] /\ r.at = "over"
    BY <1>1
<1>4. DiscTypeOK' /\ failures' \in Nat  BY DEF PublishLinked, DiscTyped, DiscTypeOK
<1> HIDE DEF r
<1>5. DiscTyped' /\ DiscMoves(t, r)  BY <1>2, <1>3, <1>4, DiscStep
<1>6. UNCHANGED <<failures, known, edge, linked, mingled, optedIn>> /\ notified' = notified \cup ToNotify(t)
    BY DEF PublishLinked
<1>7. LinkedInv'
  <2>1. \A u \in Tasks \ {t} : At(u, "publish") => At(u, "publish")' /\ task'[u] = task[u]
      BY <1>5 DEF DiscMoves, At
  <2>2. \A l \in linked : l \in notified \/ failures > 0 \/ l \in ToNotify(t) \/ \E u \in Tasks \ {t} : At(u, "publish") /\ l \in ToNotify(u)
      BY DEF LinkedInv
  <2> QED BY <1>6, <2>1, <2>2 DEF LinkedInv, ToNotify
<1>8. TokenInv'
  <2>1. \A u \in Tasks : (At(u, "link")' <=> At(u, "link")) /\ (At(u, "insertEdge")' <=> At(u, "insertEdge"))
                         /\ (At(u, "link") \/ At(u, "insertEdge") => task'[u] = task[u])
      BY <1>1, <1>3, <1>5 DEF DiscMoves, At
  <2> QED BY <1>6, <2>1 DEF TokenInv, Plain
<1> QED BY <1>5, <1>7, <1>8

\* Whoever opts in or out by himself opts the token out of being linked.
LEMMA RegisterKeeps == ASSUME DiscInv, NEW t \in Tasks, Register(t) \/ Unregister(t) PROVE DiscInv'
<1> USE DEF DiscInv
<1>1. PICK op \in {"register", "unregister"} : Begins(t, [op |-> op, at |-> "over"])
    BY DEF Register, Unregister
<1> DEFINE r == [op |-> op, at |-> "over"]
<1>2. task[t] = New /\ task' = [task EXCEPT ![t] = r] /\ r.at = "over" /\ r \in [op : {"register", "unregister"}, at : {"over"}]
    BY <1>1 DEF Begins
<1>3. UNCHANGED <<failures, keys, activeKey, edge, notified, linked, mingled>>
    BY DEF Register, Unregister
<1>4. known' \in [Versions -> Registrants \cup {Unlisted}] /\ optedIn \subseteq optedIn' /\ optedIn' \in SUBSET Versions
      /\ \A v \in Versions \ optedIn' : known'[v] = known[v]
  <2>1. CASE Register(t)  BY <2>1 DEF Register, DiscTyped, DiscTypeOK
  <2>2. CASE Unregister(t)  BY <2>2 DEF Unregister, DiscTyped, DiscTypeOK
  <2> QED BY <2>1, <2>2
<1> HIDE DEF r
<1>5. DiscTypeOK' /\ failures' \in Nat  BY <1>3, <1>4 DEF DiscTyped, DiscTypeOK
<1>6. DiscTyped' /\ DiscMoves(t, r)  BY <1>2, <1>5, DiscStep
<1>7. \A u \in Tasks : /\ \A p \in {"link", "insertEdge", "publish"} : At(u, p)' <=> At(u, p)
                       /\ At(u, "link") \/ At(u, "insertEdge") \/ At(u, "publish") => task'[u] = task[u]
    BY <1>2, <1>6 DEF DiscMoves, At, New
<1>8. LinkedInv'  BY <1>3, <1>7 DEF LinkedInv, ToNotify
<1>9. Plain' \subseteq Plain /\ \A v \in Plain' : known'[v] = known[v]  BY <1>3, <1>4 DEF Plain
<1>10. TokenInv'  BY <1>3, <1>7, <1>9 DEF TokenInv
<1> QED BY <1>6, <1>8, <1>10

LEMMA SnapshotPeerKeeps == ASSUME DiscInv, NEW t \in Tasks, SnapshotPeer(t) PROVE DiscInv'
<1> USE DEF DiscInv
<1>1. PICK o \in Owners, v \in keys : Begins(t, [op |-> "edges", owner |-> o, version |-> v, peer |-> known[v], at |-> "insertEdge"])
    BY DEF SnapshotPeer
<1> DEFINE r == [op |-> "edges", owner |-> o, version |-> v, peer |-> known[v], at |-> "insertEdge"]
<1>2. task[t] = New /\ task' = [task EXCEPT ![t] = r]  BY <1>1 DEF Begins
<1>3. r \in [op : {"edges"}, owner : Owners, version : Versions, peer : Registrants \cup {Unlisted}, at : {"insertEdge", "over"}]
      /\ r.at = "insertEdge" /\ r.version = v /\ r.peer = known[v]
    BY DEF DiscTyped, DiscTypeOK
<1>4. UNCHANGED discVars /\ failures' = failures  BY DEF SnapshotPeer
<1>5. DiscTypeOK' /\ failures' \in Nat  BY <1>4 DEF discVars, DiscTyped, DiscTypeOK
<1> HIDE DEF r
<1>6. DiscTyped' /\ DiscMoves(t, r)  BY <1>2, <1>3, <1>5, DiscStep
<1>7. \A u \in Tasks : /\ \A p \in {"link", "publish"} : At(u, p)' <=> At(u, p)
                       /\ At(u, "link") \/ At(u, "publish") => task'[u] = task[u]
                       /\ At(u, "insertEdge")' => u = t \/ (At(u, "insertEdge") /\ task'[u] = task[u])
    BY <1>2, <1>3, <1>6 DEF DiscMoves, At, New
<1>8. LinkedInv'  BY <1>4, <1>7 DEF LinkedInv, ToNotify, discVars
<1>9. TokenInv'
  <2>1. \A u \in Tasks : At(u, "insertEdge")' /\ failures = 0 /\ task'[u].version \in Plain => task'[u].peer = known[task'[u].version]
      BY <1>3, <1>6, <1>7 DEF TokenInv, DiscMoves
  <2> QED BY <1>4, <1>7, <2>1 DEF TokenInv, Plain, discVars
<1> QED BY <1>6, <1>8, <1>9

LEMMA InsertEdgeKeeps == ASSUME DiscInv, NEW t \in Tasks, InsertEdge(t) PROVE DiscInv'
<1> USE DEF DiscInv
<1> DEFINE v == task[t].version
           r == [task[t] EXCEPT !.at = "over"]
<1>1. task[t] \in [op : {"edges"}, owner : Owners, version : Versions, peer : Registrants \cup {Unlisted}, at : {"insertEdge", "over"}] /\ At(t, "insertEdge")
    BY DiscPlaces DEF InsertEdge
<1>2. task' = [task EXCEPT ![t] = r]  BY DEF InsertEdge, Goes
<1>3. r \in [op : {"edges"}, owner : Owners, version : Versions, peer : Registrants \cup {Unlisted}, at : {"insertEdge", "over"}] /\ r.at = "over"
    BY <1>1
<1>4. mingled \subseteq mingled' /\ mingled' \in SUBSET Versions /\ (v \notin mingled' => Registering(v) \ {t} = {})
    BY <1>1 DEF InsertEdge, Cross, DiscTyped, DiscTypeOK
<1>5. /\ edge' \in [Owners \X Versions -> Registrants \cup {Unlisted, "none"}]
      /\ \A o \in Owners, w \in Versions : edge'[<<o, w>>] = IF o = task[t].owner /\ w = v THEN task[t].peer ELSE edge[<<o, w>>]
      /\ UNCHANGED <<failures, keys, activeKey, known, notified, linked, optedIn>>
    BY <1>1 DEF InsertEdge, Peer, DiscTyped, DiscTypeOK
<1>6. DiscTypeOK' /\ failures' \in Nat  BY <1>4, <1>5 DEF DiscTyped, DiscTypeOK
<1> HIDE DEF r
<1>7. DiscTyped' /\ DiscMoves(t, r)  BY <1>2, <1>3, <1>6, DiscStep
<1>8. \A u \in Tasks : /\ \A p \in {"link", "publish"} : At(u, p)' <=> At(u, p)
                       /\ At(u, "link") \/ At(u, "publish") => task'[u] = task[u]
                       /\ At(u, "insertEdge")' => At(u, "insertEdge") /\ task'[u] = task[u]
    BY <1>1, <1>3, <1>7 DEF DiscMoves, At
<1>9. LinkedInv'  BY <1>5, <1>8 DEF LinkedInv, ToNotify
<1>10. Plain' \subseteq Plain /\ Plain' \subseteq Versions  BY <1>4, <1>5 DEF Plain
<1>11. failures = 0 /\ v \in Plain' => task[t].peer = known[v]  BY <1>1, <1>10 DEF TokenInv
<1>12. failures = 0 => \A o \in Owners, w \in Plain' :
          known[w] # Unlisted /\ (\A u \in Tasks : At(u, "link")' => task'[u].version # w) => edge'[<<o, w>>] \in {"none", known[w]}
    BY <1>5, <1>8, <1>10, <1>11 DEF TokenInv
<1>13. TokenInv'  BY <1>5, <1>8, <1>10, <1>12 DEF TokenInv
<1> QED BY <1>7, <1>9, <1>13

LEMMA DiscFailKeeps == ASSUME DiscInv, NEW t \in Tasks, Fails(t), UNCHANGED discVars PROVE DiscInv'
<1> USE DEF DiscInv
<1>1. task' = [task EXCEPT ![t] = Failed] /\ failures' = failures + 1  BY DEF Fails
<1>2. DiscTypeOK' /\ failures' \in Nat /\ failures' > 0  BY <1>1 DEF discVars, DiscTyped, DiscTypeOK
<1>3. DiscTyped'  BY <1>1, <1>2, DiscStep
<1> QED BY <1>2, <1>3 DEF TokenInv, LinkedInv

LEMMA DiscInvInit == ASSUME TasksInit, DiscInit PROVE DiscInv
<1>1. DiscTypeOK  BY DirectoryAssumption DEF DiscInit, DiscTypeOK, Versions
<1>2. TasksAreThere /\ (\A t \in Tasks : task[t] = New) /\ failures = 0
    BY DEF TasksInit, TasksAreThere
<1>3. DiscTyped  BY <1>1, <1>2 DEF DiscTyped, DiscTask
<1>4. TokenInv  BY <1>2 DEF TokenInv, DiscInit, Plain, At, New
<1> QED BY <1>3, <1>4 DEF DiscInv, LinkedInv, DiscInit

LEMMA DiscInvNext == ASSUME DiscInv, DiscNext PROVE DiscInv'
    BY ReadVersionKeeps, InsertKeyKeeps, ReadKeyKeeps, RegisterOprfTokenKeeps, LinkContactEdgesKeeps, PublishLinkedKeeps, RegisterKeeps,
       SnapshotPeerKeeps, InsertEdgeKeeps, DiscFailKeeps DEF DiscNext, DiscRequests

LEMMA DiscInvStays == ASSUME DiscInv, UNCHANGED <<taskVars, discVars>> PROVE DiscInv'
    BY DEF taskVars, discVars, DiscInv, DiscTyped, DiscTypeOK, TasksAreThere, DiscTask, TokenInv, Plain, LinkedInv, ToNotify, At

LEMMA DiscInvHolds == ASSUME DiscInv PROVE EdgesFollowTheToken
    BY DEF DiscInv, TokenInv, LinkedInv, EdgesFollowTheToken, Plain, Registering, At

----------------------------------------------------------------------------
(* Organisations                                                           *)

OrgTask(t) ==
    \/ task[t] \in {New, Failed}
    \/ task[t] \in [op : {"add"}, on : Users, role : Roles, at : {"write", "tell", "over"}]
    \/ task[t] \in [op : {"remove"}, on : Users, at : {"write", "over"}]
    \/ task[t] \in [op : {"retention"}, on : {"policy"}, policy : Policies, at : {"write", "tell", "over"}]

OrgTyped == OrgTypeOK /\ task = [t \in Tasks |-> task[t]] /\ (\A t \in Tasks : OrgTask(t)) /\ failures \in Nat

TellsRole(t)   == At(t, "tell") /\ task[t].op = "add"
TellsPolicy(t) == At(t, "tell") /\ task[t].op = "retention"

\* What is written is what is yet to be told, or was told last.
TellInv ==
    failures = 0 =>
       /\ \A u \in Users \ doubled :
             /\ \A t \in Tasks : TellsRole(t) /\ task[t].on = u => role[u] = task[t].role
             /\ (\A t \in Tasks : TellsRole(t) => task[t].on # u) /\ role[u] # NoRole => memberTold[u] = role[u]
       /\ "policy" \notin doubled =>
             /\ \A t \in Tasks : TellsPolicy(t) => policy = task[t].policy
             /\ (\A t \in Tasks : ~TellsPolicy(t)) => audited = policy

OrgInv == OrgTyped /\ TellInv

\* Where a step of t leaves it; no other call moves.
OrgMoves(t, r) == task'[t] = r /\ \A u \in Tasks \ {t} : task'[u] = task[u]

LEMMA OrgStep ==
    ASSUME OrgTyped, NEW t \in Tasks, NEW r, task' = [task EXCEPT ![t] = r],
           OrgTypeOK', failures' \in Nat,
           \/ r \in {New, Failed}
           \/ r \in [op : {"add"}, on : Users, role : Roles, at : {"write", "tell", "over"}]
           \/ r \in [op : {"remove"}, on : Users, at : {"write", "over"}]
           \/ r \in [op : {"retention"}, on : {"policy"}, policy : Policies, at : {"write", "tell", "over"}]
    PROVE  OrgTyped' /\ OrgMoves(t, r)
<1>1. task' = [u \in Tasks |-> task'[u]] /\ task'[t] = r /\ \A u \in Tasks \ {t} : task'[u] = task[u]
  <2>1. task' = [u \in Tasks |-> IF u = t THEN r ELSE task[u]]  BY DEF OrgTyped
  <2> QED BY <2>1
<1>2. OrgTask(t)'  BY <1>1 DEF OrgTask
<1>3. \A u \in Tasks \ {t} : OrgTask(u)'  BY <1>1 DEF OrgTyped, OrgTask
<1> QED BY <1>1, <1>2, <1>3 DEF OrgTyped, OrgMoves

LEMMA OrgPlaces ==
    ASSUME OrgTyped, NEW t \in Tasks, At(t, "write") \/ At(t, "tell")
    PROVE  /\ task[t].op = "add" => task[t] \in [op : {"add"}, on : Users, role : Roles, at : {"write", "tell", "over"}]
           /\ task[t].op = "remove" => task[t] \in [op : {"remove"}, on : Users, at : {"write", "over"}]
           /\ task[t].op = "retention" => task[t] \in [op : {"retention"}, on : {"policy"}, policy : Policies, at : {"write", "tell", "over"}]
<1>1. OrgTask(t)  BY DEF OrgTyped
<1> QED BY <1>1 DEF OrgTask, New, Failed, At

\* What is not doubled has one writer.
LEMMA OnlyWriter ==
    ASSUME NEW t \in Tasks, Overlap(t), task[t].on \notin doubled',
           NEW u \in Tasks \ {t}, TellsRole(u) \/ TellsPolicy(u)
    PROVE  task[u].on # task[t].on
<1>1. Busy(task[t].on) = {t}  BY DEF Overlap
<1>2. \E op \in {"add", "remove", "retention"} : Under(u, op)
    BY DEF TellsRole, TellsPolicy, At, Under
<1> QED BY <1>1, <1>2 DEF Busy

LEMMA OverlapAdds == ASSUME OrgTyped, NEW t \in Tasks, Overlap(t), task[t].on \in Users \cup {"policy"}
    PROVE  doubled \subseteq doubled' /\ doubled' \subseteq Users \cup {"policy"}
    BY DEF Overlap, OrgTyped, OrgTypeOK

\* A call that begins tells nothing.
LEMMA OrgBegins ==
    ASSUME OrgInv, NEW t \in Tasks, NEW r, Begins(t, r), OrgTypeOK', failures' = failures, r.at = "write",
           UNCHANGED <<role, memberTold, policy, audited, doubled>>,
           \/ r \in [op : {"add"}, on : Users, role : Roles, at : {"write", "tell", "over"}]
           \/ r \in [op : {"remove"}, on : Users, at : {"write", "over"}]
           \/ r \in [op : {"retention"}, on : {"policy"}, policy : Policies, at : {"write", "tell", "over"}]
    PROVE  OrgInv'
<1> USE DEF OrgInv
<1>1. task[t] = New /\ task' = [task EXCEPT ![t] = r]  BY DEF Begins
<1>2. OrgTyped' /\ OrgMoves(t, r)  BY <1>1, OrgStep DEF OrgTyped
<1>3. \A u \in Tasks : /\ TellsRole(u)' <=> TellsRole(u)
                       /\ TellsPolicy(u)' <=> TellsPolicy(u)
                       /\ TellsRole(u) \/ TellsPolicy(u) => task'[u] = task[u]
    BY <1>1, <1>2 DEF OrgMoves, TellsRole, TellsPolicy, At, New
<1>4. TellInv'  BY <1>3 DEF TellInv
<1> QED BY <1>2, <1>4

LEMMA CreateOrgKeeps == ASSUME OrgInv, NEW t \in Tasks, CreateOrg(t) PROVE OrgInv'
<1> USE DEF OrgInv
<1>1. PICK u \in Users : Begins(t, [op |-> "add", on |-> u, role |-> "owner", at |-> "write"])
    BY DEF CreateOrg
<1> DEFINE r == [op |-> "add", on |-> u, role |-> "owner", at |-> "write"]
<1>2. r \in [op : {"add"}, on : Users, role : Roles, at : {"write", "tell", "over"}] /\ r.at = "write"
    BY DEF Roles
<1>3. OrgTypeOK' /\ failures' = failures /\ UNCHANGED <<role, memberTold, policy, audited, doubled>>
    BY DEF CreateOrg, OrgTyped, OrgTypeOK
<1> HIDE DEF r
<1> QED BY <1>1, <1>2, <1>3, OrgBegins DEF r

LEMMA CheckRoleKeeps == ASSUME OrgInv, NEW t \in Tasks, CheckRole(t) PROVE OrgInv'
<1> USE DEF OrgInv
<1>1. PICK u \in Users : \/ \E q \in {"member", "admin"} : Begins(t, [op |-> "add", on |-> u, role |-> q, at |-> "write"])
                         \/ Begins(t, [op |-> "remove", on |-> u, at |-> "write"])
    BY DEF CheckRole
<1>2. OrgTypeOK' /\ failures' = failures /\ UNCHANGED <<role, memberTold, policy, audited, doubled>>
    BY DEF CheckRole, orgVars, OrgTyped, OrgTypeOK
<1>3. CASE \E q \in {"member", "admin"} : Begins(t, [op |-> "add", on |-> u, role |-> q, at |-> "write"])
  <2>1. PICK q \in {"member", "admin"} : Begins(t, [op |-> "add", on |-> u, role |-> q, at |-> "write"])
      BY <1>3
  <2> DEFINE r == [op |-> "add", on |-> u, role |-> q, at |-> "write"]
  <2>2. r \in [op : {"add"}, on : Users, role : Roles, at : {"write", "tell", "over"}] /\ r.at = "write"
      BY DEF Roles
  <2>3. Begins(t, r)  BY <2>1
  <2> HIDE DEF r
  <2> QED BY <1>2, <2>2, <2>3, OrgBegins
<1>4. CASE Begins(t, [op |-> "remove", on |-> u, at |-> "write"])
  <2> DEFINE r == [op |-> "remove", on |-> u, at |-> "write"]
  <2>1. r \in [op : {"remove"}, on : Users, at : {"write", "over"}] /\ r.at = "write"  OBVIOUS
  <2>2. Begins(t, r)  BY <1>4
  <2> HIDE DEF r
  <2> QED BY <1>2, <2>1, <2>2, OrgBegins
<1> QED BY <1>1, <1>3, <1>4

LEMMA CheckAdminKeeps == ASSUME OrgInv, NEW t \in Tasks, CheckAdmin(t) PROVE OrgInv'
<1> USE DEF OrgInv
<1>1. PICK p \in Policies : Begins(t, [op |-> "retention", on |-> "policy", policy |-> p, at |-> "write"])
    BY DEF CheckAdmin
<1> DEFINE r == [op |-> "retention", on |-> "policy", policy |-> p, at |-> "write"]
<1>2. r \in [op : {"retention"}, on : {"policy"}, policy : Policies, at : {"write", "tell", "over"}] /\ r.at = "write"
    OBVIOUS
<1>3. OrgTypeOK' /\ failures' = failures /\ UNCHANGED <<role, memberTold, policy, audited, doubled>>
    BY DEF CheckAdmin, orgVars, OrgTyped, OrgTypeOK
<1>4. Begins(t, r)  BY <1>1
<1> HIDE DEF r
<1> QED BY <1>2, <1>3, <1>4, OrgBegins

LEMMA AddMemberKeeps == ASSUME OrgInv, NEW t \in Tasks, AddMember(t) PROVE OrgInv'
<1> USE DEF OrgInv
<1>1. task[t] \in [op : {"add"}, on : Users, role : Roles, at : {"write", "tell", "over"}] /\ At(t, "write")
    BY OrgPlaces DEF AddMember
<1> DEFINE r == [task[t] EXCEPT !.at = "tell"]
           x == task[t].on
<1>2. task' = [task EXCEPT ![t] = r]  BY DEF AddMember, Goes
<1>3. r \in [op : {"add"}, on : Users, role : Roles, at : {"write", "tell", "over"}] /\ r.at = "tell" /\ r.on = x /\ r.op = task[t].op
    BY <1>1
<1>4. doubled \subseteq doubled' /\ doubled' \subseteq Users \cup {"policy"}
    BY <1>1, OverlapAdds DEF AddMember
<1>5. OrgTypeOK' /\ failures' = failures /\ failures' \in Nat
    BY <1>1, <1>4 DEF AddMember, OrgTyped, OrgTypeOK, Upserted, Roles
<1>6. OrgTyped' /\ OrgMoves(t, r)
  <2> HIDE DEF r
  <2> QED BY <1>2, <1>3, <1>5, OrgStep
<1>7. \A u \in Tasks \ {t} : (TellsRole(u)' <=> TellsRole(u)) /\ (TellsPolicy(u)' <=> TellsPolicy(u)) /\ task'[u] = task[u]
    BY <1>6 DEF OrgMoves, TellsRole, TellsPolicy, At
<1>8. TellsRole(t)' /\ ~TellsPolicy(t)' /\ ~TellsRole(t) /\ ~TellsPolicy(t) /\ task'[t] = r
    BY <1>1, <1>3, <1>6 DEF OrgMoves, TellsRole, TellsPolicy, At
<1>9. x \notin doubled' => \A u \in Tasks \ {t} : TellsRole(u) => task[u].on # x
    BY OnlyWriter DEF AddMember
<1>10. failures = 0 => \A w \in Users \ doubled' :
          /\ \A u \in Tasks : TellsRole(u)' /\ task'[u].on = w => role'[w] = task'[u].role
          /\ (\A u \in Tasks : TellsRole(u)' => task'[u].on # w) /\ role'[w] # NoRole => memberTold'[w] = role'[w]
  <2> SUFFICES ASSUME failures = 0, NEW w \in Users \ doubled'
               PROVE  /\ \A u \in Tasks : TellsRole(u)' /\ task'[u].on = w => role'[w] = task'[u].role
                      /\ (\A u \in Tasks : TellsRole(u)' => task'[u].on # w) /\ role'[w] # NoRole => memberTold'[w] = role'[w]
      OBVIOUS
  <2>1. /\ \A u \in Tasks : TellsRole(u) /\ task[u].on = w => role[w] = task[u].role
        /\ (\A u \in Tasks : TellsRole(u) => task[u].on # w) /\ role[w] # NoRole => memberTold[w] = role[w]
      BY <1>4 DEF TellInv
  <2>2. CASE w # x
    <3>1. role'[w] = role[w] /\ memberTold'[w] = memberTold[w]
        BY <2>2 DEF AddMember, OrgTyped, OrgTypeOK
    <3>2. \A u \in Tasks : /\ TellsRole(u)' /\ task'[u].on = w => TellsRole(u) /\ task'[u] = task[u]
                           /\ TellsRole(u) /\ task[u].on = w => TellsRole(u)' /\ task'[u].on = w
        BY <1>3, <1>6, <1>7, <1>8, <2>2 DEF OrgMoves
    <3> QED BY <2>1, <3>1, <3>2
  <2>3. CASE w = x
    <3>1. \A u \in Tasks \ {t} : TellsRole(u)' => task'[u].on # w  BY <1>7, <1>9, <2>3
    <3>2. role'[w] = task[t].role /\ task'[t].role = task[t].role /\ TellsRole(t)' /\ task'[t].on = w
        BY <1>1, <1>3, <1>8, <2>3 DEF AddMember, Upserted, OrgTyped, OrgTypeOK
    <3> QED BY <1>3, <1>8, <2>3, <3>1, <3>2
  <2> QED BY <2>2, <2>3
<1>11. failures = 0 /\ "policy" \notin doubled' =>
          /\ \A u \in Tasks : TellsPolicy(u)' => policy' = task'[u].policy
          /\ (\A u \in Tasks : ~TellsPolicy(u)') => audited' = policy'
    BY <1>4, <1>7, <1>8 DEF TellInv, AddMember
<1>12. TellInv'  BY <1>5, <1>10, <1>11 DEF TellInv
<1> QED BY <1>6, <1>12

LEMMA MemberAddedKeeps == ASSUME OrgInv, NEW t \in Tasks, MemberAdded(t) PROVE OrgInv'
<1> USE DEF OrgInv
<1>1. task[t] \in [op : {"add"}, on : Users, role : Roles, at : {"write", "tell", "over"}] /\ At(t, "tell")
    BY OrgPlaces DEF MemberAdded
<1> DEFINE r == [task[t] EXCEPT !.at = "over"]
           x == task[t].on
<1>2. task' = [task EXCEPT ![t] = r]  BY DEF MemberAdded, Goes
<1>3. r \in [op : {"add"}, on : Users, role : Roles, at : {"write", "tell", "over"}] /\ r.at = "over" /\ r.on = x /\ r.op = task[t].op
    BY <1>1
<1>4. doubled \subseteq doubled' /\ doubled' \subseteq Users \cup {"policy"}
    BY <1>1, OverlapAdds DEF MemberAdded
<1>5. OrgTypeOK' /\ failures' = failures /\ failures' \in Nat
    BY <1>1, <1>4 DEF MemberAdded, OrgTyped, OrgTypeOK, Upserted, Roles
<1>6. OrgTyped' /\ OrgMoves(t, r)
  <2> HIDE DEF r
  <2> QED BY <1>2, <1>3, <1>5, OrgStep
<1>7. \A u \in Tasks \ {t} : (TellsRole(u)' <=> TellsRole(u)) /\ (TellsPolicy(u)' <=> TellsPolicy(u)) /\ task'[u] = task[u]
    BY <1>6 DEF OrgMoves, TellsRole, TellsPolicy, At
<1>8. ~TellsRole(t)' /\ ~TellsPolicy(t)' /\ ~TellsPolicy(t)
    BY <1>1, <1>3, <1>6 DEF OrgMoves, TellsRole, TellsPolicy, At
<1>9. x \notin doubled' => \A u \in Tasks \ {t} : TellsRole(u) => task[u].on # x
    BY OnlyWriter DEF MemberAdded
<1>10. failures = 0 => \A w \in Users \ doubled' :
          /\ \A u \in Tasks : TellsRole(u)' /\ task'[u].on = w => role'[w] = task'[u].role
          /\ (\A u \in Tasks : TellsRole(u)' => task'[u].on # w) /\ role'[w] # NoRole => memberTold'[w] = role'[w]
  <2> SUFFICES ASSUME failures = 0, NEW w \in Users \ doubled'
               PROVE  /\ \A u \in Tasks : TellsRole(u)' /\ task'[u].on = w => role'[w] = task'[u].role
                      /\ (\A u \in Tasks : TellsRole(u)' => task'[u].on # w) /\ role'[w] # NoRole => memberTold'[w] = role'[w]
      OBVIOUS
  <2>1. /\ \A u \in Tasks : TellsRole(u) /\ task[u].on = w => role[w] = task[u].role
        /\ (\A u \in Tasks : TellsRole(u) => task[u].on # w) /\ role[w] # NoRole => memberTold[w] = role[w]
      BY <1>4 DEF TellInv
  <2>2. CASE w # x
    <3>1. role'[w] = role[w] /\ memberTold'[w] = memberTold[w]
        BY <2>2 DEF MemberAdded, OrgTyped, OrgTypeOK
    <3>2. \A u \in Tasks : /\ TellsRole(u)' /\ task'[u].on = w => TellsRole(u) /\ task'[u] = task[u]
                           /\ TellsRole(u) /\ task[u].on = w => TellsRole(u)' /\ task'[u].on = w
        BY <1>3, <1>6, <1>7, <1>8, <2>2 DEF OrgMoves
    <3> QED BY <2>1, <3>1, <3>2
  <2>3. CASE w = x
    <3>1. \A u \in Tasks \ {t} : TellsRole(u)' => task'[u].on # w  BY <1>7, <1>9, <2>3
    <3>2. role'[w] = task[t].role /\ memberTold'[w] = task[t].role
        BY <1>1, <2>1, <2>3 DEF MemberAdded, TellsRole, OrgTyped, OrgTypeOK
    <3> QED BY <1>8, <3>1, <3>2
  <2> QED BY <2>2, <2>3
<1>11. failures = 0 /\ "policy" \notin doubled' =>
          /\ \A u \in Tasks : TellsPolicy(u)' => policy' = task'[u].policy
          /\ (\A u \in Tasks : ~TellsPolicy(u)') => audited' = policy'
    BY <1>4, <1>7, <1>8 DEF TellInv, MemberAdded
<1>12. TellInv'  BY <1>5, <1>10, <1>11 DEF TellInv
<1> QED BY <1>6, <1>12

LEMMA RemoveMemberKeeps == ASSUME OrgInv, NEW t \in Tasks, RemoveMember(t) PROVE OrgInv'
<1> USE DEF OrgInv
<1>1. task[t] \in [op : {"remove"}, on : Users, at : {"write", "over"}] /\ At(t, "write")
    BY OrgPlaces DEF RemoveMember
<1> DEFINE r == [task[t] EXCEPT !.at = "over"]
           x == task[t].on
<1>2. task' = [task EXCEPT ![t] = r]  BY DEF RemoveMember, Goes
<1>3. r \in [op : {"remove"}, on : Users, at : {"write", "over"}] /\ r.at = "over" /\ r.on = x /\ r.op = task[t].op
    BY <1>1
<1>4. doubled \subseteq doubled' /\ doubled' \subseteq Users \cup {"policy"}
    BY <1>1, OverlapAdds DEF RemoveMember
<1>5. OrgTypeOK' /\ failures' = failures /\ failures' \in Nat
    BY <1>1, <1>4 DEF RemoveMember, OrgTyped, OrgTypeOK, Upserted, Roles
<1>6. OrgTyped' /\ OrgMoves(t, r)
  <2> HIDE DEF r
  <2> QED BY <1>2, <1>3, <1>5, OrgStep
<1>7. \A u \in Tasks \ {t} : (TellsRole(u)' <=> TellsRole(u)) /\ (TellsPolicy(u)' <=> TellsPolicy(u)) /\ task'[u] = task[u]
    BY <1>6 DEF OrgMoves, TellsRole, TellsPolicy, At
<1>8. ~TellsRole(t)' /\ ~TellsPolicy(t)' /\ ~TellsPolicy(t)
    BY <1>1, <1>3, <1>6 DEF OrgMoves, TellsRole, TellsPolicy, At
<1>9. x \notin doubled' => \A u \in Tasks \ {t} : TellsRole(u) => task[u].on # x
    BY OnlyWriter DEF RemoveMember
<1>10. failures = 0 => \A w \in Users \ doubled' :
          /\ \A u \in Tasks : TellsRole(u)' /\ task'[u].on = w => role'[w] = task'[u].role
          /\ (\A u \in Tasks : TellsRole(u)' => task'[u].on # w) /\ role'[w] # NoRole => memberTold'[w] = role'[w]
  <2> SUFFICES ASSUME failures = 0, NEW w \in Users \ doubled'
               PROVE  /\ \A u \in Tasks : TellsRole(u)' /\ task'[u].on = w => role'[w] = task'[u].role
                      /\ (\A u \in Tasks : TellsRole(u)' => task'[u].on # w) /\ role'[w] # NoRole => memberTold'[w] = role'[w]
      OBVIOUS
  <2>1. /\ \A u \in Tasks : TellsRole(u) /\ task[u].on = w => role[w] = task[u].role
        /\ (\A u \in Tasks : TellsRole(u) => task[u].on # w) /\ role[w] # NoRole => memberTold[w] = role[w]
      BY <1>4 DEF TellInv
  <2>2. CASE w # x
    <3>1. role'[w] = role[w] /\ memberTold'[w] = memberTold[w]
        BY <2>2 DEF RemoveMember, OrgTyped, OrgTypeOK
    <3>2. \A u \in Tasks : /\ TellsRole(u)' /\ task'[u].on = w => TellsRole(u) /\ task'[u] = task[u]
                           /\ TellsRole(u) /\ task[u].on = w => TellsRole(u)' /\ task'[u].on = w
        BY <1>3, <1>6, <1>7, <1>8, <2>2 DEF OrgMoves
    <3> QED BY <2>1, <3>1, <3>2
  <2>3. CASE w = x
    <3>1. \A u \in Tasks \ {t} : TellsRole(u)' => task'[u].on # w  BY <1>7, <1>9, <2>3
    <3>2. role'[w] = NoRole  BY <1>1, <2>3 DEF RemoveMember, OrgTyped, OrgTypeOK
    <3> QED BY <1>8, <3>1, <3>2
  <2> QED BY <2>2, <2>3
<1>11. failures = 0 /\ "policy" \notin doubled' =>
          /\ \A u \in Tasks : TellsPolicy(u)' => policy' = task'[u].policy
          /\ (\A u \in Tasks : ~TellsPolicy(u)') => audited' = policy'
    BY <1>4, <1>7, <1>8 DEF TellInv, RemoveMember
<1>12. TellInv'  BY <1>5, <1>10, <1>11 DEF TellInv
<1> QED BY <1>6, <1>12

LEMMA UpsertRetentionKeeps == ASSUME OrgInv, NEW t \in Tasks, UpsertRetention(t) PROVE OrgInv'
<1> USE DEF OrgInv
<1>1. task[t] \in [op : {"retention"}, on : {"policy"}, policy : Policies, at : {"write", "tell", "over"}] /\ At(t, "write")
    BY OrgPlaces DEF UpsertRetention
<1> DEFINE r == [task[t] EXCEPT !.at = "tell"]
           x == task[t].on
<1>2. task' = [task EXCEPT ![t] = r]  BY DEF UpsertRetention, Goes
<1>3. r \in [op : {"retention"}, on : {"policy"}, policy : Policies, at : {"write", "tell", "over"}] /\ r.at = "tell" /\ r.on = x /\ r.op = task[t].op
    BY <1>1
<1>4. doubled \subseteq doubled' /\ doubled' \subseteq Users \cup {"policy"}
    BY <1>1, OverlapAdds DEF UpsertRetention
<1>5. OrgTypeOK' /\ failures' = failures /\ failures' \in Nat
    BY <1>1, <1>4 DEF UpsertRetention, OrgTyped, OrgTypeOK, Upserted, Roles
<1>6. OrgTyped' /\ OrgMoves(t, r)
  <2> HIDE DEF r
  <2> QED BY <1>2, <1>3, <1>5, OrgStep
<1>7. \A u \in Tasks \ {t} : (TellsRole(u)' <=> TellsRole(u)) /\ (TellsPolicy(u)' <=> TellsPolicy(u)) /\ task'[u] = task[u]
    BY <1>6 DEF OrgMoves, TellsRole, TellsPolicy, At
<1>8. TellsPolicy(t)' /\ ~TellsRole(t)' /\ ~TellsRole(t) /\ ~TellsPolicy(t) /\ task'[t] = r
    BY <1>1, <1>3, <1>6 DEF OrgMoves, TellsRole, TellsPolicy, At
<1>9. x \notin doubled' => \A u \in Tasks \ {t} : TellsPolicy(u) => task[u].on # x
    BY OnlyWriter DEF UpsertRetention
<1>10. failures = 0 => \A w \in Users \ doubled' :
          /\ \A u \in Tasks : TellsRole(u)' /\ task'[u].on = w => role'[w] = task'[u].role
          /\ (\A u \in Tasks : TellsRole(u)' => task'[u].on # w) /\ role'[w] # NoRole => memberTold'[w] = role'[w]
  <2>1. UNCHANGED <<role, memberTold>> /\ \A u \in Tasks : TellsRole(u)' <=> TellsRole(u)
      BY <1>1, <1>3, <1>6, <1>7 DEF UpsertRetention, OrgMoves, TellsRole
  <2>2. \A u \in Tasks : TellsRole(u) => task'[u] = task[u]  BY <1>1, <1>7 DEF TellsRole
  <2> QED BY <1>4, <2>1, <2>2 DEF TellInv
<1>11. failures = 0 /\ "policy" \notin doubled' =>
          /\ \A u \in Tasks : TellsPolicy(u)' => policy' = task'[u].policy
          /\ (\A u \in Tasks : ~TellsPolicy(u)') => audited' = policy'
  <2> SUFFICES ASSUME failures = 0, "policy" \notin doubled'
               PROVE  /\ \A u \in Tasks : TellsPolicy(u)' => policy' = task'[u].policy
                      /\ (\A u \in Tasks : ~TellsPolicy(u)') => audited' = policy'
      OBVIOUS
  <2>1. x = "policy" /\ \A u \in Tasks : TellsPolicy(u) => task[u].on = "policy"
    <3>1. \A u \in Tasks : TellsPolicy(u) => task[u] \in [op : {"retention"}, on : {"policy"}, policy : Policies, at : {"write", "tell", "over"}]
        BY OrgPlaces DEF TellsPolicy
    <3> QED BY <1>1, <3>1
  <2>2. \A u \in Tasks \ {t} : ~TellsPolicy(u)'  BY <1>7, <1>9, <2>1
  <2>3. policy' = task'[t].policy  BY <1>1, <1>3, <1>8 DEF UpsertRetention
  <2> QED BY <1>8, <2>2, <2>3
<1>12. TellInv'  BY <1>5, <1>10, <1>11 DEF TellInv
<1> QED BY <1>6, <1>12

LEMMA AppendAuditKeeps == ASSUME OrgInv, NEW t \in Tasks, AppendAudit(t) PROVE OrgInv'
<1> USE DEF OrgInv
<1>1. task[t] \in [op : {"retention"}, on : {"policy"}, policy : Policies, at : {"write", "tell", "over"}] /\ At(t, "tell")
    BY OrgPlaces DEF AppendAudit
<1> DEFINE r == [task[t] EXCEPT !.at = "over"]
           x == task[t].on
<1>2. task' = [task EXCEPT ![t] = r]  BY DEF AppendAudit, Goes
<1>3. r \in [op : {"retention"}, on : {"policy"}, policy : Policies, at : {"write", "tell", "over"}] /\ r.at = "over" /\ r.on = x /\ r.op = task[t].op
    BY <1>1
<1>4. doubled \subseteq doubled' /\ doubled' \subseteq Users \cup {"policy"}
    BY <1>1, OverlapAdds DEF AppendAudit
<1>5. OrgTypeOK' /\ failures' = failures /\ failures' \in Nat
    BY <1>1, <1>4 DEF AppendAudit, OrgTyped, OrgTypeOK, Upserted, Roles
<1>6. OrgTyped' /\ OrgMoves(t, r)
  <2> HIDE DEF r
  <2> QED BY <1>2, <1>3, <1>5, OrgStep
<1>7. \A u \in Tasks \ {t} : (TellsRole(u)' <=> TellsRole(u)) /\ (TellsPolicy(u)' <=> TellsPolicy(u)) /\ task'[u] = task[u]
    BY <1>6 DEF OrgMoves, TellsRole, TellsPolicy, At
<1>8. ~TellsRole(t)' /\ ~TellsPolicy(t)' /\ ~TellsRole(t)
    BY <1>1, <1>3, <1>6 DEF OrgMoves, TellsRole, TellsPolicy, At
<1>9. x \notin doubled' => \A u \in Tasks \ {t} : TellsPolicy(u) => task[u].on # x
    BY OnlyWriter DEF AppendAudit
<1>10. failures = 0 => \A w \in Users \ doubled' :
          /\ \A u \in Tasks : TellsRole(u)' /\ task'[u].on = w => role'[w] = task'[u].role
          /\ (\A u \in Tasks : TellsRole(u)' => task'[u].on # w) /\ role'[w] # NoRole => memberTold'[w] = role'[w]
  <2>1. UNCHANGED <<role, memberTold>> /\ \A u \in Tasks : TellsRole(u)' <=> TellsRole(u)
      BY <1>1, <1>3, <1>6, <1>7 DEF AppendAudit, OrgMoves, TellsRole
  <2>2. \A u \in Tasks : TellsRole(u) => task'[u] = task[u]  BY <1>1, <1>7 DEF TellsRole
  <2> QED BY <1>4, <2>1, <2>2 DEF TellInv
<1>11. failures = 0 /\ "policy" \notin doubled' =>
          /\ \A u \in Tasks : TellsPolicy(u)' => policy' = task'[u].policy
          /\ (\A u \in Tasks : ~TellsPolicy(u)') => audited' = policy'
  <2> SUFFICES ASSUME failures = 0, "policy" \notin doubled'
               PROVE  /\ \A u \in Tasks : TellsPolicy(u)' => policy' = task'[u].policy
                      /\ (\A u \in Tasks : ~TellsPolicy(u)') => audited' = policy'
      OBVIOUS
  <2>1. x = "policy" /\ \A u \in Tasks : TellsPolicy(u) => task[u].on = "policy"
    <3>1. \A u \in Tasks : TellsPolicy(u) => task[u] \in [op : {"retention"}, on : {"policy"}, policy : Policies, at : {"write", "tell", "over"}]
        BY OrgPlaces DEF TellsPolicy
    <3> QED BY <1>1, <3>1
  <2>2. \A u \in Tasks \ {t} : ~TellsPolicy(u)'  BY <1>7, <1>9, <2>1
  <2>3. policy' = policy /\ audited' = task[t].policy /\ policy = task[t].policy
      BY <1>1, <1>4 DEF AppendAudit, TellInv, TellsPolicy
  <2> QED BY <1>8, <2>2, <2>3
<1>12. TellInv'  BY <1>5, <1>10, <1>11 DEF TellInv
<1> QED BY <1>6, <1>12

LEMMA OrgFailKeeps == ASSUME OrgInv, NEW t \in Tasks, Fails(t), UNCHANGED orgVars PROVE OrgInv'
<1> USE DEF OrgInv
<1>1. task' = [task EXCEPT ![t] = Failed] /\ failures' = failures + 1  BY DEF Fails
<1>2. OrgTypeOK' /\ failures' \in Nat /\ failures' > 0  BY <1>1 DEF orgVars, OrgTyped, OrgTypeOK
<1>3. OrgTyped'  BY <1>1, <1>2, OrgStep
<1> QED BY <1>2, <1>3 DEF TellInv

LEMMA OrgInvInit == ASSUME TasksInit, OrgInit PROVE OrgInv
<1>1. OrgTypeOK  BY DEF OrgInit, OrgTypeOK
<1>2. task = [t \in Tasks |-> task[t]] /\ (\A t \in Tasks : task[t] = New) /\ failures = 0
    BY DEF TasksInit
<1>3. OrgTyped  BY <1>1, <1>2 DEF OrgTyped, OrgTask
<1>4. TellInv  BY <1>2 DEF TellInv, OrgInit, TellsRole, TellsPolicy, At, New
<1> QED BY <1>3, <1>4 DEF OrgInv

LEMMA OrgInvNext == ASSUME OrgInv, OrgNext PROVE OrgInv'
    BY CreateOrgKeeps, CheckRoleKeeps, AddMemberKeeps, MemberAddedKeeps, RemoveMemberKeeps, CheckAdminKeeps, UpsertRetentionKeeps,
       AppendAuditKeeps, OrgFailKeeps DEF OrgNext, OrgRequests

LEMMA OrgInvStays == ASSUME OrgInv, UNCHANGED <<taskVars, orgVars>> PROVE OrgInv'
    BY DEF taskVars, orgVars, OrgInv, OrgTyped, OrgTypeOK, OrgTask, TellInv, TellsRole, TellsPolicy, At

\* A call that has yet to tell is a writer of what it tells.
LEMMA OrgInvHolds == ASSUME OrgInv PROVE ToldWhatIsWritten
<1>1. \A t \in Tasks : TellsPolicy(t) => task[t].on = "policy"
  <2>1. \A t \in Tasks : TellsPolicy(t) => task[t] \in [op : {"retention"}, on : {"policy"}, policy : Policies, at : {"write", "tell", "over"}]
      BY OrgPlaces DEF TellsPolicy, OrgInv
  <2> QED BY <2>1
<1>2. \A t \in Tasks : TellsRole(t) \/ TellsPolicy(t) => t \in Busy(task[t].on)
    BY DEF TellsRole, TellsPolicy, At, Busy, Under
<1> QED BY <1>1, <1>2 DEF OrgInv, TellInv, ToldWhatIsWritten

----------------------------------------------------------------------------
(* One part at a time                                                      *)

directoryVars == <<taskVars, discVars, orgVars>>

DiscPart == DiscNext /\ UNCHANGED orgVars
OrgPart  == OrgNext /\ UNCHANGED discVars

DirectoryInit == TasksInit /\ DiscInit /\ OrgInit
DirectorySpec == DirectoryInit /\ ([][DiscPart]_directoryVars \/ [][OrgPart]_directoryVars)

DirectoryTypeOK == DiscTypeOK /\ OrgTypeOK

LEMMA DiscoveryAtRest == ASSUME DiscInit PROVE DiscTypeOK /\ EdgesFollowTheToken
<1>1. DiscTypeOK  BY DirectoryAssumption DEF DiscInit, DiscTypeOK, Versions
<1>2. EdgesFollowTheToken  BY DEF DiscInit, EdgesFollowTheToken, Versions
<1> QED BY <1>1, <1>2

LEMMA OrganizationAtRest == ASSUME OrgInit PROVE OrgTypeOK /\ ToldWhatIsWritten
    BY DEF OrgInit, OrgTypeOK, ToldWhatIsWritten

LEMMA DirectoryInParts ==
    DirectorySpec => [](/\ DiscInv \/ DiscInit
                        /\ OrgInv \/ OrgInit)
<1> DEFINE DiscRuns == DiscInv /\ OrgInit
           OrgRuns  == OrgInv /\ DiscInit
<1>1. DirectoryInit => DiscRuns /\ OrgRuns  BY DiscInvInit, OrgInvInit DEF DirectoryInit
<1>2. DiscRuns /\ [DiscPart]_directoryVars => DiscRuns'
  <2> SUFFICES ASSUME DiscRuns, [DiscPart]_directoryVars PROVE DiscRuns'  OBVIOUS
  <2>1. UNCHANGED orgVars /\ (DiscNext \/ UNCHANGED <<taskVars, discVars>>)
      BY DEF DiscPart, directoryVars
  <2>2. DiscInv'  BY <2>1, DiscInvNext, DiscInvStays
  <2> QED BY <2>1, <2>2 DEF OrgInit, orgVars
<1>3. OrgRuns /\ [OrgPart]_directoryVars => OrgRuns'
  <2> SUFFICES ASSUME OrgRuns, [OrgPart]_directoryVars PROVE OrgRuns'  OBVIOUS
  <2>1. UNCHANGED discVars /\ (OrgNext \/ UNCHANGED <<taskVars, orgVars>>)
      BY DEF OrgPart, directoryVars
  <2>2. OrgInv'  BY <2>1, OrgInvNext, OrgInvStays
  <2> QED BY <2>1, <2>2 DEF DiscInit, discVars
<1>4. DirectoryInit /\ [][DiscPart]_directoryVars => []DiscRuns  BY <1>1, <1>2, PTL
<1>5. DirectoryInit /\ [][OrgPart]_directoryVars => []OrgRuns  BY <1>1, <1>3, PTL
<1> QED BY <1>4, <1>5, PTL DEF DirectorySpec

\* Keys, tokens, edges, memberships and policies keep their types whatever calls meet.  About OprfService,
\* TenancyService and AdminService over their repositories.
THEOREM DirectoryTypeCorrect == DirectorySpec => []DirectoryTypeOK
<1>1. (DiscInv \/ DiscInit) /\ (OrgInv \/ OrgInit) => DirectoryTypeOK
    BY DiscoveryAtRest, OrganizationAtRest DEF DiscInv, DiscTyped, OrgInv, OrgTyped, DirectoryTypeOK
<1> QED BY <1>1, DirectoryInParts, PTL

\* For any owners, accounts, keys, users and calls: the edges of a token follow its registration, an owner whose
\* edge changed is notified, and the last member.added and the last audit entry tell what is written, each but
\* for the overlaps and failures that DirectoryHolds names.  About registerForDiscovery (auth.service.ts) and
\* upsertEdges (oprf.repository.ts), addMember (tenancy.service.ts) and setRetention (admin.service.ts).
THEOREM DirectoryTellsTheTruth == DirectorySpec => []DirectoryHolds
<1>1. (DiscInv \/ DiscInit) /\ (OrgInv \/ OrgInit) => DirectoryHolds
    BY DiscInvHolds, OrgInvHolds, DiscoveryAtRest, OrganizationAtRest DEF DirectoryHolds
<1> QED BY <1>1, DirectoryInParts, PTL

----------------------------------------------------------------------------
(* Passkeys                                                                *)

\* What a call may stand at.
PkTasks ==
    {New, Failed}
    \cup [op : {"options"}, kind : Kinds, at : {"over"}]
    \cup [op : {"reg"}, signed : Tasks, count : Nat \ {0}, at : {"read", "failed"}]
    \cup [op : {"reg"}, signed : Tasks, count : Nat \ {0}, taken : Tasks, at : {"delete", "verify", "write", "over", "failed"}]
    \cup [op : {"auth"}, signed : Tasks, count : Nat \ {0}, at : {"row", "failed"}]
    \cup [op : {"auth"}, signed : Tasks, count : Nat \ {0}, row : Nat \ {0}, at : {"read", "failed"}]
    \cup [op : {"auth"}, signed : Tasks, count : Nat \ {0}, row : Nat \ {0}, taken : Tasks,
          at : {"delete", "verify", "write", "over", "failed"}]

PkTyped == PkTypeOK /\ task \in [Tasks -> PkTasks] /\ failures \in Nat

\* A call that took its challenge: about to delete it, or past that.
Deleting(t) == At(t, "delete")
Passed(t)   == At(t, "verify") \/ At(t, "write") \/ Over(t, "reg") \/ Over(t, "auth")

\* A challenge that waits, or was taken, was handed out for its kind.
HandedInv ==
    /\ \A k \in Kinds : challenge[k] # NoChallenge => Over(challenge[k], "options") /\ task[challenge[k]].kind = k
    /\ \A t \in Tasks : Deleting(t) \/ Passed(t) =>
          /\ Over(task[t].taken, "options") /\ task[task[t].taken].kind = task[t].op

\* A challenge that one call deleted never comes back; who had taken it as well is on record.
TakenInv ==
    /\ \A t \in Tasks, k \in Kinds : Passed(t) => challenge[k] # task[t].taken
    /\ \A t, u \in Tasks : t # u /\ Passed(t) /\ Deleting(u) /\ task[u].taken = task[t].taken => u \in overlap
    /\ \A t, u \in Tasks : t # u /\ Passed(t) /\ Passed(u) /\ task[u].taken = task[t].taken => {t, u} \cap overlap # {}

\* What was verified was signed for the challenge that was taken.
VerifiedInv == \A t \in Tasks : At(t, "write") \/ Over(t, "auth") => task[t].taken = task[t].signed

\* A login that read the row before no other wrote its count knows what is stored, and writes more.
CounterInv ==
    /\ \A t \in Tasks \ stale : Under(t, "auth") /\ ~At(t, "row") => stored = task[t].row
    /\ \A t \in Tasks : At(t, "write") /\ task[t].op = "auth" => task[t].count > task[t].row
    /\ fellBack \subseteq stale

PkInv == PkTyped /\ HandedInv /\ TakenInv /\ VerifiedInv /\ CounterInv

\* What is known of a call by where it stands.
LEMMA PkPlaces ==
    ASSUME PkTyped, NEW t \in Tasks
    PROVE  /\ At(t, "new") <=> task[t] = New
           /\ At(t, "row") => task[t] \in [op : {"auth"}, signed : Tasks, count : Nat \ {0}, at : {"row", "failed"}]
           /\ At(t, "read") =>
                \/ task[t] \in [op : {"reg"}, signed : Tasks, count : Nat \ {0}, at : {"read", "failed"}]
                \/ task[t] \in [op : {"auth"}, signed : Tasks, count : Nat \ {0}, row : Nat \ {0}, at : {"read", "failed"}]
           /\ At(t, "delete") \/ At(t, "verify") \/ At(t, "write") \/ Over(t, "reg") \/ Over(t, "auth") =>
                \/ task[t] \in [op : {"reg"}, signed : Tasks, count : Nat \ {0}, taken : Tasks,
                                at : {"delete", "verify", "write", "over", "failed"}]
                \/ task[t] \in [op : {"auth"}, signed : Tasks, count : Nat \ {0}, row : Nat \ {0}, taken : Tasks,
                                at : {"delete", "verify", "write", "over", "failed"}]
           /\ Under(t, "auth") <=>
                \/ At(t, "row")
                \/ task[t].op = "auth" /\ (At(t, "read") \/ At(t, "delete") \/ At(t, "verify") \/ At(t, "write"))
           /\ Over(t, "options") => task[t].kind \in Kinds
<1>1. task[t] \in PkTasks  BY DEF PkTyped
<1> QED BY <1>1 DEF PkTasks, New, Failed, At, Under, Over

\* A step moves one call.
PkMoves(t, r) == task'[t] = r /\ \A u \in Tasks \ {t} : task'[u] = task[u]

LEMMA PkStep ==
    ASSUME PkTyped, NEW t \in Tasks, NEW r \in PkTasks, task' = [task EXCEPT ![t] = r], PkTypeOK', failures' \in Nat
    PROVE  PkTyped' /\ PkMoves(t, r)
    BY DEF PkTyped, PkMoves

\* A call that has not taken a challenge, or never will use it, changes nothing for the others.
LEMMA PkQuiet ==
    ASSUME PkInv, NEW t \in Tasks, NEW r \in PkTasks, task' = [task EXCEPT ![t] = r], PkTypeOK', failures' \in Nat,
           ~At(t, "over"), UNCHANGED <<challenge, stored, fellBack, stale, overlap>>,
           r.at \notin {"delete", "verify", "write"}, r.at = "over" => r.op = "options",
           r.at = "read" /\ r.op = "auth" => r.row = stored,
           r.at \in {"read", "row", "over", "failed"}
    PROVE  PkInv'
<1>1. PkTyped /\ PkTyped' /\ PkMoves(t, r)  BY PkStep DEF PkInv
<1>2. \A c \in Tasks : Over(c, "options") => Over(c, "options")' /\ task'[c] = task[c]
    BY <1>1 DEF PkMoves, Over, At
<1>3. \A u \in Tasks : /\ Deleting(u)' <=> u # t /\ Deleting(u)
                       /\ Passed(u)' <=> u # t /\ Passed(u)
    BY <1>1 DEF PkMoves, Deleting, Passed, At, Over
<1>4. \A u \in Tasks : Deleting(u) \/ Passed(u) => task[u].taken \in Tasks
    BY <1>1, PkPlaces DEF Deleting, Passed
<1>5. \A k \in Kinds : challenge[k] \in Tasks \cup {NoChallenge}  BY <1>1 DEF PkTyped, PkTypeOK
<1>6. HandedInv'  BY <1>1, <1>2, <1>3, <1>4, <1>5 DEF PkInv, HandedInv, PkMoves
<1>7. TakenInv'  BY <1>1, <1>3 DEF PkInv, TakenInv, PkMoves
<1>8. VerifiedInv'  BY <1>1 DEF PkInv, VerifiedInv, PkMoves, At, Over
<1>9. CounterInv'  BY <1>1 DEF PkInv, CounterInv, PkMoves, At, Under
<1> QED BY <1>1, <1>6, <1>7, <1>8, <1>9 DEF PkInv

\* A new challenge is nobody's yet.
LEMMA OptionsKeeps == ASSUME PkInv, NEW t \in Tasks, Options(t) PROVE PkInv'
<1>1. PICK k \in Kinds : /\ challenge' = [challenge EXCEPT ![k] = t]
                         /\ Begins(t, [op |-> "options", kind |-> k, at |-> "over"])
    BY DEF Options
<1> DEFINE r == [op |-> "options", kind |-> k, at |-> "over"]
<1>2. r \in PkTasks /\ r.at = "over" /\ r.op = "options" /\ r.kind = k  BY DEF PkTasks
<1>3. task' = [task EXCEPT ![t] = r] /\ task[t] = New /\ UNCHANGED <<failures, stored, key, fellBack, stale, overlap>>
    BY <1>1 DEF Begins, Options
<1> HIDE DEF r
<1>4. PkTyped /\ challenge \in [Kinds -> Tasks \cup {NoChallenge}] /\ challenge' \in [Kinds -> Tasks \cup {NoChallenge}]
    BY <1>1 DEF PkInv, PkTyped, PkTypeOK
<1>5. PkTyped' /\ PkMoves(t, r)  BY <1>2, <1>3, <1>4, PkStep DEF PkTyped, PkTypeOK
<1>6. \A c \in Tasks : Over(c, "options") => c # t /\ Over(c, "options")' /\ task'[c] = task[c]
    BY <1>3, <1>5 DEF PkMoves, Over, At, New
<1>7. \A u \in Tasks : /\ Deleting(u)' <=> u # t /\ Deleting(u)
                       /\ Passed(u)' <=> u # t /\ Passed(u)
                       /\ Deleting(u) \/ Passed(u) => u # t
    BY <1>2, <1>3, <1>5 DEF PkMoves, Deleting, Passed, At, Over, New
<1>8. \A u \in Tasks : Deleting(u) \/ Passed(u) => task[u].taken \in Tasks
    BY <1>4, PkPlaces DEF Deleting, Passed
<1>9. HandedInv'
  <2>1. Over(t, "options")' /\ task'[t].kind = k  BY <1>2, <1>5 DEF PkMoves, Over, At
  <2>2. \A l \in Kinds : challenge'[l] = IF l = k THEN t ELSE challenge[l]  BY <1>1, <1>4
  <2> QED BY <1>4, <1>5, <1>6, <1>7, <1>8, <2>1, <2>2 DEF PkInv, HandedInv, PkMoves
<1>10. TakenInv'
  <2>1. \A u \in Tasks : Passed(u) => task[u].taken # t  BY <1>6, <1>8 DEF PkInv, HandedInv
  <2>2. \A l \in Kinds : challenge'[l] = IF l = k THEN t ELSE challenge[l]  BY <1>1, <1>4
  <2> QED BY <1>3, <1>5, <1>7, <2>1, <2>2 DEF PkInv, TakenInv, PkMoves
<1>11. VerifiedInv'  BY <1>2, <1>5 DEF PkInv, VerifiedInv, PkMoves, At, Over
<1>12. CounterInv'  BY <1>2, <1>3, <1>5 DEF PkInv, CounterInv, PkMoves, At, Under
<1> QED BY <1>5, <1>9, <1>10, <1>11, <1>12 DEF PkInv

LEMMA SignKeeps == ASSUME PkInv, NEW t \in Tasks, Sign(t) PROVE PkInv'
<1>0. PkTyped  BY DEF PkInv
<1>1. PICK c \in Tasks :
          /\ Over(c, "options")
          /\ Begins(t, [op |-> task[c].kind, signed |-> c, count |-> key + 1,
                        at |-> IF task[c].kind = "auth" THEN "row" ELSE "read"])
    BY DEF Sign
<1> DEFINE r == [op |-> task[c].kind, signed |-> c, count |-> key + 1,
                 at |-> IF task[c].kind = "auth" THEN "row" ELSE "read"]
<1>2. task[c].kind \in {"reg", "auth"} /\ key + 1 \in Nat \ {0}
    BY <1>0, <1>1, PkPlaces DEF Kinds, PkTyped, PkTypeOK
<1>3. r \in PkTasks /\ r.at \in {"read", "row"} /\ ~(r.at = "read" /\ r.op = "auth")
    BY <1>2 DEF PkTasks
<1>4. task' = [task EXCEPT ![t] = r] /\ ~At(t, "over")  BY <1>1 DEF Begins, At, New
<1> HIDE DEF r
<1>5. UNCHANGED <<failures, challenge, stored, fellBack, stale, overlap>> /\ key' = key + 1
    BY DEF Sign
<1>6. PkTypeOK' /\ failures' \in Nat  BY <1>0, <1>2, <1>5 DEF PkTyped, PkTypeOK
<1> QED BY <1>3, <1>4, <1>5, <1>6, PkQuiet

\* A call that gives up, with an answer or without one.
LEMMA PkGivesUp ==
    ASSUME PkInv, NEW t \in Tasks, At(t, "row") \/ At(t, "read") \/ At(t, "delete") \/ At(t, "verify") \/ At(t, "write"),
           Goes(t, "failed"), UNCHANGED <<failures, pkVars>>
    PROVE  PkInv'
<1>0. PkTyped  BY DEF PkInv
<1> DEFINE r == [task[t] EXCEPT !.at = "failed"]
<1>1. r \in PkTasks /\ r.at = "failed"
  <2>1. At(t, "row") => r \in PkTasks /\ r.at = "failed"  BY <1>0, PkPlaces DEF PkTasks
  <2>2. At(t, "read") => r \in PkTasks /\ r.at = "failed"  BY <1>0, PkPlaces DEF PkTasks
  <2>3. At(t, "delete") \/ At(t, "verify") \/ At(t, "write") => r \in PkTasks /\ r.at = "failed"
      BY <1>0, PkPlaces DEF PkTasks
  <2> QED BY <2>1, <2>2, <2>3
<1>2. task' = [task EXCEPT ![t] = r] /\ ~At(t, "over")  BY DEF Goes, At
<1> HIDE DEF r
<1>3. PkTypeOK' /\ failures' \in Nat  BY <1>0 DEF PkTyped, PkTypeOK, pkVars
<1> QED BY <1>1, <1>2, <1>3, PkQuiet DEF pkVars

LEMMA PkFailKeeps == ASSUME PkInv, NEW t \in Tasks, Fails(t), UNCHANGED pkVars PROVE PkInv'
<1>1. task' = [task EXCEPT ![t] = Failed] /\ ~At(t, "over") /\ Failed \in PkTasks /\ Failed.at = "failed"
    BY DEF Fails, At, PkTasks, Failed
<1>2. PkTypeOK' /\ failures' \in Nat  BY DEF PkInv, PkTyped, PkTypeOK, pkVars, Fails
<1> QED BY <1>1, <1>2, PkQuiet DEF pkVars

\* What is read is what is stored.
LEMMA GetPasskeyKeeps == ASSUME PkInv, NEW t \in Tasks, GetPasskey(t) PROVE PkInv'
<1>0. PkTyped /\ stored \in Nat  BY DEF PkInv, PkTyped, PkTypeOK
<1>1. CASE stored = 0  BY <1>1, PkGivesUp DEF GetPasskey
<1>2. CASE stored # 0
  <2> DEFINE r == With(task[t], "row", stored, "read")
  <2>1. r \in PkTasks /\ r.at = "read" /\ r.row = stored
      BY <1>0, <1>2, PkPlaces DEF GetPasskey, With, PkTasks
  <2>2. task' = [task EXCEPT ![t] = r] /\ ~At(t, "over")  BY <1>2 DEF GetPasskey, GoesWith, At
  <2> HIDE DEF r
  <2>3. PkTypeOK' /\ failures' \in Nat /\ UNCHANGED pkVars
      BY <1>0 DEF PkTyped, PkTypeOK, pkVars, GetPasskey
  <2> QED BY <2>1, <2>2, <2>3, PkQuiet DEF pkVars
<1> QED BY <1>1, <1>2

----------------------------------------------------------------------------
(* Passkeys: the steps                                                     *)

\* What is taken is outstanding, so nobody has passed with it.
LEMMA ReadChallengeKeeps == ASSUME PkInv, NEW t \in Tasks, ReadChallenge(t) PROVE PkInv'
<1>0. PkTyped /\ challenge \in [Kinds -> Tasks \cup {NoChallenge}] /\ UNCHANGED <<failures, pkVars>> /\ At(t, "read")
    BY DEF PkInv, PkTyped, PkTypeOK, ReadChallenge
<1>1. CASE challenge[task[t].op] = NoChallenge  BY <1>1, PkGivesUp DEF ReadChallenge
<1>2. CASE challenge[task[t].op] # NoChallenge
  <2>1. PICK k \in Kinds : k = task[t].op  BY <1>0, PkPlaces DEF Kinds
  <2>2. PICK c \in Tasks : c = challenge[k]  BY <1>0, <1>2, <2>1
  <2> DEFINE r == With(task[t], "taken", c, "delete")
  <2>3. /\ r \in PkTasks /\ r.at = "delete" /\ r.taken = c /\ r.op = k
        /\ k = "auth" => r.row = task[t].row
      BY <1>0, <2>1, PkPlaces DEF With, PkTasks
  <2>4. task' = [task EXCEPT ![t] = r]  BY <1>2, <2>1, <2>2 DEF ReadChallenge, GoesWith
  <2> HIDE DEF r
  <2>5. PkTyped' /\ PkMoves(t, r)  BY <1>0, <2>3, <2>4, PkStep DEF PkTyped, PkTypeOK, pkVars
  <2>6. \A u \in Tasks : Over(u, "options") => Over(u, "options")' /\ task'[u] = task[u]
      BY <1>0, <2>5 DEF PkMoves, Over, At
  <2>7. \A u \in Tasks : /\ Deleting(u)' <=> u = t \/ Deleting(u)
                         /\ Passed(u)' <=> Passed(u)
                         /\ Deleting(u) \/ Passed(u) => u # t
      BY <1>0, <2>3, <2>5 DEF PkMoves, Deleting, Passed, At, Over
  <2>8. \A u \in Tasks : Deleting(u) \/ Passed(u) => task[u].taken \in Tasks
      BY <1>0, PkPlaces DEF Deleting, Passed
  <2>9. HandedInv'
    <3>1. Over(c, "options") /\ task[c].kind = k  BY <2>2, <1>2, <2>1 DEF PkInv, HandedInv
    <3>2. \A l \in Kinds : challenge'[l] # NoChallenge => task'[challenge'[l]].at = "over" /\ task'[challenge'[l]].op = "options" /\ task'[challenge'[l]].kind = l
        BY <1>0, <2>6 DEF PkInv, HandedInv, pkVars, Over
    <3>3. \A u \in Tasks \ {t} : Deleting(u)' \/ Passed(u)' =>
             task'[task'[u].taken].at = "over" /\ task'[task'[u].taken].op = "options" /\ task'[task'[u].taken].kind = task'[u].op
        BY <2>5, <2>6, <2>7, <2>8 DEF PkInv, HandedInv, PkMoves, Over
    <3>4. task'[task'[t].taken].at = "over" /\ task'[task'[t].taken].op = "options" /\ task'[task'[t].taken].kind = task'[t].op
        BY <2>3, <2>5, <2>6, <3>1 DEF PkMoves, Over
    <3> QED BY <3>2, <3>3, <3>4 DEF HandedInv, Over
  <2>10. TakenInv'  BY <1>0, <2>1, <2>2, <2>3, <2>5, <2>7 DEF PkInv, TakenInv, PkMoves, pkVars
  <2>11. VerifiedInv'  BY <2>3, <2>5 DEF PkInv, VerifiedInv, PkMoves, At, Over
  <2>12. CounterInv'
    <3>1. \A u \in Tasks : Under(u, "auth")' /\ ~At(u, "row")' => Under(u, "auth") /\ ~At(u, "row") /\ task'[u].row = task[u].row
        BY <1>0, <2>1, <2>3, <2>5, PkPlaces DEF PkMoves, At, Under
    <3> QED BY <1>0, <2>3, <2>5, <3>1 DEF PkInv, CounterInv, PkMoves, At, pkVars
  <2> QED BY <2>5, <2>9, <2>10, <2>11, <2>12 DEF PkInv
<1> QED BY <1>1, <1>2

\* The challenge goes; whoever took it as well and is yet to delete it is on record.
LEMMA DeleteChallengeKeeps == ASSUME PkInv, NEW t \in Tasks, DeleteChallenge(t) PROVE PkInv'
<1>0. /\ PkTyped /\ challenge \in [Kinds -> Tasks \cup {NoChallenge}] /\ overlap \subseteq Tasks /\ At(t, "delete")
      /\ UNCHANGED <<failures, stored, key, fellBack, stale>>
    BY DEF PkInv, PkTyped, PkTypeOK, DeleteChallenge
<1>1. task[t].op \in Kinds /\ task[t].taken \in Tasks  BY <1>0, PkPlaces DEF Kinds
<1>2. PICK k \in Kinds, c \in Tasks : k = task[t].op /\ c = task[t].taken  BY <1>1
<1> DEFINE r == [task[t] EXCEPT !.at = "verify"]
<1>3. /\ r \in PkTasks /\ r.at = "verify" /\ r.op = k /\ r.taken = c
      /\ k = "auth" => r.row = task[t].row
    BY <1>0, <1>2, PkPlaces DEF PkTasks
<1>4. task' = [task EXCEPT ![t] = r] /\ challenge' = [challenge EXCEPT ![k] = NoChallenge]
      /\ overlap' = overlap \cup {u \in Tasks \ {t} : Deleting(u) /\ task[u].taken = c}
    BY <1>2 DEF DeleteChallenge, Goes, Without, Deleting
<1> HIDE DEF r
<1>5. PkTypeOK'  BY <1>0, <1>4 DEF PkTyped, PkTypeOK
<1>6. PkTyped' /\ PkMoves(t, r)  BY <1>0, <1>3, <1>4, <1>5, PkStep DEF PkTyped
<1>7. \A u \in Tasks : Over(u, "options") => Over(u, "options")' /\ task'[u] = task[u]
    BY <1>0, <1>6 DEF PkMoves, Over, At
<1>8. /\ \A u \in Tasks \ {t} : (Deleting(u)' <=> Deleting(u)) /\ (Passed(u)' <=> Passed(u))
      /\ Deleting(t) /\ ~Deleting(t)' /\ Passed(t)' /\ ~Passed(t)
    BY <1>0, <1>3, <1>6 DEF PkMoves, Deleting, Passed, At, Over
<1>9. \A u \in Tasks : Deleting(u) \/ Passed(u) => task[u].taken \in Tasks
    BY <1>0, PkPlaces DEF Deleting, Passed
<1>10. \A l \in Kinds : challenge'[l] = IF l = k THEN NoChallenge ELSE challenge[l]  BY <1>0, <1>4
<1>11. HandedInv'
  <2>1. \A l \in Kinds : challenge'[l] # NoChallenge => task'[challenge'[l]].at = "over" /\ task'[challenge'[l]].op = "options" /\ task'[challenge'[l]].kind = l
      BY <1>0, <1>7, <1>10 DEF PkInv, HandedInv, Over
  <2>2. \A u \in Tasks \ {t} : Deleting(u)' \/ Passed(u)' =>
             task'[task'[u].taken].at = "over" /\ task'[task'[u].taken].op = "options" /\ task'[task'[u].taken].kind = task'[u].op
      BY <1>6, <1>7, <1>8, <1>9 DEF PkInv, HandedInv, PkMoves, Over
  <2>3. task'[task'[t].taken].at = "over" /\ task'[task'[t].taken].op = "options" /\ task'[task'[t].taken].kind = task'[t].op
      BY <1>2, <1>3, <1>6, <1>7, <1>8 DEF PkInv, HandedInv, PkMoves, Over
  <2> QED BY <2>1, <2>2, <2>3 DEF HandedInv, Over
<1>12. TakenInv'
  <2>1. \A u \in Tasks, l \in Kinds : Passed(u)' => challenge'[l] # task'[u].taken
    <3>1. \A l \in Kinds : challenge'[l] # c
      <4>1. \A l \in Kinds : challenge[l] = c => l = k
          BY <1>2, <1>8, PasskeysAssumption DEF PkInv, HandedInv
      <4> QED BY <1>10, <4>1, PasskeysAssumption
    <3>2. \A u \in Tasks \ {t}, l \in Kinds : Passed(u) => challenge'[l] # task[u].taken
        BY <1>9, <1>10, PasskeysAssumption DEF PkInv, TakenInv
    <3> QED BY <1>3, <1>6, <1>8, <3>1, <3>2 DEF PkMoves
  <2>2. \A u \in Tasks \ {t} : Deleting(u) /\ task[u].taken = c => u \in overlap'  BY <1>4
  <2>3. \A u \in Tasks \ {t} : Passed(u) /\ task[u].taken = c => t \in overlap'
      BY <1>2, <1>4, <1>8 DEF PkInv, TakenInv
  <2>4. overlap \subseteq overlap'  BY <1>4
  <2>5. \A u, v \in Tasks : u # v /\ Passed(u)' /\ Deleting(v)' /\ task'[v].taken = task'[u].taken => v \in overlap'
      BY <1>3, <1>6, <1>8, <2>2, <2>4 DEF PkInv, TakenInv, PkMoves
  <2>6. \A u, v \in Tasks : u # v /\ Passed(u)' /\ Passed(v)' /\ task'[v].taken = task'[u].taken => {u, v} \cap overlap' # {}
      BY <1>3, <1>6, <1>8, <2>3, <2>4 DEF PkInv, TakenInv, PkMoves
  <2> QED BY <2>1, <2>5, <2>6 DEF TakenInv
<1>13. VerifiedInv'  BY <1>3, <1>6 DEF PkInv, VerifiedInv, PkMoves, At, Over
<1>14. CounterInv'
  <2>1. \A u \in Tasks : Under(u, "auth")' /\ ~At(u, "row")' => Under(u, "auth") /\ ~At(u, "row") /\ task'[u].row = task[u].row
      BY <1>0, <1>2, <1>3, <1>6, PkPlaces DEF PkMoves, At, Under
  <2> QED BY <1>0, <1>3, <1>6, <2>1 DEF PkInv, CounterInv, PkMoves, At
<1> QED BY <1>6, <1>11, <1>12, <1>13, <1>14 DEF PkInv

\* A call that passed goes on.
LEMMA PkGoesOn ==
    ASSUME PkInv, NEW t \in Tasks, NEW r \in PkTasks, At(t, "verify") \/ At(t, "write"), task' = [task EXCEPT ![t] = r],
           PkTypeOK', failures' \in Nat, UNCHANGED <<challenge, overlap>>,
           r.at \in {"write", "over"}, r.op = task[t].op, r.taken = task[t].taken, r.taken = r.signed
    PROVE  /\ PkTyped' /\ PkMoves(t, r) /\ HandedInv' /\ TakenInv' /\ VerifiedInv'
<1>1. PkTyped /\ PkTyped' /\ PkMoves(t, r)  BY PkStep DEF PkInv
<1>2. \A u \in Tasks : Over(u, "options") => Over(u, "options")' /\ task'[u] = task[u]
    BY <1>1 DEF PkMoves, Over, At
<1>3. r.op \in {"reg", "auth"}  BY <1>1, PkPlaces
<1>4. \A u \in Tasks : /\ Deleting(u)' <=> Deleting(u)
                       /\ Passed(u)' <=> Passed(u)
                       /\ Deleting(u) \/ Passed(u) => task'[u].taken = task[u].taken /\ task'[u].op = task[u].op
    BY <1>1, <1>3 DEF PkMoves, Deleting, Passed, At, Over
<1>5. \A u \in Tasks : Deleting(u) \/ Passed(u) => task[u].taken \in Tasks
    BY <1>1, PkPlaces DEF Deleting, Passed
<1>6. \A k \in Kinds : challenge[k] \in Tasks \cup {NoChallenge}  BY <1>1 DEF PkTyped, PkTypeOK
<1>7. HandedInv'  BY <1>2, <1>4, <1>5, <1>6 DEF PkInv, HandedInv
<1>8. TakenInv'  BY <1>4 DEF PkInv, TakenInv
<1>9. VerifiedInv'  BY <1>1 DEF PkInv, VerifiedInv, PkMoves, At, Over
<1> QED BY <1>1, <1>7, <1>8, <1>9

\* Only a signature over the challenge that was taken, above the count that was read, goes on.
LEMMA VerifyKeeps == ASSUME PkInv, NEW t \in Tasks, Verify(t) PROVE PkInv'
<1>0. PkTyped /\ At(t, "verify") /\ UNCHANGED <<failures, pkVars>>  BY DEF PkInv, Verify
<1> DEFINE Fits == task[t].taken = task[t].signed /\ (task[t].op = "auth" => task[t].count > task[t].row)
           r == [task[t] EXCEPT !.at = "write"]
<1>1. CASE ~Fits  BY <1>0, <1>1, PkGivesUp DEF Verify
<1>2. CASE Fits
  <2>1. /\ r \in PkTasks /\ r.at = "write" /\ r.op = task[t].op /\ r.taken = task[t].taken /\ r.taken = r.signed
        /\ task[t].op = "auth" => r.row = task[t].row /\ r.count > r.row
      BY <1>0, <1>2, PkPlaces DEF PkTasks
  <2>2. task' = [task EXCEPT ![t] = r]  BY <1>2 DEF Verify, Goes
  <2> HIDE DEF r
  <2>3. PkTypeOK' /\ failures' \in Nat  BY <1>0 DEF PkTyped, PkTypeOK, pkVars
  <2>4. PkTyped' /\ PkMoves(t, r) /\ HandedInv' /\ TakenInv' /\ VerifiedInv'
      BY <1>0, <2>1, <2>2, <2>3, PkGoesOn DEF pkVars
  <2>5. CounterInv'
    <3>1. \A u \in Tasks : Under(u, "auth")' /\ ~At(u, "row")' => Under(u, "auth") /\ ~At(u, "row") /\ task'[u].row = task[u].row
        BY <1>0, <2>1, <2>4, PkPlaces DEF PkMoves, At, Under
    <3> QED BY <1>0, <2>1, <2>4, <3>1 DEF PkInv, CounterInv, PkMoves, At, pkVars
  <2> QED BY <2>4, <2>5 DEF PkInv
<1> QED BY <1>1, <1>2

\* A row is made only where there is none, and then no login has read one.
LEMMA InsertPasskeyKeeps == ASSUME PkInv, NEW t \in Tasks, InsertPasskey(t) PROVE PkInv'
<1>0. PkTyped /\ At(t, "write") /\ task[t].op = "reg" /\ UNCHANGED <<failures, challenge, key, fellBack, stale, overlap>>
    BY DEF PkInv, InsertPasskey
<1> DEFINE r == [task[t] EXCEPT !.at = "over"]
<1>1. CASE stored # 0  BY <1>0, <1>1, PkGivesUp DEF InsertPasskey, pkVars
<1>2. CASE stored = 0
  <2>1. /\ r \in PkTasks /\ r.at = "over" /\ r.op = task[t].op /\ r.taken = task[t].taken /\ r.taken = r.signed
      BY <1>0, PkPlaces DEF PkTasks, PkInv, VerifiedInv
  <2>2. task' = [task EXCEPT ![t] = r] /\ stored' = task[t].count  BY <1>2 DEF InsertPasskey, Goes
  <2>3. task[t].count \in Nat  BY <1>0, PkPlaces
  <2> HIDE DEF r
  <2>4. PkTypeOK' /\ failures' \in Nat  BY <1>0, <2>2, <2>3 DEF PkTyped, PkTypeOK
  <2>5. PkTyped' /\ PkMoves(t, r) /\ HandedInv' /\ TakenInv' /\ VerifiedInv'
      BY <1>0, <2>1, <2>2, <2>4, PkGoesOn
  <2>6. CounterInv'
    <3>1. \A u \in Tasks : Under(u, "auth") /\ ~At(u, "row") => task[u].row # 0
      <4> SUFFICES ASSUME NEW u \in Tasks, Under(u, "auth"), ~At(u, "row") PROVE task[u].row # 0
          OBVIOUS
      <4>1. task[u].op = "auth" /\ (At(u, "read") \/ At(u, "delete") \/ At(u, "verify") \/ At(u, "write"))
          BY <1>0, PkPlaces
      <4> QED BY <1>0, <4>1, PkPlaces
    <3>2. \A u \in Tasks \ stale : ~(Under(u, "auth") /\ ~At(u, "row"))
        BY <1>2, <3>1 DEF PkInv, CounterInv
    <3>3. \A u \in Tasks : Under(u, "auth")' /\ ~At(u, "row")' => Under(u, "auth") /\ ~At(u, "row")
        BY <1>0, <2>1, <2>5 DEF PkMoves, At, Under
    <3>4. \A u \in Tasks : At(u, "write")' /\ task'[u].op = "auth" => u # t
        BY <1>0, <2>1, <2>5 DEF PkMoves
    <3> QED BY <1>0, <2>5, <3>2, <3>3, <3>4 DEF PkInv, CounterInv, PkMoves, At
  <2> QED BY <2>5, <2>6 DEF PkInv
<1> QED BY <1>1, <1>2

\* Every other login that has read the row becomes stale, and one that is not writes more than is stored.
LEMMA UpdateCounterKeeps == ASSUME PkInv, NEW t \in Tasks, UpdateCounter(t) PROVE PkInv'
<1>0. /\ PkTyped /\ At(t, "write") /\ task[t].op = "auth" /\ UNCHANGED <<failures, challenge, key, overlap>>
      /\ stored \in Nat /\ fellBack \subseteq Tasks /\ stale \subseteq Tasks
    BY DEF PkInv, PkTyped, PkTypeOK, UpdateCounter
<1> DEFINE r == [task[t] EXCEPT !.at = "over"]
<1>1. /\ r \in PkTasks /\ r.at = "over" /\ r.op = task[t].op /\ r.taken = task[t].taken /\ r.taken = r.signed
      /\ task[t].count \in Nat /\ task[t].row \in Nat
    BY <1>0, PkPlaces DEF PkTasks, PkInv, VerifiedInv
<1>2. /\ task' = [task EXCEPT ![t] = r] /\ stored' = task[t].count
      /\ fellBack' = IF stored > task[t].count THEN fellBack \cup {t} ELSE fellBack
      /\ stale' = stale \cup {u \in Tasks \ {t} : Under(u, "auth") /\ ~At(u, "row")}
    BY DEF UpdateCounter, Goes
<1> HIDE DEF r
<1>3. PkTypeOK' /\ failures' \in Nat  BY <1>0, <1>1, <1>2 DEF PkTyped, PkTypeOK
<1>4. PkTyped' /\ PkMoves(t, r) /\ HandedInv' /\ TakenInv' /\ VerifiedInv'
    BY <1>0, <1>1, <1>2, <1>3, PkGoesOn
<1>5. CounterInv'
  <2>1. fellBack' \subseteq stale'
    <3>1. t \in stale \/ stored <= task[t].count
      <4>1. Under(t, "auth") /\ ~At(t, "row")  BY <1>0 DEF Under, At
      <4>2. task[t].count > task[t].row  BY <1>0 DEF PkInv, CounterInv
      <4>3. t \notin stale => stored = task[t].row  BY <4>1 DEF PkInv, CounterInv
      <4> QED BY <1>0, <1>1, <4>2, <4>3
    <3>2. fellBack \subseteq stale  BY DEF PkInv, CounterInv
    <3>3. stored > task[t].count => t \in stale  BY <1>0, <1>1, <3>1
    <3> QED BY <1>2, <3>2, <3>3
  <2>2. \A u \in Tasks : Under(u, "auth")' /\ ~At(u, "row")' => u # t /\ Under(u, "auth") /\ ~At(u, "row")
      BY <1>0, <1>1, <1>4 DEF PkMoves, At, Under
  <2>3. \A u \in Tasks : At(u, "write")' => u # t  BY <1>1, <1>4 DEF PkMoves, At
  <2> QED BY <1>2, <1>4, <2>1, <2>2, <2>3 DEF PkInv, CounterInv, PkMoves, At
<1> QED BY <1>4, <1>5 DEF PkInv

LEMMA ChallengeExpiresKeeps == ASSUME PkInv, ChallengeExpires PROVE PkInv'
<1>1. PICK k \in Kinds : challenge' = [challenge EXCEPT ![k] = NoChallenge]  BY DEF ChallengeExpires
<1>2. challenge \in [Kinds -> Tasks \cup {NoChallenge}] /\ PkTyped /\ UNCHANGED <<taskVars, stored, key, fellBack, stale, overlap>>
    BY DEF PkInv, PkTyped, PkTypeOK, ChallengeExpires
<1>3. \A l \in Kinds : challenge'[l] = IF l = k THEN NoChallenge ELSE challenge[l]  BY <1>1, <1>2
<1>4. PkTyped'  BY <1>1, <1>2 DEF PkTyped, PkTypeOK, taskVars
<1>5. HandedInv'  BY <1>2, <1>3 DEF PkInv, HandedInv, Deleting, Passed, Over, At, taskVars
<1>6. TakenInv'
  <2>1. \A u \in Tasks : Passed(u) => task[u].taken \in Tasks  BY <1>2, PkPlaces DEF Passed
  <2>2. \A u \in Tasks, l \in Kinds : Passed(u) => challenge'[l] # task[u].taken
      BY <1>3, <2>1, PasskeysAssumption DEF PkInv, TakenInv
  <2>3. task' = task /\ overlap' = overlap  BY <1>2 DEF taskVars
  <2>4. \A u \in Tasks : (Passed(u)' <=> Passed(u)) /\ (Deleting(u)' <=> Deleting(u))
      BY <2>3 DEF Passed, Deleting, Over, At
  <2> QED BY <2>2, <2>3, <2>4 DEF PkInv, TakenInv
<1>7. VerifiedInv' /\ CounterInv'
    BY <1>2 DEF PkInv, VerifiedInv, CounterInv, At, Over, Under, taskVars
<1> QED BY <1>4, <1>5, <1>6, <1>7 DEF PkInv

LEMMA PkInvInit == ASSUME TasksInit, PkInit PROVE PkInv
<1>1. task \in [Tasks -> PkTasks] /\ (\A t \in Tasks : task[t] = New) /\ failures \in Nat
    BY DEF TasksInit, PkTasks
<1>2. PkTypeOK /\ fellBack = {} /\ \A k \in Kinds : challenge[k] = NoChallenge
    BY DEF PkInit, PkTypeOK
<1>3. \A t \in Tasks : \A p : p # "new" => ~At(t, p)  BY <1>1 DEF At, New
<1>4. \A t \in Tasks : \A op : ~Over(t, op) /\ ~Under(t, op)  BY <1>1 DEF Over, Under, New
<1> QED BY <1>1, <1>2, <1>3, <1>4 DEF PkInv, PkTyped, HandedInv, TakenInv, VerifiedInv, CounterInv, Deleting, Passed

LEMMA PkInvNext == ASSUME PkInv, PkNext PROVE PkInv'
    BY ChallengeExpiresKeeps, OptionsKeeps, SignKeeps, GetPasskeyKeeps, ReadChallengeKeeps, DeleteChallengeKeeps, VerifyKeeps,
       InsertPasskeyKeeps, UpdateCounterKeeps, PkFailKeeps DEF PkNext, PkRequests

LEMMA PkInvStays == ASSUME PkInv, UNCHANGED <<taskVars, pkVars>> PROVE PkInv'
    BY DEF taskVars, pkVars, PkInv, PkTyped, PkTypeOK, HandedInv, TakenInv, VerifiedInv, CounterInv, Deleting, Passed, At, Over, Under

LEMMA PkInvHolds == ASSUME PkInv PROVE PasskeyRacesOnly
<1>1. \A t \in Tasks : Over(t, "auth") => Passed(t) /\ task[t].taken = task[t].signed
    BY DEF Passed, PkInv, VerifiedInv
<1>2. \A t, u \in Tasks :
          t # u /\ Over(t, "auth") /\ Over(u, "auth") /\ task[t].signed = task[u].signed => {t, u} \cap overlap # {}
    BY <1>1 DEF PkInv, TakenInv
<1> QED BY <1>2 DEF PasskeyRacesOnly, PkInv, CounterInv

----------------------------------------------------------------------------
(* Accounts                                                                *)

\* What a proof in Redis is for.
ProofRows ==
    {NoProof}
    \cup [kind : {"register", "change"}, value : Phones]
    \cup [kind : {"magic"}, value : Emails]
    \cup [kind : {"link"}, value : {Nobody}]

\* What a call may stand at.
Beginning    == [op : {"begin"}, at : {"companion", "over"}]
Approving      == [op : {"link"}, with : Tasks, account : AccountIds, fresh : {FALSE},
                 at : {"device", "mint", "result", "unlink", "added", "over"}]
Presenting   == [op : {"magic"}, with : Tasks, value : Emails, at : {"consume", "create"}]
                \cup [op : {"register"}, with : Tasks, value : Phones, at : {"consume", "companion?", "failed", "create"}]
                \cup [op : {"change"}, with : Tasks, value : Phones,
                      at : {"consume", "companion?", "free?", "repoint", "changed", "failed", "over"}]
LoggingIn        == [op : {"otp"}, value : Phones, account : {Nobody}, fresh : {FALSE}, at : {"create"}]
                \cup [op : {"otp"}, value : Phones, account : AccountIds, fresh : {FALSE},
                      at : {"device", "created", "added", "mint", "over"}]
Provisions == [op : {"otp"}, value : Phones, account : AccountIds, fresh : BOOLEAN, with : Tasks,
                 at : {"claim", "reread", "device", "created", "added", "mint", "over"}]
                \cup [op : {"magic"}, value : Emails, account : AccountIds, fresh : BOOLEAN, with : Tasks,
                      at : {"claim", "device", "created", "added", "mint", "over"}]
                \cup [op : {"register"}, value : Phones, account : AccountIds, fresh : BOOLEAN, with : Tasks,
                      at : {"claim", "device", "mint", "result", "created", "added", "over"}]
Mailing      == [op : {"email"}, value : Emails, account : AccountIds, at : {"claim", "reread", "notify", "failed", "over"}]
Fetching     == [op : {"fetch"}, with : Tasks, at : {"fetched", "over"}]

AccTasks ==
    {New, Failed} \cup Beginning \cup Approving \cup Presenting \cup LoggingIn \cup Provisions \cup Mailing \cup Fetching

AccTyped == AccTypeOK /\ proof \in [Tasks -> ProofRows] /\ task \in [Tasks -> AccTasks] /\ failures \in Nat

\* A call that presents a proof, and one that is yet to drop it.
Presents(r)   == r \notin {New, Failed} /\ r.op \in ProofKinds
YetToDrop(r)  == r.at = "consume" \/ (r.op = "link" /\ r.at \in {"device", "mint", "result", "unlink"})

\* A login or a setEmail that claimed its identifier and is about to look who has it; one that knows.
Rereads(r)    == r.at = "reread"
Knows(r)      == \/ r.at \in {"device", "created", "added", "mint", "over"} /\ r.op = "otp"
                 \/ r.at \in {"notify", "over"} /\ r.op = "email"

\* A call that added its device.
Housed(r)     == \/ r.at \in {"created", "added", "mint", "result", "unlink"}
                 \/ r.at = "over" /\ r.op \in {"otp", "magic", "register", "link"}

\* The call that handed a proof out presents none itself.
HandedOut(r)     == r = Failed \/ r \in Beginning
ProofInv ==
    /\ \A s \in Tasks : proof[s] # NoProof => HandedOut(task[s])
    /\ \A t \in Tasks : Presents(task[t]) => HandedOut(task[task[t].with])

\* A proof that one call dropped never comes back, and two that read it overlapped.
DroppedInv == \A t \in Tasks : Presents(task[t]) /\ ~YetToDrop(task[t]) => proof[task[t].with] = NoProof
RivalsInv ==
    \A t, u \in Tasks :
        t # u /\ Presents(task[t]) /\ Presents(task[u]) /\ task[t].with = task[u].with => {t, u} \cap overlapped # {}

\* An identifier that is looked at again has an owner, and a call that knows the owner is right, but for a number change.
OwnerInv ==
    /\ \A t \in Tasks : Rereads(task[t]) => task[t].value \in moved \/ owner[task[t].value] # Nobody
    /\ \A t \in Tasks : Knows(task[t]) => task[t].value \in moved \/ owner[task[t].value] = task[t].account

\* Every device belongs to an account and tells which proof added it.
AddedBy(t, r) == r = Failed \/ (r # New /\ r.op \in {"otp", "magic", "register", "link"} /\ device[t].by = IF r.op = "otp" THEN t ELSE r.with)
HousedInv ==
    /\ \A t \in Tasks : device[t] # NoDevice => device[t].account \in AccountIds /\ AddedBy(t, task[t])
    /\ \A t \in Tasks : Housed(task[t]) \/ t \in signedIn => device[t] # NoDevice

AccInv == AccTyped /\ ProofInv /\ DroppedInv /\ RivalsInv /\ OwnerInv /\ HousedInv

\* The kinds of calls by their operation.
LEMMA AccKinds ==
    ASSUME NEW r \in AccTasks
    PROVE  \/ r \in {New, Failed}
           \/ r \in Beginning /\ r.op = "begin" /\ r.at \in {"companion", "over"}
           \/ r \in Approving /\ r.op = "link" /\ r.at \in {"device", "mint", "result", "unlink", "added", "over"}
           \/ r \in Presenting /\ r.op = "magic" /\ r.at \in {"consume", "create"}
           \/ r \in Presenting /\ r.op = "register" /\ r.at \in {"consume", "companion?", "failed", "create"}
           \/ /\ r \in Presenting /\ r.op = "change"
              /\ r.at \in {"consume", "companion?", "free?", "repoint", "changed", "failed", "over"}
           \/ r \in LoggingIn /\ r.op = "otp" /\ r.at \in {"create", "device", "created", "added", "mint", "over"}
           \/ /\ r \in Provisions /\ r.op = "otp"
              /\ r.at \in {"claim", "reread", "device", "created", "added", "mint", "over"}
           \/ r \in Provisions /\ r.op = "magic" /\ r.at \in {"claim", "device", "created", "added", "mint", "over"}
           \/ /\ r \in Provisions /\ r.op = "register"
              /\ r.at \in {"claim", "device", "mint", "result", "created", "added", "over"}
           \/ r \in Mailing /\ r.op = "email" /\ r.at \in {"claim", "reread", "notify", "failed", "over"}
           \/ r \in Fetching /\ r.op = "fetch" /\ r.at \in {"fetched", "over"}
<1>1. CASE r \in Beginning  BY <1>1 DEF Beginning
<1>2. CASE r \in Approving  BY <1>2 DEF Approving
<1>3. CASE r \in Presenting
  <2>1. CASE r.op = "magic"  BY <1>3, <2>1 DEF Presenting
  <2>2. CASE r.op = "register"  BY <1>3, <2>2 DEF Presenting
  <2>3. CASE r.op = "change"  BY <1>3, <2>3 DEF Presenting
  <2> QED BY <1>3, <2>1, <2>2, <2>3 DEF Presenting
<1>4. CASE r \in LoggingIn  BY <1>4 DEF LoggingIn
<1>5. CASE r \in Provisions
  <2>1. CASE r.op = "otp"  BY <1>5, <2>1 DEF Provisions
  <2>2. CASE r.op = "magic"  BY <1>5, <2>2 DEF Provisions
  <2>3. CASE r.op = "register"  BY <1>5, <2>3 DEF Provisions
  <2> QED BY <1>5, <2>1, <2>2, <2>3 DEF Provisions
<1>6. CASE r \in Mailing  BY <1>6 DEF Mailing
<1>7. CASE r \in Fetching  BY <1>7 DEF Fetching
<1> QED BY <1>1, <1>2, <1>3, <1>4, <1>5, <1>6, <1>7 DEF AccTasks

\* What is known of a call by where it stands.
LEMMA AccPlaces ==
    ASSUME AccTyped, NEW t \in Tasks
    PROVE  /\ At(t, "new") <=> task[t] = New
           /\ At(t, "companion") => task[t] \in Beginning
           /\ At(t, "consume") => task[t] \in Presenting
           /\ At(t, "companion?") => task[t] \in Presenting /\ task[t].op \in {"register", "change"}
           /\ At(t, "free?") \/ At(t, "repoint") \/ At(t, "changed") => task[t] \in Presenting /\ task[t].op = "change"
           /\ At(t, "create") => task[t] \in LoggingIn \/ (task[t] \in Presenting /\ task[t].op \in {"magic", "register"})
           /\ At(t, "claim") => task[t] \in Provisions \cup Mailing
           /\ At(t, "reread") => (task[t] \in Provisions /\ task[t].op = "otp") \/ task[t] \in Mailing
           /\ task[t].at \in {"device", "created", "added", "mint", "result", "unlink"}
                => task[t] \in Approving \cup LoggingIn \cup Provisions
           /\ At(t, "notify") => task[t] \in Mailing
           /\ At(t, "fetched") => task[t] \in Fetching
           /\ At(t, "over") => ~(task[t] \in {New, Failed})
<1>1. task[t] \in AccTasks  BY DEF AccTyped
<1>2. New.at = "new" /\ Failed.at = "failed"  BY DEF New, Failed
<1> QED BY <1>1, <1>2, AccKinds DEF At

\* A step moves one call.
AccMoves(t, r) == task'[t] = r /\ \A u \in Tasks \ {t} : task'[u] = task[u]

\* A call that begins is new: it is nobody's proof, and has no device.
LEMMA NewIsAlone ==
    ASSUME AccInv, NEW t \in Tasks, task[t] = New
    PROVE  /\ ~HandedOut(task[t]) /\ ~Presents(task[t]) /\ ~Housed(task[t]) /\ ~Knows(task[t]) /\ ~Rereads(task[t])
           /\ \A u \in Tasks : Presents(task[u]) => task[u].with # t
           /\ proof[t] = NoProof /\ device[t] = NoDevice /\ t \notin signedIn
<1>1. /\ ~HandedOut(New) /\ ~Presents(New) /\ ~Housed(New) /\ ~Knows(New) /\ ~Rereads(New)
    BY DEF HandedOut, Presents, Housed, Knows, Rereads, New, Failed, Beginning
<1>2. \A u \in Tasks : Presents(task[u]) => task[u].with # t  BY <1>1 DEF AccInv, ProofInv
<1>3. proof[t] = NoProof  BY <1>1 DEF AccInv, ProofInv
<1>4. device[t] = NoDevice /\ t \notin signedIn  BY DEF AccInv, HousedInv, AddedBy, New, Failed
<1> QED BY <1>1, <1>2, <1>3, <1>4

\* The proof that a call presents is a task.
LEMMA WithIsATask ==
    ASSUME AccTyped, NEW t \in Tasks, Presents(task[t])
    PROVE  task[t].with \in Tasks
<1>1. task[t] \in AccTasks  BY DEF AccTyped
<1>2. task[t] \in Approving \cup Presenting \cup Provisions
    BY <1>1 DEF AccTasks, Presents, ProofKinds, Beginning, LoggingIn, Mailing, Fetching
<1> QED BY <1>2 DEF Approving, Presenting, Provisions

LEMMA ValueIsAnIdentifier ==
    ASSUME AccTyped, NEW t \in Tasks, Rereads(task[t]) \/ Knows(task[t])
    PROVE  task[t].value \in Values /\ (Knows(task[t]) => task[t].account \in AccountIds)
<1>1. task[t] \in AccTasks  BY DEF AccTyped
<1>2. task[t].at \in {"reread", "device", "created", "added", "mint", "notify", "over"}
    BY DEF Rereads, Knows
<1>3. Knows(task[t]) => task[t].op \in {"otp", "email"}  BY DEF Knows
<1>4. Rereads(task[t]) => task[t].at = "reread"  BY DEF Rereads
<1>5. task[t] \in LoggingIn \cup Provisions \cup Mailing
  <2>1. New.at = "new" /\ Failed.at = "failed"  BY DEF New, Failed
  <2> QED BY <1>1, <1>2, <1>3, <1>4, <2>1, AccKinds
<1> QED BY <1>2, <1>5 DEF LoggingIn, Provisions, Mailing, Values

\* The step of a call that adds, sends and drops nothing but its own, and takes an identifier from nobody but on record.
LEMMA AccMove ==
    ASSUME AccInv, NEW t \in Tasks, NEW r \in AccTasks, task' = [task EXCEPT ![t] = r],
           AccTypeOK', failures' \in Nat, proof' \in [Tasks -> ProofRows],
           \A s \in Tasks : proof'[s] = proof[s] \/ proof'[s] = NoProof,
           overlapped' = overlapped,
           HandedOut(task[t]) => HandedOut(r),
           Presents(r) => Presents(task[t]) /\ r.with = task[t].with,
           Presents(r) /\ ~YetToDrop(r) => proof'[r.with] = NoProof,
           moved \subseteq moved', \A v \in Values : owner[v] # Nobody => v \in moved' \/ owner'[v] = owner[v],
           Rereads(r) => r.value \in moved' \/ owner'[r.value] # Nobody,
           Knows(r) => r.value \in moved' \/ owner'[r.value] = r.account,
           \A u \in Tasks \ {t} : device'[u] = device[u], signedIn' \subseteq signedIn \cup {t},
           device'[t] # NoDevice => device'[t].account \in AccountIds /\ AddedBy(t, r)',
           Housed(r) \/ t \in signedIn' => device'[t] # NoDevice
    PROVE  AccInv'
<1> USE DEF AccInv
<1>1. AccTyped /\ AccTyped' /\ AccMoves(t, r)  BY DEF AccTyped, AccMoves
<1>2. \A s \in Tasks : HandedOut(task[s]) => HandedOut(task'[s])  BY <1>1 DEF AccMoves
<1>3. \A u \in Tasks : Presents(task'[u]) => Presents(task[u]) /\ task'[u].with = task[u].with /\ task[u].with \in Tasks
    BY <1>1, WithIsATask DEF AccMoves
<1>4. ProofInv'  BY <1>2, <1>3 DEF ProofInv
<1>5. DroppedInv'  BY <1>1, <1>3 DEF DroppedInv, AccMoves
<1>6. RivalsInv'  BY <1>3 DEF RivalsInv
<1>7. OwnerInv'
  <2>1. \A v \in Values : owner[v] \in AccountIds => owner[v] # Nobody
      BY AccountsAssumption DEF AccountIds
  <2>2. \A u \in Tasks \ {t} : Rereads(task'[u]) => task'[u].value \in moved' \/ owner'[task'[u].value] # Nobody
      BY <1>1, ValueIsAnIdentifier DEF OwnerInv, AccMoves
  <2>3. \A u \in Tasks \ {t} : Knows(task'[u]) => task'[u].value \in moved' \/ owner'[task'[u].value] = task'[u].account
      BY <1>1, <2>1, ValueIsAnIdentifier DEF OwnerInv, AccMoves
  <2> QED BY <1>1, <2>2, <2>3 DEF OwnerInv, AccMoves
<1>8. HousedInv'
  <2>1. \A u \in Tasks \ {t} : AddedBy(u, task[u]) /\ task'[u] = task[u] /\ device'[u] = device[u] => AddedBy(u, task[u])'
      BY DEF AddedBy
  <2>2. \A u \in Tasks \ {t} : device'[u] # NoDevice => device'[u].account \in AccountIds /\ AddedBy(u, task[u])'
      BY <1>1, <2>1 DEF HousedInv, AccMoves
  <2>3. device'[t] # NoDevice => device'[t].account \in AccountIds /\ AddedBy(t, task[t])'
      BY <1>1 DEF AccMoves, AddedBy
  <2>4. \A u \in Tasks : Housed(task'[u]) \/ u \in signedIn' => device'[u] # NoDevice
      BY <1>1 DEF HousedInv, AccMoves
  <2> QED BY <2>2, <2>3, <2>4 DEF HousedInv
<1> QED BY <1>1, <1>4, <1>5, <1>6, <1>7, <1>8

\* A call that only goes on: it tells the bus or Redis, and gives up at most a proof.
LEMMA AccGoesOn ==
    ASSUME AccInv, NEW t \in Tasks, NEW r \in AccTasks, task' = [task EXCEPT ![t] = r],
           AccTypeOK', failures' \in Nat, proof' \in [Tasks -> ProofRows],
           \A s \in Tasks : proof'[s] = proof[s] \/ proof'[s] = NoProof,
           UNCHANGED <<owner, device, signedIn, moved, overlapped>>,
           \/ r = Failed
           \/ /\ r.op = task[t].op /\ task[t] \notin {New, Failed} /\ r.at # "new"
              /\ r.op \in ProofKinds => r.with = task[t].with
              /\ r.op = "begin" => r \in Beginning
              /\ Presents(r) /\ ~YetToDrop(r) => ~YetToDrop(task[t]) \/ proof'[r.with] = NoProof
              /\ Rereads(r) => r.value \in moved \/ owner[r.value] # Nobody
              /\ Knows(r) => r.value \in moved \/ owner[r.value] = r.account
              /\ Housed(r) => device[t] # NoDevice
    PROVE  AccInv'
<1> USE DEF AccInv
<1>1. CASE r = Failed
  <2>1. ~Presents(r) /\ ~Rereads(r) /\ ~Knows(r) /\ ~Housed(r) /\ HandedOut(r) /\ AddedBy(t, r)'
      BY <1>1 DEF Presents, Rereads, Knows, Housed, HandedOut, AddedBy, Failed
  <2>2. device'[t] # NoDevice => device'[t].account \in AccountIds  BY DEF HousedInv
  <2>3. t \in signedIn' => device'[t] # NoDevice  BY DEF HousedInv
  <2> QED BY <2>1, <2>2, <2>3, AccMove
<1>2. CASE /\ r # Failed /\ r.op = task[t].op /\ task[t] \notin {New, Failed} /\ r.at # "new"
           /\ r.op \in ProofKinds => r.with = task[t].with
           /\ r.op = "begin" => r \in Beginning
           /\ Presents(r) /\ ~YetToDrop(r) => ~YetToDrop(task[t]) \/ proof'[r.with] = NoProof
           /\ Rereads(r) => r.value \in moved \/ owner[r.value] # Nobody
           /\ Knows(r) => r.value \in moved \/ owner[r.value] = r.account
           /\ Housed(r) => device[t] # NoDevice
  <2>1. Presents(r) => Presents(task[t]) /\ r.with = task[t].with /\ task[t].with \in Tasks
    <3>1. Presents(r) => Presents(task[t]) /\ r.with = task[t].with
        BY <1>2 DEF Presents, ProofKinds
    <3> QED BY <3>1, WithIsATask
  <2>2. Presents(r) /\ ~YetToDrop(r) => proof'[r.with] = NoProof  BY <1>2, <2>1 DEF DroppedInv
  <2>3. HandedOut(task[t]) => HandedOut(r)  BY <1>2 DEF HandedOut, Beginning
  <2>4. device'[t] # NoDevice => device'[t].account \in AccountIds /\ AddedBy(t, r)'
    <3>1. AddedBy(t, task[t]) => AddedBy(t, r)'  BY <1>2 DEF AddedBy, New, ProofKinds
    <3> QED BY <3>1 DEF HousedInv
  <2>5. Housed(r) \/ t \in signedIn' => device'[t] # NoDevice  BY <1>2 DEF HousedInv
  <2> QED BY <1>2, <2>1, <2>2, <2>3, <2>4, <2>5, AccMove
<1> QED BY <1>1, <1>2

----------------------------------------------------------------------------
(* Accounts: proofs are handed out and presented                           *)

\* Types that a call leaves.
LEMMA AccKeepsTypes ==
    ASSUME AccTypeOK, UNCHANGED <<owner, device, proof, companion, result, signedIn, moved, overlapped>>
    PROVE  AccTypeOK'
    BY DEF AccTypeOK

LEMMA ProofTypes ==
    ASSUME NEW f, f \in [Tasks -> ProofRows]
    PROVE  f \in [Tasks -> [kind : ProofKinds, value : Values \cup {Nobody}] \cup {NoProof}]
<1>1. ProofRows \subseteq [kind : ProofKinds, value : Values \cup {Nobody}] \cup {NoProof}
    BY DEF ProofRows, ProofKinds, Values
<1> QED BY <1>1

\* A proof that was handed out is its maker's own.
LEMMA HandsOut ==
    ASSUME AccInv, NEW t \in Tasks, NEW r \in Beginning, NEW what \in ProofRows, Begins(t, r),
           proof' = [proof EXCEPT ![t] = what],
           UNCHANGED <<failures, owner, device, companion, result, signedIn, published, moved, overlapped>>
    PROVE  AccInv'
<1> USE DEF AccInv
<1>1. task[t] = New /\ task' = [task EXCEPT ![t] = r] /\ r \in AccTasks /\ HandedOut(r)
    BY DEF Begins, AccTasks, HandedOut
<1>2. /\ ~Presents(r) /\ ~Housed(r) /\ ~Knows(r) /\ ~Rereads(r)
    BY DEF Beginning, Presents, ProofKinds, Housed, Knows, Rereads
<1>3. proof' \in [Tasks -> ProofRows] /\ \A s \in Tasks \ {t} : proof'[s] = proof[s]
    BY DEF AccTyped
<1>4. AccTypeOK'  BY <1>3, ProofTypes DEF AccTyped, AccTypeOK
<1>5. AccTyped' /\ AccMoves(t, r)  BY <1>1, <1>3, <1>4 DEF AccTyped, AccMoves
<1>6. \A u \in Tasks : Presents(task'[u]) => u # t /\ task'[u] = task[u] /\ task[u].with \in Tasks \ {t}
    BY <1>1, <1>2, <1>5, NewIsAlone, WithIsATask DEF AccMoves
<1>7. \A s \in Tasks : HandedOut(task[s]) \/ s = t => HandedOut(task'[s])
    BY <1>1, <1>5 DEF AccMoves
<1>8. ProofInv'  BY <1>3, <1>6, <1>7 DEF ProofInv
<1>9. DroppedInv' /\ RivalsInv'  BY <1>3, <1>6 DEF DroppedInv, RivalsInv
<1>10. OwnerInv'  BY <1>2, <1>5 DEF OwnerInv, AccMoves
<1>11. HousedInv'
  <2>1. device[t] = NoDevice /\ t \notin signedIn  BY <1>1, NewIsAlone
  <2> QED BY <1>2, <1>5, <2>1 DEF HousedInv, AddedBy, AccMoves
<1> QED BY <1>5, <1>8, <1>9, <1>10, <1>11

LEMMA StartKeeps == ASSUME AccInv, NEW t \in Tasks, StartReverseOtp(t) PROVE AccInv'
<1>1. PICK k \in {"register", "change"}, v \in Phones :
          /\ proof' = [proof EXCEPT ![t] = [kind |-> k, value |-> v]]
          /\ Begins(t, [op |-> "begin", at |-> "companion"])
    BY DEF StartReverseOtp
<1>2. [kind |-> k, value |-> v] \in ProofRows /\ [op |-> "begin", at |-> "companion"] \in Beginning
    BY DEF ProofRows, Beginning
<1> QED BY <1>1, <1>2, HandsOut DEF StartReverseOtp

LEMMA MagicLinkKeeps == ASSUME AccInv, NEW t \in Tasks, BeginMagicLink(t) PROVE AccInv'
<1>1. PICK v \in Emails : proof' = [proof EXCEPT ![t] = [kind |-> "magic", value |-> v]]
    BY DEF BeginMagicLink
<1>2. [kind |-> "magic", value |-> v] \in ProofRows /\ [op |-> "begin", at |-> "over"] \in Beginning
    BY DEF ProofRows, Beginning
<1> QED BY <1>1, <1>2, HandsOut DEF BeginMagicLink

LEMMA RequestLinkKeeps == ASSUME AccInv, NEW t \in Tasks, RequestLink(t) PROVE AccInv'
<1>1. [kind |-> "link", value |-> Nobody] \in ProofRows /\ [op |-> "begin", at |-> "over"] \in Beginning
    BY DEF ProofRows, Beginning
<1> QED BY <1>1, HandsOut DEF RequestLink

LEMMA ProofExpiresKeeps == ASSUME AccInv, ProofExpires PROVE AccInv'
<1> USE DEF AccInv
<1>1. /\ proof' = proof \/ \E s \in Tasks : proof' = [proof EXCEPT ![s] = NoProof]
      /\ companion' \subseteq companion /\ result' \subseteq result
      /\ UNCHANGED <<taskVars, owner, device, signedIn, published, moved, overlapped>>
    BY DEF ProofExpires
<1>2. proof' \in [Tasks -> ProofRows] /\ \A s \in Tasks : proof'[s] = proof[s] \/ proof'[s] = NoProof
    BY <1>1 DEF AccTyped, ProofRows
<1>3. AccTypeOK'  BY <1>1, <1>2, ProofTypes DEF AccTyped, AccTypeOK
<1>4. AccTyped'  BY <1>1, <1>2, <1>3 DEF AccTyped, taskVars
<1>5. ProofInv'  BY <1>1, <1>2 DEF ProofInv, taskVars
<1>6. DroppedInv'  BY <1>1, <1>2, WithIsATask DEF DroppedInv, taskVars
<1>7. RivalsInv' /\ OwnerInv' /\ HousedInv'
    BY <1>1 DEF RivalsInv, OwnerInv, HousedInv, AddedBy, taskVars
<1> QED BY <1>4, <1>5, <1>6, <1>7

\* Who reads a proof is the only one at work on it, or is on record.
LEMMA ReadProofKeeps == ASSUME AccInv, NEW t \in Tasks, ReadProof(t) PROVE AccInv'
<1> USE DEF AccInv
<1>1. PICK s \in Tasks :
          /\ proof[s] # NoProof
          /\ IF proof[s].kind = "link"
               THEN \E a \in {Elder} \cup {device[d].account : d \in {e \in Tasks : device[e].trusted}} :
                       Begins(t, [op |-> "link", with |-> s, account |-> a, fresh |-> FALSE, at |-> "device"])
               ELSE Begins(t, [op |-> proof[s].kind, with |-> s, value |-> proof[s].value, at |-> "consume"])
          /\ overlapped' = IF \E u \in Tasks, op \in ProofKinds : Under(u, op) /\ task[u].with = s
                             THEN overlapped \cup {t} ELSE overlapped
    BY DEF ReadProof
<1>2. AccTyped /\ AccTypeOK /\ proof[s] \in ProofRows /\ overlapped \subseteq Tasks
      /\ UNCHANGED <<failures, owner, device, proof, companion, result, signedIn, published, moved>>
    BY DEF AccTyped, AccTypeOK, ReadProof
<1>3. PICK r \in Approving \cup Presenting :
          /\ Begins(t, r) /\ r.with = s /\ YetToDrop(r) /\ r.op \in ProofKinds /\ r.at \in {"device", "consume"}
          /\ r.op # "otp" /\ r.op # "email"
  <2>1. CASE proof[s].kind = "link"
    <3>1. PICK a \in {Elder} \cup {device[d].account : d \in {e \in Tasks : device[e].trusted}} :
              Begins(t, [op |-> "link", with |-> s, account |-> a, fresh |-> FALSE, at |-> "device"])
        BY <1>1, <2>1
    <3>2. a \in AccountIds
      <4>1. \A d \in Tasks : device[d].trusted => device[d].account \in AccountIds
          BY DEF HousedInv, NoDevice
      <4> QED BY <3>1, <4>1 DEF AccountIds
    <3> DEFINE q == [op |-> "link", with |-> s, account |-> a, fresh |-> FALSE, at |-> "device"]
    <3>3. q \in Approving /\ q.with = s /\ YetToDrop(q) /\ q.op \in ProofKinds /\ q.at = "device" /\ q.op = "link"
        BY <3>2 DEF Approving, YetToDrop, ProofKinds
    <3> QED BY <3>1, <3>3
  <2>2. CASE proof[s].kind # "link"
    <3> DEFINE q == [op |-> proof[s].kind, with |-> s, value |-> proof[s].value, at |-> "consume"]
    <3>1. \/ proof[s].kind \in {"register", "change"} /\ proof[s].value \in Phones
          \/ proof[s].kind = "magic" /\ proof[s].value \in Emails
        BY <1>1, <1>2, <2>2 DEF ProofRows
    <3>2. q \in Presenting  BY <3>1 DEF Presenting
    <3>3. q.with = s /\ YetToDrop(q) /\ q.op \in ProofKinds /\ q.at = "consume" /\ q.op \notin {"otp", "email"}
        BY <3>1 DEF YetToDrop, ProofKinds
    <3> QED BY <1>1, <2>2, <3>2, <3>3
  <2> QED BY <2>1, <2>2
<1>4. task[t] = New /\ task' = [task EXCEPT ![t] = r] /\ r \in AccTasks
    BY <1>3 DEF Begins, AccTasks
<1>5. AccTypeOK'  BY <1>1, <1>2 DEF AccTypeOK
<1>6. AccTyped' /\ AccMoves(t, r)  BY <1>2, <1>4, <1>5 DEF AccTyped, AccMoves
<1>7. ~Knows(r) /\ ~Rereads(r) /\ ~Housed(r)  BY <1>3 DEF Knows, Rereads, Housed
<1>8. \A u \in Tasks \ {t} : Presents(task'[u]) <=> Presents(task[u])  BY <1>6 DEF AccMoves
<1>9. \A u \in Tasks : HandedOut(task[u]) => HandedOut(task'[u])
    BY <1>4, <1>6, NewIsAlone DEF AccMoves
<1>10. ProofInv'
  <2>1. HandedOut(task[s])  BY <1>1 DEF ProofInv
  <2>2. \A u \in Tasks \ {t} : Presents(task[u]) => HandedOut(task'[task[u].with])
      BY <1>9, WithIsATask DEF ProofInv
  <2> QED BY <1>2, <1>3, <1>6, <1>8, <1>9, <2>1, <2>2 DEF ProofInv, AccMoves
<1>11. DroppedInv'  BY <1>2, <1>3, <1>6 DEF DroppedInv, AccMoves
<1>12. RivalsInv'
  <2>1. \A u \in Tasks \ {t} : Presents(task[u]) /\ task[u].with = s => t \in overlapped'
    <3> SUFFICES ASSUME NEW u \in Tasks \ {t}, Presents(task[u]), task[u].with = s PROVE t \in overlapped'
        OBVIOUS
    <3>1. YetToDrop(task[u])  BY <1>1 DEF DroppedInv
    <3>2. Under(u, task[u].op) /\ task[u].op \in ProofKinds  BY <3>1 DEF YetToDrop, Under, Presents
    <3> QED BY <1>1, <3>2
  <2>2. overlapped \subseteq overlapped'  BY <1>1
  <2> QED BY <1>3, <1>6, <1>8, <2>1, <2>2 DEF RivalsInv, AccMoves
<1>13. OwnerInv'  BY <1>2, <1>6, <1>7 DEF OwnerInv, AccMoves
<1>14. HousedInv'
  <2>1. device[t] = NoDevice /\ t \notin signedIn  BY <1>4, NewIsAlone
  <2> QED BY <1>2, <1>6, <1>7, <2>1 DEF HousedInv, AddedBy, AccMoves
<1> QED BY <1>6, <1>10, <1>11, <1>12, <1>13, <1>14

\* A call that begins, but for one that presents a proof.
LEMMA AccBegins ==
    ASSUME AccInv, NEW t \in Tasks, NEW r \in AccTasks, Begins(t, r), UNCHANGED <<failures, accVars>>,
           ~Presents(r), ~Housed(r), ~Rereads(r), Knows(r) => owner[r.value] = r.account
    PROVE  AccInv'
<1> USE DEF AccInv
<1>1. task[t] = New /\ task' = [task EXCEPT ![t] = r]  BY DEF Begins
<1>2. AccTypeOK' /\ failures' \in Nat /\ proof' \in [Tasks -> ProofRows]
    BY AccKeepsTypes DEF AccTyped, accVars
<1>3. device[t] = NoDevice /\ t \notin signedIn /\ ~HandedOut(task[t])  BY <1>1, NewIsAlone
<1> QED BY <1>1, <1>2, <1>3, AccMove DEF accVars

\* A call on its way to the account.
LEMMA PresentingGoes ==
    ASSUME NEW q \in Presenting, NEW p,
           \/ q.op = "magic" /\ p = "create"
           \/ q.op = "register" /\ p \in {"companion?", "failed", "create"}
           \/ q.op = "change" /\ p \in {"companion?", "free?", "repoint", "changed", "failed", "over"}
    PROVE  LET r == [q EXCEPT !.at = p] IN
           /\ r \in Presenting /\ r.at = p /\ r.op = q.op /\ r.with = q.with
           /\ ~YetToDrop(r) /\ ~Rereads(r) /\ ~Knows(r) /\ (p # "over" \/ q.op = "change" => ~Housed(r))
<1> DEFINE r == [q EXCEPT !.at = p]
<1>1. r \in Presenting /\ r.at = p /\ r.op = q.op /\ r.with = q.with
  <2>1. CASE q.op = "magic"  BY <2>1 DEF Presenting
  <2>2. CASE q.op = "register"  BY <2>2 DEF Presenting
  <2>3. CASE q.op = "change"  BY <2>3 DEF Presenting
  <2> QED BY <2>1, <2>2, <2>3
<1> HIDE DEF r
<1>2. ~YetToDrop(r) /\ ~Rereads(r) /\ ~Knows(r) /\ (p # "over" \/ q.op = "change" => ~Housed(r))
    BY <1>1 DEF YetToDrop, Rereads, Knows, Housed
<1> QED BY <1>1, <1>2 DEF r

\* A call that presents a proof and has dropped it.
LEMMA PresentingMoves ==
    ASSUME AccInv, NEW t \in Tasks, NEW p, task[t] \in Presenting, Goes(t, p), failures' = failures,
           \/ task[t].op = "magic" /\ p = "create"
           \/ task[t].op = "register" /\ p \in {"companion?", "failed", "create"}
           \/ task[t].op = "change" /\ p \in {"companion?", "free?", "repoint", "changed", "failed", "over"},
           AccTypeOK', proof' \in [Tasks -> ProofRows], \A s \in Tasks : proof'[s] = proof[s] \/ proof'[s] = NoProof,
           ~At(t, "consume") \/ proof'[task[t].with] = NoProof,
           UNCHANGED <<owner, device, signedIn, moved, overlapped>>
    PROVE  AccInv'
<1> DEFINE r == [task[t] EXCEPT !.at = p]
<1>1. /\ r \in Presenting /\ r.at = p /\ r.op = task[t].op /\ r.with = task[t].with
      /\ ~YetToDrop(r) /\ ~Rereads(r) /\ ~Knows(r) /\ ~Housed(r)
    BY PresentingGoes
<1>2. task' = [task EXCEPT ![t] = r] /\ task[t].op \in ProofKinds \ {"link"} /\ failures' \in Nat /\ p # "new"
    BY DEF Goes, ProofKinds, AccInv, AccTyped
<1> HIDE DEF r
<1>3. r \in AccTasks /\ r.op # "begin"  BY <1>1, <1>2 DEF AccTasks, ProofKinds
<1>4. task[t] \notin {New, Failed}
  <2>1. New.at = "new" /\ Failed.at = "failed" /\ New \notin Presenting /\ Failed \notin Presenting
      BY DEF New, Failed, Presenting
  <2> QED BY <2>1
<1>5. ~At(t, "consume") => ~YetToDrop(task[t])  BY <1>2 DEF YetToDrop, At
<1> QED BY <1>1, <1>2, <1>3, <1>4, <1>5, AccGoesOn

LEMMA PutCompanionKeeps == ASSUME AccInv, NEW t \in Tasks, PutCompanion(t) PROVE AccInv'
<1>0. AccTyped  BY DEF AccInv
<1> DEFINE r == [task[t] EXCEPT !.at = "over"]
<1>1. task[t] \in Beginning /\ task' = [task EXCEPT ![t] = r] /\ companion' = companion \cup {t}
      /\ UNCHANGED <<failures, owner, device, proof, result, signedIn, published, moved, overlapped>>
    BY <1>0, AccPlaces DEF PutCompanion, Goes
<1>2. r \in Beginning /\ r.op = "begin" /\ r.at = "over" /\ task[t].op = "begin"
    BY <1>1 DEF Beginning
<1>3. ~Presents(r) /\ ~Rereads(r) /\ ~Knows(r) /\ ~Housed(r) /\ r \in AccTasks
    BY <1>2 DEF Presents, Rereads, Knows, Housed, ProofKinds, AccTasks
<1>4. task[t] \notin {New, Failed}
  <2>1. New \notin Beginning /\ Failed \notin Beginning  BY DEF New, Failed, Beginning
  <2> QED BY <1>1, <2>1
<1>5. AccTypeOK' /\ failures' \in Nat /\ proof' \in [Tasks -> ProofRows]
    BY <1>0, <1>1 DEF AccTyped, AccTypeOK
<1> HIDE DEF r
<1> QED BY <1>1, <1>2, <1>3, <1>4, <1>5, AccGoesOn DEF ProofKinds

LEMMA ConsumeProofKeeps == ASSUME AccInv, NEW t \in Tasks, ConsumeProof(t) PROVE AccInv'
<1>0. AccTyped /\ AccTypeOK /\ At(t, "consume") /\ proof \in [Tasks -> ProofRows]
    BY DEF AccInv, AccTyped, ConsumeProof
<1>1. task[t] \in Presenting  BY <1>0, AccPlaces
<1>2. task[t].with \in Tasks /\ task[t].op \in {"magic", "register", "change"}
    BY <1>1 DEF Presenting
<1>3. proof' = [proof EXCEPT ![task[t].with] = NoProof]
      /\ UNCHANGED <<failures, owner, device, companion, result, signedIn, published, moved, overlapped>>
    BY DEF ConsumeProof, DropProof
<1>4. Goes(t, IF task[t].op = "magic" THEN "create" ELSE "companion?")  BY DEF ConsumeProof
<1>5. /\ proof' \in [Tasks -> ProofRows] /\ \A s \in Tasks : proof'[s] = proof[s] \/ proof'[s] = NoProof
      /\ proof'[task[t].with] = NoProof
    BY <1>0, <1>2, <1>3 DEF ProofRows
<1>6. AccTypeOK'  BY <1>0, <1>3, <1>5, ProofTypes DEF AccTypeOK
<1> QED BY <1>1, <1>2, <1>3, <1>4, <1>5, <1>6, PresentingMoves

LEMMA AccUnchanged == ASSUME AccInv, UNCHANGED <<failures, accVars>>
    PROVE  /\ AccTypeOK' /\ failures' = failures /\ failures' \in Nat /\ proof' \in [Tasks -> ProofRows] /\ proof' = proof
           /\ UNCHANGED <<owner, device, signedIn, moved, overlapped>>
    BY AccKeepsTypes DEF AccInv, AccTyped, accVars

LEMMA ReadCompanionKeeps == ASSUME AccInv, NEW t \in Tasks, ReadCompanion(t) PROVE AccInv'
<1>0. AccTyped /\ At(t, "companion?") /\ UNCHANGED <<failures, accVars>>
    BY DEF AccInv, ReadCompanion
<1>1. task[t] \in Presenting /\ task[t].op \in {"register", "change"}  BY <1>0, AccPlaces
<1>2. PICK p : Goes(t, p) /\ p = IF task[t].with \notin companion THEN "failed"
                                 ELSE IF task[t].op = "change" THEN "free?" ELSE "create"
    BY DEF ReadCompanion
<1>3. ~At(t, "consume")  BY <1>0 DEF At
<1> QED BY <1>0, <1>1, <1>2, <1>3, AccUnchanged, PresentingMoves

LEMMA CheckNumberKeeps == ASSUME AccInv, NEW t \in Tasks, CheckNumber(t) PROVE AccInv'
<1>0. AccTyped /\ At(t, "free?") /\ UNCHANGED <<failures, accVars>>  BY DEF AccInv, CheckNumber
<1>1. task[t] \in Presenting /\ task[t].op = "change"  BY <1>0, AccPlaces
<1>2. PICK p \in {"repoint", "failed"} : Goes(t, p)  BY DEF CheckNumber
<1>3. ~At(t, "consume")  BY <1>0 DEF At
<1> QED BY <1>0, <1>1, <1>2, <1>3, AccUnchanged, PresentingMoves

\* A number that changes hands is on record.
LEMMA RepointKeeps == ASSUME AccInv, NEW t \in Tasks, Repoint(t) PROVE AccInv'
<1> USE DEF AccInv
<1>0. AccTyped /\ AccTypeOK /\ At(t, "repoint")
      /\ UNCHANGED <<failures, device, proof, companion, result, signedIn, published, overlapped>>
    BY DEF AccTyped, Repoint
<1>1. task[t] \in Presenting /\ task[t].op = "change" /\ ~At(t, "consume")
    BY <1>0, AccPlaces DEF At
<1>2. PICK v \in Phones : v = task[t].value  BY <1>1 DEF Presenting
<1>3. CASE owner[v] \notin {Nobody, Elder}
  <2>1. Goes(t, "failed") /\ UNCHANGED <<owner, moved>>  BY <1>2, <1>3 DEF Repoint
  <2>2. AccTypeOK' /\ proof' \in [Tasks -> ProofRows]  BY <1>0, <2>1, AccKeepsTypes DEF AccTyped
  <2> QED BY <1>0, <1>1, <2>1, <2>2, PresentingMoves
<1>4. CASE owner[v] \in {Nobody, Elder}
  <2>1. /\ Goes(t, "changed")
        /\ owner' = [p \in Values |-> IF p = v THEN Elder
                                        ELSE IF p \in Phones /\ owner[p] = Elder THEN Nobody ELSE owner[p]]
        /\ moved' = moved \cup {v} \cup {p \in Phones : owner[p] = Elder}
      BY <1>2, <1>4 DEF Repoint
  <2>2. \A p \in Values : p \in moved' \/ owner'[p] = owner[p]  BY <2>1
  <2>3. AccTypeOK' /\ proof' \in [Tasks -> ProofRows] /\ failures' \in Nat /\ moved \subseteq moved'
    <3>1. owner' \in [Values -> AccountIds \cup {Nobody}]  BY <1>0, <2>1 DEF AccTypeOK, AccountIds
    <3>2. moved' \subseteq Phones  BY <1>0, <2>1 DEF AccTypeOK
    <3> QED BY <1>0, <2>1, <3>1, <3>2 DEF AccTyped, AccTypeOK
  <2> DEFINE r == [task[t] EXCEPT !.at = "changed"]
  <2>4. /\ r \in Presenting /\ r.at = "changed" /\ r.op = task[t].op /\ r.with = task[t].with
        /\ ~YetToDrop(r) /\ ~Rereads(r) /\ ~Knows(r) /\ ~Housed(r)
      BY <1>1, PresentingGoes
  <2>5. task' = [task EXCEPT ![t] = r]  BY <2>1 DEF Goes
  <2> HIDE DEF r
  <2>6. r \in AccTasks /\ Presents(task[t]) /\ ~YetToDrop(task[t]) /\ ~HandedOut(task[t])
    <3>1. New \notin Presenting /\ Failed \notin Presenting /\ Presenting \cap Beginning = {}
        BY DEF New, Failed, Presenting, Beginning
    <3> QED BY <1>0, <1>1, <2>4, <3>1 DEF AccTasks, Presents, ProofKinds, YetToDrop, At, HandedOut
  <2>7. proof'[r.with] = NoProof  BY <1>0, <2>4, <2>6 DEF DroppedInv
  <2>8. device[t] = NoDevice  BY <1>1, <2>6 DEF HousedInv, AddedBy, Presents
  <2>9. t \notin signedIn  BY <2>8 DEF HousedInv
  <2> QED BY <1>0, <2>2, <2>3, <2>4, <2>5, <2>6, <2>7, <2>8, <2>9, AccMove
<1> QED BY <1>3, <1>4

LEMMA FinishChangeKeeps == ASSUME AccInv, NEW t \in Tasks, FinishChange(t) PROVE AccInv'
<1>0. AccTyped /\ At(t, "changed") /\ companion' = companion \ {task[t].with} /\ Goes(t, "over")
      /\ UNCHANGED <<failures, owner, device, proof, result, signedIn, moved, overlapped>>
    BY DEF AccInv, FinishChange
<1>1. task[t] \in Presenting /\ task[t].op = "change" /\ ~At(t, "consume")
    BY <1>0, AccPlaces DEF At
<1>2. AccTypeOK' /\ proof' \in [Tasks -> ProofRows]  BY <1>0 DEF AccTyped, AccTypeOK
<1> QED BY <1>0, <1>1, <1>2, PresentingMoves

----------------------------------------------------------------------------
(* Accounts: provisioning                                                  *)

\* Where a plan leads from each of its places.
Leads(op, from, to) ==
    \/ op \in {"otp", "magic"}
       /\ <<from, to>> \in {<<"device", "created">>, <<"created", "added">>, <<"added", "mint">>, <<"mint", "over">>}
    \/ op = "register"
       /\ <<from, to>> \in {<<"device", "mint">>, <<"mint", "result">>, <<"result", "created">>, <<"created", "added">>,
                            <<"added", "over">>}
    \/ op = "link"
       /\ <<from, to>> \in {<<"device", "mint">>, <<"mint", "result">>, <<"result", "unlink">>, <<"unlink", "added">>,
                            <<"added", "over">>}

LEMMA PlanLeads ==
    ASSUME NEW t \in Tasks, GoesOn(t), task[t].op \in {"otp", "magic", "register", "link"}
    PROVE  \E p : Goes(t, p) /\ Leads(task[t].op, task[t].at, p)
<1> DEFINE plan == Plan(task[t].op)
<1>1. PICK i \in 1..Len(plan) - 1 : At(t, plan[i]) /\ Goes(t, plan[i + 1])  BY DEF GoesOn
<1>2. CASE task[t].op \in {"otp", "magic"}
  <2>1. plan = <<"device", "created", "added", "mint", "over">>  BY <1>2 DEF Plan
  <2>2. i \in {1, 2, 3, 4}  BY <1>1, <2>1
  <2>3. Leads(task[t].op, plan[i], plan[i + 1])  BY <1>2, <2>1, <2>2 DEF Leads
  <2> QED BY <1>1, <2>3 DEF At
<1>3. CASE task[t].op = "register"
  <2>1. plan = <<"device", "mint", "result", "created", "added", "over">>  BY <1>3 DEF Plan
  <2>2. i \in {1, 2, 3, 4, 5}  BY <1>1, <2>1
  <2>3. Leads(task[t].op, plan[i], plan[i + 1])  BY <1>3, <2>1, <2>2 DEF Leads
  <2> QED BY <1>1, <2>3 DEF At
<1>4. CASE task[t].op = "link"
  <2>1. plan = <<"device", "mint", "result", "unlink", "added", "over">>  BY <1>4 DEF Plan
  <2>2. i \in {1, 2, 3, 4, 5}  BY <1>1, <2>1
  <2>3. Leads(task[t].op, plan[i], plan[i + 1])  BY <1>4, <2>1, <2>2 DEF Leads
  <2> QED BY <1>1, <2>3 DEF At
<1> QED BY <1>2, <1>3, <1>4

\* What a call that follows its plan keeps.
LEMMA PlanKeeps ==
    ASSUME NEW q \in Approving \cup LoggingIn \cup Provisions, NEW p, Leads(q.op, q.at, p)
    PROVE  LET r == [q EXCEPT !.at = p] IN
           /\ r \in Approving \cup LoggingIn \cup Provisions /\ r.at = p /\ r.op = q.op
           /\ q.op # "otp" => r.with = q.with
           /\ q.op = "otp" => r.value = q.value /\ r.account = q.account
<1>1. CASE q \in Approving  BY <1>1 DEF Approving, Leads
<1>2. CASE q \in LoggingIn  BY <1>2 DEF LoggingIn, Leads
<1>3. CASE q \in Provisions
  <2>1. CASE q.op = "otp"  BY <1>3, <2>1 DEF Provisions, Leads
  <2>2. CASE q.op = "magic"  BY <1>3, <2>2 DEF Provisions, Leads
  <2>3. CASE q.op = "register"  BY <1>3, <2>3 DEF Provisions, Leads
  <2> QED BY <1>3, <2>1, <2>2, <2>3 DEF Provisions
<1> QED BY <1>1, <1>2, <1>3

\* The step of a call that has its account.
PlanStep(t, r) ==
    /\ r \in AccTasks \ {New, Failed} /\ task' = [task EXCEPT ![t] = r] /\ task[t] \notin {New, Failed}
    /\ r.op = task[t].op /\ r.op \in {"otp", "magic", "register", "link"} /\ r.at # "new"
    /\ r.op \in ProofKinds => r.with = task[t].with
    /\ r.op # "otp" => r.with = task[t].with
    /\ Housed(r) /\ ~Rereads(r)
    /\ Knows(r) => r.value = task[t].value /\ r.account = task[t].account /\ Knows(task[t])
    /\ ~YetToDrop(r) => ~YetToDrop(task[t]) \/ At(t, "unlink")
    /\ ~At(t, "device") => Housed(task[t])
    /\ At(t, "unlink") => task[t] \in Approving

LEMMA PlanMoves ==
    ASSUME AccTyped, NEW t \in Tasks, GoesOn(t), task[t].at \in {"device", "created", "added", "mint", "result", "unlink"}
    PROVE  \E r : PlanStep(t, r)
<1>1. task[t] \in Approving \cup LoggingIn \cup Provisions  BY AccPlaces
<1>2. task[t].op \in {"otp", "magic", "register", "link"}
    BY <1>1 DEF Approving, LoggingIn, Provisions
<1>3. PICK p : Goes(t, p) /\ Leads(task[t].op, task[t].at, p)  BY <1>2, PlanLeads
<1> DEFINE r == [task[t] EXCEPT !.at = p]
<1>4. /\ r \in Approving \cup LoggingIn \cup Provisions /\ r.at = p /\ r.op = task[t].op
      /\ task[t].op # "otp" => r.with = task[t].with
      /\ task[t].op = "otp" => r.value = task[t].value /\ r.account = task[t].account
    BY <1>1, <1>3, PlanKeeps
<1>5. task' = [task EXCEPT ![t] = r]  BY <1>3 DEF Goes
<1> HIDE DEF r
<1>6. p \in {"created", "added", "mint", "over", "result", "unlink"}  BY <1>3 DEF Leads
<1>7. New.at = "new" /\ Failed.at = "failed"  BY DEF New, Failed
<1>8. r \in AccTasks \ {New, Failed} /\ task[t] \notin {New, Failed} /\ r.at # "new"
    BY <1>4, <1>6, <1>7 DEF AccTasks
<1>9. Housed(r) /\ ~Rereads(r)  BY <1>2, <1>4, <1>6 DEF Housed, Rereads
<1>10. ~At(t, "device") => Housed(task[t])  BY DEF Housed, At
<1>11. Knows(r) => r.value = task[t].value /\ r.account = task[t].account /\ Knows(task[t])
  <2>1. Knows(r) => task[t].op = "otp"  BY <1>2, <1>4 DEF Knows
  <2>2. task[t].op = "otp" => task[t].at \in {"device", "created", "added", "mint"}
      BY <1>3 DEF Leads
  <2> QED BY <1>4, <2>1, <2>2 DEF Knows
<1>12. ~YetToDrop(r) => ~YetToDrop(task[t]) \/ At(t, "unlink")
    BY <1>3, <1>4 DEF YetToDrop, Leads, At
<1>13. At(t, "unlink") => task[t] \in Approving  BY <1>1 DEF LoggingIn, Provisions, At
<1> QED BY <1>2, <1>4, <1>5, <1>8, <1>9, <1>10, <1>11, <1>12, <1>13 DEF PlanStep, ProofKinds

\* A call that has its account and its device.
LEMMA PlanGoesOn ==
    ASSUME AccInv, NEW t \in Tasks, NEW r, PlanStep(t, r), ~At(t, "device"),
           AccTypeOK', failures' = failures, proof' \in [Tasks -> ProofRows],
           \A s \in Tasks : proof'[s] = proof[s] \/ proof'[s] = NoProof,
           At(t, "unlink") => proof'[task[t].with] = NoProof,
           UNCHANGED <<owner, device, signedIn, moved, overlapped>>
    PROVE  AccInv'
<1>1. Knows(r) => r.value \in moved \/ owner[r.value] = r.account  BY DEF PlanStep, AccInv, OwnerInv
<1>2. device[t] # NoDevice  BY DEF PlanStep, AccInv, HousedInv
<1>3. Presents(r) /\ ~YetToDrop(r) => ~YetToDrop(task[t]) \/ proof'[r.with] = NoProof
    BY DEF PlanStep, Presents
<1>4. failures' \in Nat /\ r \in AccTasks /\ r.op # "begin"  BY DEF AccInv, AccTyped, PlanStep
<1> QED BY <1>1, <1>2, <1>3, <1>4, AccGoesOn DEF PlanStep

LEMMA AnnounceKeeps == ASSUME AccInv, NEW t \in Tasks, Announce(t) PROVE AccInv'
<1>1. AccTyped /\ task[t].at \in {"created", "added"} /\ GoesOn(t)
      /\ UNCHANGED <<failures, owner, device, proof, companion, result, signedIn, moved, overlapped>>
    BY DEF AccInv, Announce
<1>2. PICK r : PlanStep(t, r)  BY <1>1, PlanMoves
<1>3. AccTypeOK' /\ proof' \in [Tasks -> ProofRows]  BY <1>1, AccKeepsTypes DEF AccTyped
<1>4. ~At(t, "device") /\ ~At(t, "unlink")  BY <1>1 DEF At
<1> QED BY <1>1, <1>2, <1>3, <1>4, PlanGoesOn

LEMMA PutResultKeeps == ASSUME AccInv, NEW t \in Tasks, PutResult(t) PROVE AccInv'
<1>1. AccTyped /\ At(t, "result") /\ GoesOn(t) /\ result' = result \cup {task[t].with}
      /\ UNCHANGED <<failures, owner, device, proof, companion, signedIn, moved, overlapped>>
    BY DEF AccInv, PutResult
<1>2. PICK r : PlanStep(t, r)  BY <1>1, PlanMoves DEF At
<1>3. AccTypeOK' /\ proof' \in [Tasks -> ProofRows]
  <2>1. task[t].with \in Tasks
    <3>1. task[t] \in Approving \cup LoggingIn \cup Provisions  BY <1>1, AccPlaces DEF At
    <3> QED BY <1>1, <3>1 DEF Approving, LoggingIn, Provisions, At
  <2> QED BY <1>1, <2>1 DEF AccTyped, AccTypeOK
<1>4. ~At(t, "device") /\ ~At(t, "unlink")  BY <1>1 DEF At
<1> QED BY <1>1, <1>2, <1>3, <1>4, PlanGoesOn

LEMMA UnlinkKeeps == ASSUME AccInv, NEW t \in Tasks, Unlink(t) PROVE AccInv'
<1>1. AccTyped /\ At(t, "unlink") /\ GoesOn(t) /\ proof' = [proof EXCEPT ![task[t].with] = NoProof]
      /\ UNCHANGED <<failures, owner, device, companion, result, signedIn, published, moved, overlapped>>
    BY DEF AccInv, Unlink, DropProof
<1>2. PICK r : PlanStep(t, r)  BY <1>1, PlanMoves DEF At
<1>3. task[t].with \in Tasks  BY <1>1, <1>2 DEF PlanStep, Approving
<1>4. /\ proof' \in [Tasks -> ProofRows] /\ \A s \in Tasks : proof'[s] = proof[s] \/ proof'[s] = NoProof
      /\ proof'[task[t].with] = NoProof
    BY <1>1, <1>3 DEF AccTyped, ProofRows
<1>5. AccTypeOK'  BY <1>1, <1>4, ProofTypes DEF AccTyped, AccTypeOK
<1>6. ~At(t, "device")  BY <1>1 DEF At
<1> QED BY <1>1, <1>2, <1>4, <1>5, <1>6, PlanGoesOn

\* A device that is signed in is there.
LEMMA MintTokensKeeps == ASSUME AccInv, NEW t \in Tasks, MintTokens(t) PROVE AccInv'
<1> USE DEF AccInv
<1>1. AccTyped /\ At(t, "mint") /\ GoesOn(t) /\ signedIn' = signedIn \cup {t}
      /\ UNCHANGED <<failures, owner, device, proof, companion, result, published, moved, overlapped>>
    BY DEF MintTokens
<1>2. PICK r : PlanStep(t, r)  BY <1>1, PlanMoves DEF At
<1>3. AccTypeOK' /\ proof' \in [Tasks -> ProofRows] /\ failures' \in Nat
    BY <1>1 DEF AccTyped, AccTypeOK
<1>4. device[t] # NoDevice /\ device[t].account \in AccountIds /\ AddedBy(t, task[t])
    BY <1>1, <1>2 DEF PlanStep, HousedInv, At
<1>5. AddedBy(t, r)'  BY <1>1, <1>2, <1>4 DEF PlanStep, AddedBy
<1>6. /\ Presents(r) => Presents(task[t]) /\ r.with = task[t].with
      /\ Presents(r) /\ ~YetToDrop(r) => proof'[r.with] = NoProof
    BY <1>1, <1>2 DEF PlanStep, Presents, DroppedInv, At
<1>7. ~HandedOut(task[t])  BY <1>2 DEF PlanStep, HandedOut, Beginning
<1>8. Knows(r) => r.value \in moved \/ owner[r.value] = r.account  BY <1>2 DEF PlanStep, OwnerInv
<1>9. r \in AccTasks /\ task' = [task EXCEPT ![t] = r] /\ ~Rereads(r)  BY <1>2 DEF PlanStep
<1> QED BY <1>1, <1>3, <1>4, <1>5, <1>6, <1>7, <1>8, <1>9, AccMove

\* The device is the account's, and names the proof.
LEMMA AddDeviceKeeps == ASSUME AccInv, NEW t \in Tasks, AddDevice(t) PROVE AccInv'
<1> USE DEF AccInv
<1> DEFINE d == [account |-> task[t].account, trusted |-> task[t].fresh,
                 by |-> IF task[t].op = "otp" THEN t ELSE task[t].with]
<1>1. AccTyped /\ AccTypeOK /\ At(t, "device") /\ GoesOn(t) /\ device' = [device EXCEPT ![t] = d]
      /\ UNCHANGED <<failures, owner, proof, companion, result, signedIn, published, moved, overlapped>>
    BY DEF AccTyped, AddDevice
<1>2. PICK r : PlanStep(t, r)  BY <1>1, PlanMoves DEF At
<1>3. task[t].account \in AccountIds /\ task[t].fresh \in BOOLEAN /\ (task[t].op # "otp" => task[t].with \in Tasks)
  <2>1. task[t] \in Approving \cup LoggingIn \cup Provisions  BY <1>1, AccPlaces DEF At
  <2>2. CASE task[t] \in Approving  BY <2>2 DEF Approving
  <2>3. CASE task[t] \in LoggingIn  BY <1>1, <2>3 DEF LoggingIn, At
  <2>4. CASE task[t] \in Provisions  BY <2>4 DEF Provisions
  <2> QED BY <2>1, <2>2, <2>3, <2>4
<1>4. /\ d \in [account : AccountIds \cup {Nobody}, trusted : BOOLEAN, by : AccountIds] /\ d.account = task[t].account
      /\ d.by = IF task[t].op = "otp" THEN t ELSE task[t].with
    BY <1>3 DEF AccountIds
<1> HIDE DEF d
<1>5. d # NoDevice  BY <1>3, <1>4, AccountsAssumption DEF NoDevice, AccountIds
<1>6. device'[t] = d /\ \A u \in Tasks \ {t} : device'[u] = device[u]  BY <1>1 DEF AccTypeOK
<1>7. AccTypeOK' /\ proof' \in [Tasks -> ProofRows] /\ failures' \in Nat
    BY <1>1, <1>4 DEF AccTyped, AccTypeOK
<1>8. AddedBy(t, r)'  BY <1>2, <1>4, <1>6 DEF PlanStep, AddedBy, New
<1>9. /\ Presents(r) => Presents(task[t]) /\ r.with = task[t].with
      /\ Presents(r) /\ ~YetToDrop(r) => proof'[r.with] = NoProof
    BY <1>1, <1>2 DEF PlanStep, Presents, DroppedInv, At
<1>10. ~HandedOut(task[t])  BY <1>2 DEF PlanStep, HandedOut, Beginning
<1>11. Knows(r) => r.value \in moved \/ owner[r.value] = r.account  BY <1>2 DEF PlanStep, OwnerInv
<1>12. r \in AccTasks /\ task' = [task EXCEPT ![t] = r] /\ ~Rereads(r)  BY <1>2 DEF PlanStep
<1> QED BY <1>1, <1>3, <1>4, <1>5, <1>6, <1>7, <1>8, <1>9, <1>10, <1>11, <1>12, AccMove

LEMMA FindPhoneKeeps == ASSUME AccInv, NEW t \in Tasks, FindPhone(t) PROVE AccInv'
<1>1. PICK v \in Phones :
          Begins(t, [op |-> "otp", value |-> v, account |-> owner[v], fresh |-> FALSE,
                     at |-> IF owner[v] = Nobody THEN "create" ELSE "device"])
    BY DEF FindPhone
<1> DEFINE r == [op |-> "otp", value |-> v, account |-> owner[v], fresh |-> FALSE,
                 at |-> IF owner[v] = Nobody THEN "create" ELSE "device"]
<1>2. owner[v] \in AccountIds \cup {Nobody}  BY DEF AccInv, AccTyped, AccTypeOK, Values
<1>3. r \in LoggingIn /\ r.op = "otp" /\ r.at \in {"create", "device"} /\ r.value = v /\ r.account = owner[v]
    BY <1>2 DEF LoggingIn
<1> HIDE DEF r
<1>4. r \in AccTasks /\ ~Presents(r) /\ ~Housed(r) /\ ~Rereads(r)
    BY <1>3 DEF AccTasks, Presents, ProofKinds, Housed, Rereads
<1> QED BY <1>1, <1>3, <1>4, AccBegins DEF FindPhone, r

\* The account of a call that found none is the call's own.
LEMMA CreateAccountKeeps == ASSUME AccInv, NEW t \in Tasks, CreateAccount(t) PROVE AccInv'
<1>0. AccTyped /\ At(t, "create") /\ UNCHANGED <<failures, accVars>>  BY DEF AccInv, CreateAccount
<1> DEFINE r == [op |-> task[t].op, value |-> task[t].value, account |-> t, fresh |-> TRUE,
                 with |-> IF task[t].op = "otp" THEN t ELSE task[t].with, at |-> "claim"]
<1>1. task[t] \in LoggingIn \/ (task[t] \in Presenting /\ task[t].op \in {"magic", "register"})
    BY <1>0, AccPlaces
<1>2. task' = [task EXCEPT ![t] = r]  BY DEF CreateAccount
<1>3. /\ r \in Provisions /\ r.op = task[t].op /\ r.op \in {"otp", "magic", "register"} /\ r.at = "claim"
      /\ r.op # "otp" => r.with = task[t].with
  <2>1. CASE task[t] \in LoggingIn  BY <2>1 DEF LoggingIn, Provisions, AccountIds
  <2>2. CASE task[t] \in Presenting /\ task[t].op = "magic"
      BY <2>2 DEF Presenting, Provisions, AccountIds
  <2>3. CASE task[t] \in Presenting /\ task[t].op = "register"
      BY <2>3 DEF Presenting, Provisions, AccountIds
  <2> QED BY <1>1, <2>1, <2>2, <2>3
<1> HIDE DEF r
<1>4. r \in AccTasks /\ ~Housed(r) /\ ~Rereads(r) /\ ~Knows(r) /\ r.op # "begin"
    BY <1>3 DEF AccTasks, Housed, Rereads, Knows
<1>5. ~YetToDrop(task[t])  BY <1>0 DEF YetToDrop, At
<1>6. task[t] \notin {New, Failed}  BY <1>0 DEF At, New, Failed
<1> QED BY <1>0, <1>2, <1>3, <1>4, <1>5, <1>6, AccUnchanged, AccGoesOn DEF ProofKinds

\* The identifier is the account's, or stays another's: afterwards it has an owner.
LEMMA ClaimKeeps == ASSUME AccInv, NEW t \in Tasks, UpsertVerifiedIdentifier(t) PROVE AccInv'
<1> USE DEF AccInv
<1>0. AccTyped /\ AccTypeOK /\ At(t, "claim")
      /\ UNCHANGED <<failures, device, proof, companion, result, signedIn, published, moved, overlapped>>
    BY DEF AccTyped, UpsertVerifiedIdentifier
<1>1. task[t] \in Provisions \cup Mailing  BY <1>0, AccPlaces
<1>2. PICK v \in Values, a \in AccountIds : v = task[t].value /\ a = task[t].account
    BY <1>1 DEF Provisions, Mailing, Values
<1>3. owner' = [owner EXCEPT ![v] = IF owner[v] = Nobody THEN a ELSE owner[v]]
    BY <1>2 DEF UpsertVerifiedIdentifier, Claim
<1>4. /\ owner' \in [Values -> AccountIds \cup {Nobody}] /\ owner'[v] # Nobody
      /\ \A u \in Values : owner[u] # Nobody => owner'[u] = owner[u]
  <2>1. owner'[v] = IF owner[v] = Nobody THEN a ELSE owner[v]  BY <1>0, <1>3 DEF AccTypeOK
  <2>2. a # Nobody  BY AccountsAssumption DEF AccountIds
  <2> QED BY <1>0, <1>3, <2>1, <2>2 DEF AccTypeOK
<1>5. AccTypeOK' /\ proof' \in [Tasks -> ProofRows] /\ failures' \in Nat
    BY <1>0, <1>4 DEF AccTyped, AccTypeOK
<1> PICK p : p = IF task[t].op \in {"otp", "email"} THEN "reread" ELSE "device"  OBVIOUS
<1> PICK r : r = [task[t] EXCEPT !.at = p]  OBVIOUS
<1>6. task' = [task EXCEPT ![t] = r]  BY DEF UpsertVerifiedIdentifier, Goes
<1>7. /\ r \in Provisions \cup Mailing /\ r.op = task[t].op /\ r.op \in {"otp", "magic", "register", "email"}
      /\ r.at = p /\ r.value = v
      /\ r.op \in {"magic", "register"} => r.with = task[t].with
  <2>1. CASE task[t] \in Mailing  BY <1>2, <2>1 DEF Mailing
  <2>2. CASE task[t] \in Provisions /\ task[t].op = "otp"  BY <1>2, <2>2 DEF Provisions
  <2>3. CASE task[t] \in Provisions /\ task[t].op = "magic"  BY <1>2, <2>3 DEF Provisions
  <2>4. CASE task[t] \in Provisions /\ task[t].op = "register"  BY <1>2, <2>4 DEF Provisions
  <2>5. task[t] \in Provisions => task[t].op \in {"otp", "magic", "register"}  BY DEF Provisions
  <2> QED BY <1>1, <2>1, <2>2, <2>3, <2>4, <2>5
<1>8. r.at \in {"reread", "device"} /\ (r.at = "device" => r.op \in {"magic", "register"})  BY <1>7
<1>9. task[t] \notin {New, Failed}  BY <1>0 DEF At, New, Failed
<1>10. r \in AccTasks /\ ~Housed(r) /\ ~Knows(r) /\ r \notin {New, Failed}
    BY <1>7, <1>8 DEF AccTasks, Housed, Knows, New, Failed
<1>11. Presents(r) => Presents(task[t]) /\ r.with = task[t].with /\ ~YetToDrop(task[t])
    BY <1>0, <1>7, <1>9 DEF Presents, ProofKinds, YetToDrop, At
<1>12. Presents(r) /\ ~YetToDrop(r) => proof'[r.with] = NoProof  BY <1>0, <1>11 DEF DroppedInv
<1>13. ~HandedOut(task[t])  BY <1>7, <1>9 DEF HandedOut, Beginning
<1>14. device[t] # NoDevice => device[t].account \in AccountIds /\ AddedBy(t, r)'
  <2>1. device'[t].by = device[t].by /\ r # New  BY <1>0, <1>10
  <2>2. AddedBy(t, task[t]) => device[t].by = IF r.op = "otp" THEN t ELSE r.with
      BY <1>7, <1>9 DEF AddedBy
  <2>3. AddedBy(t, task[t]) => r.op \in {"otp", "magic", "register"}  BY <1>7, <1>9 DEF AddedBy
  <2>4. AddedBy(t, task[t]) => AddedBy(t, r)'  BY <2>1, <2>2, <2>3 DEF AddedBy
  <2> QED BY <2>4 DEF HousedInv
<1>15. t \in signedIn => device[t] # NoDevice  BY DEF HousedInv
<1>16. Rereads(r) => r.value \in moved' \/ owner'[r.value] # Nobody  BY <1>4, <1>7
<1>17. /\ \A s \in Tasks : proof'[s] = proof[s]
       /\ moved \subseteq moved' /\ \A u \in Tasks \ {t} : device'[u] = device[u]
       /\ signedIn' = signedIn /\ device'[t] = device[t] /\ overlapped' = overlapped
    BY <1>0
<1> QED BY <1>17, <1>16, <1>4, <1>5, <1>6, <1>7, <1>10, <1>11, <1>12, <1>13, <1>14, <1>15, AccMove

\* Whoever has the identifier is the account of the login.
LEMMA RereadKeeps == ASSUME AccInv, NEW t \in Tasks, Reread(t) PROVE AccInv'
<1>0. AccTyped /\ AccTypeOK /\ At(t, "reread") /\ task[t].op = "otp" /\ UNCHANGED <<failures, accVars>>
    BY DEF AccInv, AccTyped, Reread
<1>1. task[t] \in Provisions  BY <1>0, AccPlaces DEF Mailing
<1>2. PICK v \in Phones : v = task[t].value  BY <1>0, <1>1 DEF Provisions
<1>3. Winner(t) \in AccountIds /\ (owner[v] # Nobody => Winner(t) = owner[v])
    BY <1>0, <1>1, <1>2 DEF Winner, Provisions, AccTypeOK, Values
<1> DEFINE r == [task[t] EXCEPT !.account = Winner(t), !.fresh = (Winner(t) = t), !.at = "device"]
<1>4. task' = [task EXCEPT ![t] = r]  BY DEF Reread
<1>5. r \in Provisions /\ r.op = "otp" /\ r.at = "device" /\ r.value = v /\ r.account = Winner(t)
    BY <1>0, <1>1, <1>2, <1>3 DEF Provisions
<1> HIDE DEF r
<1>6. r \in AccTasks /\ ~Housed(r) /\ ~Rereads(r) /\ ~Presents(r)
    BY <1>5 DEF AccTasks, Housed, Rereads, Presents, ProofKinds
<1>7. v \in moved \/ owner[v] = Winner(t)  BY <1>0, <1>2, <1>3 DEF AccInv, OwnerInv, Rereads, At
<1>8. task[t] \notin {New, Failed}  BY <1>0 DEF At, New, Failed
<1> QED BY <1>0, <1>4, <1>5, <1>6, <1>7, <1>8, AccUnchanged, AccGoesOn DEF ProofKinds

----------------------------------------------------------------------------
(* setEmail, and the fetch of a result                                     *)

LEMMA FindEmailKeeps == ASSUME AccInv, NEW t \in Tasks, FindEmail(t) PROVE AccInv'
<1>1. PICK v \in Emails, a \in {Elder} \cup signedIn :
          LET me == IF a = Elder THEN Elder ELSE device[a].account IN
          /\ owner[v] \in {Nobody, me}
          /\ Begins(t, [op |-> "email", value |-> v, account |-> me,
                        at |-> IF owner[v] = me THEN "over" ELSE "claim"])
    BY DEF FindEmail
<1> DEFINE me == IF a = Elder THEN Elder ELSE device[a].account
           r == [op |-> "email", value |-> v, account |-> me, at |-> IF owner[v] = me THEN "over" ELSE "claim"]
<1>2. me \in AccountIds
  <2>1. a \in signedIn => device[a].account \in AccountIds
      BY DEF AccInv, HousedInv, AccTyped, AccTypeOK
  <2> QED BY <2>1 DEF AccountIds
<1>3. r \in Mailing /\ r.op = "email" /\ r.at \in {"claim", "over"} /\ r.value = v /\ r.account = me
      /\ (r.at = "over" => owner[v] = me)
    BY <1>2 DEF Mailing
<1>4. Begins(t, r)  BY <1>1
<1> HIDE DEF r
<1>5. r \in AccTasks /\ ~Presents(r) /\ ~Housed(r) /\ ~Rereads(r) /\ (Knows(r) => owner[r.value] = r.account)
    BY <1>3 DEF AccTasks, Presents, ProofKinds, Housed, Rereads, Knows
<1> QED BY <1>4, <1>5, AccBegins DEF FindEmail

\* A step of setEmail after the claim.
LEMMA MailingMoves ==
    ASSUME AccInv, NEW t \in Tasks, NEW p \in {"notify", "failed", "over"}, task[t] \in Mailing, Goes(t, p),
           AccTypeOK', failures' = failures, UNCHANGED <<owner, device, proof, signedIn, moved, overlapped>>,
           p \in {"notify", "over"} => task[t].value \in moved \/ owner[task[t].value] = task[t].account
    PROVE  AccInv'
<1> DEFINE r == [task[t] EXCEPT !.at = p]
<1>1. /\ r \in Mailing /\ r.op = "email" /\ task[t].op = "email" /\ r.at = p
      /\ r.value = task[t].value /\ r.account = task[t].account
    BY DEF Mailing
<1>2. task' = [task EXCEPT ![t] = r] /\ proof' \in [Tasks -> ProofRows] /\ failures' \in Nat
    BY DEF Goes, AccInv, AccTyped
<1> HIDE DEF r
<1>3. r \in AccTasks /\ ~Presents(r) /\ ~Housed(r) /\ ~Rereads(r) /\ (Knows(r) => p \in {"notify", "over"})
    BY <1>1 DEF AccTasks, Presents, ProofKinds, Housed, Rereads, Knows
<1>4. task[t] \notin {New, Failed}
  <2>1. New \notin Mailing /\ Failed \notin Mailing  BY DEF New, Failed, Mailing
  <2> QED BY <2>1
<1> QED BY <1>1, <1>2, <1>3, <1>4, AccGoesOn DEF ProofKinds

LEMMA RereadEmailKeeps == ASSUME AccInv, NEW t \in Tasks, RereadEmail(t) PROVE AccInv'
<1>0. AccTyped /\ At(t, "reread") /\ task[t].op = "email" /\ UNCHANGED <<failures, accVars>>
    BY DEF AccInv, RereadEmail
<1>1. task[t] \in Mailing  BY <1>0, AccPlaces
<1>2. task[t].value \in moved \/ owner[task[t].value] = Winner(t)
    BY <1>0 DEF AccInv, OwnerInv, Rereads, At, Winner
<1>3. CASE Winner(t) = task[t].account
  <2>1. Goes(t, "notify")  BY <1>3 DEF RereadEmail
  <2> QED BY <1>0, <1>1, <1>2, <1>3, <2>1, AccUnchanged, MailingMoves
<1>4. CASE Winner(t) # task[t].account
  <2>1. Goes(t, "failed")  BY <1>4 DEF RereadEmail
  <2> QED BY <1>0, <1>1, <2>1, AccUnchanged, MailingMoves
<1> QED BY <1>3, <1>4

LEMMA NotifyEmailKeeps == ASSUME AccInv, NEW t \in Tasks, NotifyEmail(t) PROVE AccInv'
<1>0. AccTyped /\ AccTypeOK /\ At(t, "notify") /\ Goes(t, "over")
      /\ UNCHANGED <<failures, owner, device, proof, companion, result, signedIn, moved, overlapped>>
    BY DEF AccInv, AccTyped, NotifyEmail
<1>1. task[t] \in Mailing  BY <1>0, AccPlaces
<1>2. Knows(task[t])  BY <1>0, <1>1 DEF Knows, Mailing, At
<1>3. task[t].value \in moved \/ owner[task[t].value] = task[t].account
    BY <1>2 DEF AccInv, OwnerInv
<1> QED BY <1>0, <1>1, <1>3, AccKeepsTypes, MailingMoves

LEMMA GetSessionKeeps == ASSUME AccInv, NEW t \in Tasks, GetSession(t) PROVE AccInv'
<1>1. PICK s \in result : Begins(t, [op |-> "fetch", with |-> s, at |-> "fetched"])
    BY DEF GetSession
<1> DEFINE r == [op |-> "fetch", with |-> s, at |-> "fetched"]
<1>2. s \in Tasks  BY DEF AccInv, AccTyped, AccTypeOK
<1>3. r \in Fetching /\ r.op = "fetch" /\ r.at = "fetched"  BY <1>2 DEF Fetching
<1> HIDE DEF r
<1>4. r \in AccTasks /\ ~Presents(r) /\ ~Housed(r) /\ ~Rereads(r) /\ ~Knows(r)
    BY <1>3 DEF AccTasks, Presents, ProofKinds, Housed, Rereads, Knows
<1> QED BY <1>1, <1>4, AccBegins DEF GetSession, r

LEMMA DropResultKeeps == ASSUME AccInv, NEW t \in Tasks, DropResult(t) PROVE AccInv'
<1>0. AccTyped /\ AccTypeOK /\ At(t, "fetched") /\ result' = result \ {task[t].with}
      /\ UNCHANGED <<failures, owner, device, proof, companion, signedIn, published, moved, overlapped>>
    BY DEF AccInv, AccTyped, DropResult
<1>1. task[t] \in Fetching  BY <1>0, AccPlaces
<1> DEFINE r == [task[t] EXCEPT !.at = "over"]
<1>2. task' = [task EXCEPT ![t] = r]  BY DEF DropResult, Goes
<1>3. r \in Fetching /\ r.op = "fetch" /\ task[t].op = "fetch" /\ r.at = "over"
    BY <1>1 DEF Fetching
<1> HIDE DEF r
<1>4. r \in AccTasks /\ ~Presents(r) /\ ~Housed(r) /\ ~Rereads(r) /\ ~Knows(r)
    BY <1>3 DEF AccTasks, Presents, ProofKinds, Housed, Rereads, Knows
<1>5. AccTypeOK' /\ failures' \in Nat /\ proof' \in [Tasks -> ProofRows]
    BY <1>0 DEF AccTyped, AccTypeOK
<1>6. task[t] \notin {New, Failed}  BY <1>0 DEF At, New, Failed
<1> QED BY <1>0, <1>2, <1>3, <1>4, <1>5, <1>6, AccGoesOn DEF ProofKinds

LEMMA AccFailKeeps == ASSUME AccInv, NEW t \in Tasks, Fails(t), UNCHANGED accVars PROVE AccInv'
<1>1. task' = [task EXCEPT ![t] = Failed] /\ Failed \in AccTasks /\ failures' \in Nat
    BY DEF Fails, AccTasks, AccInv, AccTyped
<1>2. AccTypeOK' /\ proof' \in [Tasks -> ProofRows] /\ UNCHANGED <<owner, device, proof, signedIn, moved, overlapped>>
    BY AccKeepsTypes DEF AccInv, AccTyped, accVars
<1> QED BY <1>1, <1>2, AccGoesOn

----------------------------------------------------------------------------
(* Accounts: the invariant                                                 *)

LEMMA AccInvInit == ASSUME TasksInit, AccInit PROVE AccInv
<1>1. task \in [Tasks -> AccTasks] /\ (\A t \in Tasks : task[t] = New) /\ failures \in Nat
    BY DEF TasksInit, AccTasks
<1>2. /\ \A t \in Tasks : proof[t] = NoProof /\ device[t] = NoDevice
      /\ signedIn = {} /\ moved = {} /\ overlapped = {} /\ companion = {} /\ result = {}
    BY DEF AccInit
<1>3. proof \in [Tasks -> ProofRows]  BY DEF AccInit, ProofRows
<1>4. AccTypeOK
  <2>1. owner \in [Values -> AccountIds \cup {Nobody}]  BY DEF AccInit, AccountIds
  <2>2. device \in [Tasks -> [account : AccountIds \cup {Nobody}, trusted : BOOLEAN, by : AccountIds]]
      BY DEF AccInit, NoDevice, AccountIds
  <2> QED BY <1>2, <1>3, <2>1, <2>2, ProofTypes DEF AccTypeOK
<1>5. ~Presents(New) /\ ~Rereads(New) /\ ~Knows(New) /\ ~Housed(New)
    BY DEF Presents, Rereads, Knows, Housed, New
<1> QED BY <1>1, <1>2, <1>3, <1>4, <1>5 DEF AccInv, AccTyped, ProofInv, DroppedInv, RivalsInv, OwnerInv, HousedInv

LEMMA AccInvNext == ASSUME AccInv, AccNext PROVE AccInv'
    BY ProofExpiresKeeps, StartKeeps, MagicLinkKeeps, RequestLinkKeeps, ReadProofKeeps, PutCompanionKeeps, ConsumeProofKeeps,
       ReadCompanionKeeps, CheckNumberKeeps, RepointKeeps, FinishChangeKeeps, FindPhoneKeeps, CreateAccountKeeps, ClaimKeeps,
       RereadKeeps, AddDeviceKeeps, AnnounceKeeps, MintTokensKeeps, PutResultKeeps, UnlinkKeeps, FindEmailKeeps,
       RereadEmailKeeps, NotifyEmailKeeps, GetSessionKeeps, DropResultKeeps, AccFailKeeps
    DEF AccNext, AccRequests, LinkRequests

LEMMA AccInvStays == ASSUME AccInv, UNCHANGED <<taskVars, accVars>> PROVE AccInv'
    BY DEF taskVars, accVars, AccInv, AccTyped, AccTypeOK, ProofInv, DroppedInv, RivalsInv, OwnerInv, HousedInv, AddedBy

\* An answered call knows the owner; two devices of one proof were added by two calls that presented it.
LEMMA AccInvHolds == ASSUME AccInv PROVE ProofsReachTheOwner
<1> USE DEF AccInv
<1>1. LoginsReachTheOwner  BY DEF LoginsReachTheOwner, OwnerInv, Knows, Over
<1>2. ProvesTwiceOnlyByRace
  <2> SUFFICES ASSUME NEW t \in Tasks, NEW u \in Tasks,
                      t # u, device[t] # NoDevice, device[u] # NoDevice, device[t].by = device[u].by,
                      task[t] # Failed, task[u] # Failed
               PROVE  {t, u} \cap overlapped # {}
      BY DEF ProvesTwiceOnlyByRace
  <2>1. /\ task[t] # New /\ task[t].op \in {"otp", "magic", "register", "link"}
        /\ device[t].by = IF task[t].op = "otp" THEN t ELSE task[t].with
        /\ task[u] # New /\ task[u].op \in {"otp", "magic", "register", "link"}
        /\ device[u].by = IF task[u].op = "otp" THEN u ELSE task[u].with
      BY DEF HousedInv, AddedBy
  <2>2. \A x \in {t, u} : task[x].op # "otp" => Presents(task[x])  BY <2>1 DEF Presents, ProofKinds
  <2>3. \A x \in {t, u} : ~HandedOut(task[x])  BY <2>1 DEF HandedOut, Beginning
  <2>4. \A x, y \in {t, u} : task[x].op = "otp" /\ task[y].op # "otp" => task[y].with # x
      BY <2>2, <2>3 DEF ProofInv
  <2>5. task[t].op # "otp" /\ task[u].op # "otp"
    <3>1. task[t].op = "otp" => task[u].op # "otp"  BY <2>1
    <3>2. task[t].op = "otp" /\ task[u].op # "otp" => task[u].with # t  BY <2>4
    <3>3. task[u].op = "otp" /\ task[t].op # "otp" => task[t].with # u  BY <2>4
    <3> QED BY <2>1, <3>1, <3>2, <3>3
  <2>6. Presents(task[t]) /\ Presents(task[u]) /\ task[t].with = task[u].with  BY <2>1, <2>2, <2>5
  <2> QED BY <2>6 DEF RivalsInv
<1> QED BY <1>1, <1>2 DEF ProofsReachTheOwner

----------------------------------------------------------------------------
(* One part at a time                                                      *)

accountVars == <<taskVars, accVars, pkVars>>

AccPart == AccNext /\ UNCHANGED pkVars
PkPart  == PkNext /\ UNCHANGED accVars

AccountInit == TasksInit /\ AccInit /\ PkInit
AccountSpec == AccountInit /\ ([][AccPart]_accountVars \/ [][PkPart]_accountVars)

AccountTypeOK == AccTypeOK /\ PkTypeOK

\* What holds of the passkey while accounts are made, and of accounts while the passkey is used.
AccAtRest == AccTypeOK /\ \A t \in Tasks : device[t] = NoDevice
PkAtRest  == PkTypeOK /\ fellBack = {}

LEMMA AccountsInParts ==
    AccountSpec => [](\/ AccInv /\ PkAtRest
                      \/ PkInv /\ AccAtRest)
<1> DEFINE AccRuns == AccInv /\ PkAtRest
           PkRuns  == PkInv /\ AccAtRest
<1>1. AccountInit => AccRuns /\ PkRuns
  <2>1. AccountInit => AccInv /\ PkInv  BY AccInvInit, PkInvInit DEF AccountInit
  <2>2. AccInv /\ PkInv => AccTypeOK /\ PkTypeOK  BY DEF AccInv, AccTyped, PkInv, PkTyped
  <2>3. AccountInit => fellBack = {} /\ \A t \in Tasks : device[t] = NoDevice
      BY DEF AccountInit, AccInit, PkInit
  <2> QED BY <2>1, <2>2, <2>3 DEF AccAtRest, PkAtRest
<1>2. AccRuns /\ [AccPart]_accountVars => AccRuns'
  <2> SUFFICES ASSUME AccRuns, [AccPart]_accountVars PROVE AccRuns'  OBVIOUS
  <2>1. UNCHANGED pkVars /\ (AccNext \/ UNCHANGED <<taskVars, accVars>>)
      BY DEF AccPart, accountVars
  <2>2. AccInv'  BY <2>1, AccInvNext, AccInvStays
  <2> QED BY <2>1, <2>2 DEF PkAtRest, PkTypeOK, pkVars
<1>3. PkRuns /\ [PkPart]_accountVars => PkRuns'
  <2> SUFFICES ASSUME PkRuns, [PkPart]_accountVars PROVE PkRuns'  OBVIOUS
  <2>1. UNCHANGED accVars /\ (PkNext \/ UNCHANGED <<taskVars, pkVars>>)  BY DEF PkPart, accountVars
  <2>2. PkInv'  BY <2>1, PkInvNext, PkInvStays
  <2> QED BY <2>1, <2>2 DEF AccAtRest, AccTypeOK, accVars
<1>4. AccountInit /\ [][AccPart]_accountVars => []AccRuns  BY <1>1, <1>2, PTL
<1>5. AccountInit /\ [][PkPart]_accountVars => []PkRuns  BY <1>1, <1>3, PTL
<1> QED BY <1>4, <1>5, PTL DEF AccountSpec

\* Identifiers, devices, proofs, challenges and counts keep their types whatever calls meet.  About AuthService
\* and PasskeyService over AuthRepository and Redis.
THEOREM AccountsTypeCorrect == AccountSpec => []AccountTypeOK
<1>1. (AccInv /\ PkAtRest) \/ (PkInv /\ AccAtRest) => AccountTypeOK
    BY DEF AccInv, AccTyped, PkInv, PkTyped, AccAtRest, PkAtRest, AccountTypeOK
<1> QED BY <1>1, AccountsInParts, PTL

\* For any identifiers, accounts, calls and failures: an answered login by OTP and an answered setEmail are for
\* the account the identifier leads to, unless a number change moved it; two devices come of one proof, and two
\* logins of one challenge, only when the calls overlapped or one failed; and the passkey's count falls back only
\* under a login that had read an older one.  About verifyOtp, setEmail, consume, markApproved (auth.service.ts,
\* magic-link.service.ts) and passkeyAuthVerify.
THEOREM ProofsStayBound == AccountSpec => []ProofsHold
<1>1. AccInv /\ PkAtRest => ProofsHold
  <2> SUFFICES ASSUME AccInv, PkAtRest PROVE ProofsHold  OBVIOUS
  <2>1. ProofsReachTheOwner  BY AccInvHolds
  <2>2. \A t \in Tasks : ~Over(t, "auth")
    <3>1. \A t \in Tasks : task[t] \in AccTasks  BY DEF AccInv, AccTyped
    <3>2. New.at # "over" /\ Failed.at # "over"  BY DEF New, Failed
    <3> QED BY <3>1, <3>2, AccKinds DEF Over
  <2>3. PasskeyRacesOnly  BY <2>2 DEF PkAtRest, PasskeyRacesOnly
  <2> QED BY <2>1, <2>3 DEF ProofsHold
<1>2. PkInv /\ AccAtRest => ProofsHold
  <2> SUFFICES ASSUME PkInv, AccAtRest PROVE ProofsHold  OBVIOUS
  <2>1. PasskeyRacesOnly  BY PkInvHolds
  <2>2. \A t \in Tasks : ~Over(t, "otp") /\ ~Over(t, "email")
    <3>1. \A t \in Tasks : task[t] \in PkTasks  BY DEF PkInv, PkTyped
    <3> QED BY <3>1 DEF PkTasks, Over, New, Failed
  <2>3. LoginsReachTheOwner /\ ProvesTwiceOnlyByRace
      BY <2>2 DEF LoginsReachTheOwner, ProvesTwiceOnlyByRace, AccAtRest
  <2> QED BY <2>1, <2>3 DEF ProofsHold, ProofsReachTheOwner
<1> QED BY <1>1, <1>2, AccountsInParts, PTL

============================================================================
