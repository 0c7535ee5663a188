------------------------------- MODULE Deployment -------------------------------
(***************************************************************************)
(* One process of the backend: the features its groups mount on what its    *)
(* configuration builds, the bootstrap that connects, registers, starts the *)
(* bus and the workers, the sockets wired afterwards, the drain; and the    *)
(* table by which the edge gateway finds the process of a path.             *)
(*                                                                         *)
(* The configuration is given by the stores it has an address of.  The      *)
(* text-search provider is Mongo.  A store that is not reachable at boot    *)
(* only delays it; a command that rejects in a start of the bus ends it.    *)
(***************************************************************************)
EXTENDS Tasks, Sequences

CONSTANT Configs      \* sets of the stores that are given

VARIABLES
    profile,    \* the group the process is, or "mono"
    bus,        \* EVENT_BUS
    given,
    phase,
    waited,     \* the resources whose connect the bootstrap waits for
    slow,       \* those it gave up on, whose connect goes on
    subscribed, \* the consumer groups that have subscribed
    exists,     \* those the broker knows, this process's or an earlier one's
    readers,    \* how many readers of each run
    starting,   \* the two calls of start(): the pipeline's and main's
    todo,       \* the groups each still has to open
    working,    \* the workers that run
    shut,       \* the resources the drain has closed
    slipped     \* groups that will never see an event of a request this process served

depVars == <<profile, bus, given, phase, waited, slow, subscribed, exists, readers, starting, todo,
             working, shut, slipped>>

----------------------------------------------------------------------------
(* Composition: what each group needs, and each of its features             *)

Stores == {"postgres", "mongo", "valkey", "storage"}

Need == [identity  |-> {"postgres", "valkey", "eventBus"},
         messaging |-> {"mongo", "postgres", "valkey", "eventBus", "search"},
         realtime  |-> {"valkey", "eventBus"},
         content   |-> {"postgres", "storage", "valkey", "eventBus"},
         platform  |-> {"postgres", "valkey", "mongo", "eventBus"}]

\* Names for the conditions of the mounts.
Rows  == {"postgres", "eventBus"}
Docs_ == {"mongo", "valkey", "eventBus"}

IdentityFeatures ==
    [f \in {"tenancy", "directory", "admin", "channels", "auth", "oprf"} |->
        CASE f = "auth" -> Rows \cup {"valkey"}
          [] f = "oprf" -> {"postgres", "valkey"}
          [] OTHER      -> Rows]

MessagingFeatures ==
    [f \in {"chat", "polls", "resend", "extras", "notifications", "campaigns", "search"} |->
        CASE f \in {"notifications", "campaigns"} -> Rows \cup {"valkey"}
          [] f = "search"                         -> {"eventBus", "search"}
          [] OTHER                                -> Docs_]

RealtimeFeatures == [presence |-> {"valkey", "eventBus"}]

ContentFeatures == [media |-> Rows \cup {"storage"}, backups |-> {"postgres", "storage"}, status |-> Rows]

PlatformFeatures ==
    [f \in {"calls", "screen-control", "automation", "lists", "collab", "flags", "translate", "captions"} |->
        CASE f = "flags"     -> Docs_
          [] f = "translate" -> {"postgres", "valkey"}
          [] f = "captions"  -> {"eventBus"}
          [] OTHER           -> Rows]

FeaturesOf == [identity  |-> IdentityFeatures, messaging |-> MessagingFeatures,
               realtime  |-> RealtimeFeatures, content   |-> ContentFeatures,
               platform  |-> PlatformFeatures]

GroupsOf(p) == IF p = "mono" THEN DOMAIN Need ELSE {p}

Configured(k) ==
    CASE k \in Stores   -> k \in given
      [] k = "eventBus" -> bus = "kafka" \/ "valkey" \in given
      [] k = "search"   -> "mongo" \in given

\* Only what is needed is built, and only what is configured.
Built == {k \in UNION {Need[g] : g \in GroupsOf(profile)} : Configured(k)}

Mounted == UNION {{f \in DOMAIN FeaturesOf[g] : FeaturesOf[g][f] \subseteq Built} : g \in GroupsOf(profile)}

\* What the mounted features contribute besides their routes.
ConsumerOf == [chat |-> "chat-receipts", notifications |-> "notification", search |-> "search-indexer"]
Consumers  == {ConsumerOf[f] : f \in Mounted \cap DOMAIN ConsumerOf}
Workers    == Mounted \cap {"notifications", "campaigns", "status", "automation", "flags"}
Indexed    == Mounted \cap {"chat", "flags"}

FanOut     == "realtime-fanout"
HasSockets == profile \in {"realtime", "mono"} /\ {"valkey", "eventBus"} \subseteq Built

\* In the order they are managed, which is the order they are closed in.
Order   == <<"postgres", "mongo", "valkey", "eventBus", "indexes", "pipeline">>
Managed == (Built \cap {Order[i] : i \in DOMAIN Order}) \cup {r \in {"indexes"} : Indexed # {}}
                                     \cup {r \in {"pipeline"} : "eventBus" \in Built}

----------------------------------------------------------------------------
(* The edge gateway: rules in order, the first that matches                 *)

AnyId        == {}
Prefix(at) == [at |-> at, exact |-> FALSE]
Exact(at)  == [at |-> at, exact |-> TRUE]

ROUTES == <<
    [rule |-> Prefix(<<{"auth", ".well-known"}>>),                               service |-> "AUTH"],
    [rule |-> Exact(<<{"users"}, AnyId, {"conversations"}>>),                      service |-> "GROUP_CHANNEL"],
    [rule |-> Prefix(<<{"users"}, AnyId, {"stars", "conversations"}>>),            service |-> "CHAT"],
    [rule |-> Prefix(<<{"users", "orgs", "workspaces", "teams", "memberships", "authorize", "admin",
                        "discovery"}>>),                                         service |-> "USER"],
    [rule |-> Prefix(<<{"conversations"}, {"dm"}>>),                             service |-> "GROUP_CHANNEL"],
    [rule |-> Prefix(<<{"conversations"}, AnyId, {"members", "notif"}>>),          service |-> "GROUP_CHANNEL"],
    [rule |-> Exact(<<{"conversations"}, AnyId>>),                                 service |-> "GROUP_CHANNEL"],
    [rule |-> Prefix(<<{"conversations", "chat", "polls", "messages"}>>),        service |-> "CHAT"],
    [rule |-> Prefix(<<{"groups", "channels", "communities", "broadcasts"}>>),   service |-> "GROUP_CHANNEL"],
    [rule |-> Prefix(<<{"presence"}>>),                                          service |-> "PRESENCE"],
    [rule |-> Prefix(<<{"status"}>>),                                            service |-> "STATUS"],
    [rule |-> Prefix(<<{"notifications", "mail"}>>),                             service |-> "NOTIFICATION"],
    [rule |-> Prefix(<<{"media", "backups"}>>),                                  service |-> "MEDIA"],
    [rule |-> Prefix(<<{"search"}>>),                                            service |-> "SEARCH"],
    [rule |-> Prefix(<<{"calls", "meetings"}>>),                                 service |-> "CALL"],
    [rule |-> Prefix(<<{"automation", "lists", "clips", "canvas", "feature-flags"}>>), service |-> "AUTOMATION"],
    [rule |-> Prefix(<<{"ai"}>>),                                                service |-> "AI"]>>

Matches(path, rule) ==
    /\ IF rule.exact THEN Len(path) = Len(rule.at) ELSE Len(path) >= Len(rule.at)
    /\ \A i \in DOMAIN rule.at : i \in DOMAIN path /\ (rule.at[i] = AnyId \/ path[i] \in rule.at[i])

\* The places of the rules that match.
Hits(path) == {i \in DOMAIN ROUTES : Matches(path, ROUTES[i].rule)}

FirstHit(path) == CHOOSE i \in Hits(path) : \A j \in Hits(path) : i <= j

AXIS6 == [AUTH |-> "identity", USER |-> "identity", GROUP_CHANNEL |-> "identity",
          CHAT |-> "messaging", NOTIFICATION |-> "messaging", SEARCH |-> "messaging",
          PRESENCE |-> "realtime", MEDIA |-> "content", STATUS |-> "content",
          CALL |-> "platform", AUTOMATION |-> "platform", AI |-> "platform"]

\* The process of a path when nothing is peeled out of its group by an upstream of its own.
Upstream(path) == AXIS6[ROUTES[FirstHit(path)].service]

\* The paths of the controllers, up to the segments the rules look at; "id" is any value.
Paths == [
    auth |-> {<<"auth", "register">>, <<".well-known", "jwks.json">>},
    channels |-> {<<"conversations", "dm">>, <<"users", "me", "conversations">>, <<"users", "id", "conversations">>,
                  <<"groups">>, <<"channels">>, <<"channels", "id", "join">>, <<"communities", "id", "channels">>,
                  <<"conversations", "id">>, <<"conversations", "id", "notif">>,
                  <<"conversations", "id", "members">>, <<"conversations", "id", "members", "id", "role">>},
    tenancy |-> {<<"orgs">>, <<"workspaces">>, <<"teams">>, <<"memberships">>, <<"authorize">>,
                 <<"orgs", "id", "members">>, <<"teams", "id", "members", "id">>},
    directory |-> {<<"users", "id", "profile">>, <<"users", "id", "contacts">>,
                   <<"users", "id", "contacts", "id", "block">>, <<"directory", "hash">>, <<"contacts", "discover">>},
    admin |-> {<<"admin", "orgs", "id", "audit">>}, oprf |-> {<<"discovery", "oprf", "key">>},
    chat |-> {<<"chat", "messages">>, <<"chat", "conversations", "id", "messages">>},
    polls |-> {<<"polls", "id", "vote">>}, resend |-> {<<"messages", "id", "resend-request">>},
    extras |-> {<<"conversations", "id", "pins", "id">>, <<"users", "id", "stars">>,
                <<"users", "id", "conversations", "id", "mute">>, <<"users", "id", "conversations", "archived">>},
    notifications |-> {<<"notifications", "prefs">>}, campaigns |-> {<<"mail", "campaigns">>},
    search |-> {<<"search">>}, presence |-> {<<"presence", "online">>}, media |-> {<<"media", "uploads">>},
    backups |-> {<<"backups", "id">>}, status |-> {<<"status">>}, calls |-> {<<"calls">>, <<"meetings">>},
    automation |-> {<<"automation", "bots">>}, lists |-> {<<"lists">>},
    collab |-> {<<"clips">>, <<"canvas", "id">>}, flags |-> {<<"feature-flags", "evaluate">>},
    translate |-> {<<"ai", "translate">>}, captions |-> {<<"ai", "call", "caption">>}]

----------------------------------------------------------------------------
(* Boot                                                                    *)

Starters == {"pipeline", "main"}
Registered == <<"chat-receipts", "notification", "search-indexer", FanOut>>     \* in the order they are
AllGroups  == {Registered[i] : i \in DOMAIN Registered}

DepTypeOK ==
    /\ profile \in DOMAIN Need \cup {"mono"}
    /\ bus \in {"redis-streams", "kafka", "memory"}
    /\ given \in Configs
    /\ phase \in {"booting", "listening", "serving", "closing", "exited"}
    /\ waited \subseteq Managed /\ slow \subseteq Managed /\ shut \subseteq Managed
    /\ subscribed \subseteq AllGroups /\ exists \subseteq AllGroups /\ slipped \subseteq AllGroups
    /\ readers \in [AllGroups -> 0..2]
    /\ starting \in [Starters -> {"no", "opening", "over", "failed", "cut"}]
    /\ todo \in [Starters -> SUBSET AllGroups]
    /\ working \subseteq Workers

\* Mutant: a start opens every subscription anew.
AllOf(subs) == subs

\* What a start opens: with Redis the groups nothing reads yet, with Kafka all that subscribed, while
\* in memory a subscription needs no reader.
Pending(subs) ==
    CASE bus = "redis-streams" -> {g \in subs : readers[g] = 0}
      [] bus = "kafka"         -> subs
      [] bus = "memory"        -> {}

\* Every connect is called at once; the pipeline's registers the consumers and calls start().
DepInit ==
    /\ profile \in DOMAIN Need \cup {"mono"}
    /\ bus \in {"redis-streams", "kafka"} \cup {b \in {"memory"} : profile = "mono"}
    /\ given \in Configs
    /\ phase = "booting"
    /\ waited = Managed /\ slow = {} /\ shut = {}
    /\ exists \in {{}, AllGroups}
    /\ readers = [g \in AllGroups |-> 0]
    /\ subscribed = Consumers
    /\ starting = [s \in Starters |-> IF s \in Managed THEN "opening" ELSE "no"]
    /\ todo = [s \in Starters |-> IF s \in Managed THEN Pending(Consumers) ELSE {}]
    /\ working = {} /\ slipped = {}

\* A store connects or refuses to, which is logged.
Settles(r) ==
    /\ r \in waited \ {"pipeline"}
    /\ waited' = waited \ {r}
    /\ UNCHANGED <<taskVars, profile, bus, given, phase, slow, subscribed, exists, readers, starting, todo,
                   working, shut, slipped>>

Fault == failures < MaxFailures /\ failures' = failures + 1 /\ UNCHANGED task

\* BOOT_CONNECT_TIMEOUT_MS: the boot goes on, and so does the connect.
TimesOut(r) ==
    /\ r \in waited
    /\ Fault
    /\ waited' = waited \ {r}
    /\ slow' = slow \cup {r}
    /\ UNCHANGED <<profile, bus, given, phase, subscribed, exists, readers, starting, todo, working, shut, slipped>>

\* XGROUP CREATE and a reader of its own, or a Kafka consumer that runs.
OpenReader(s, g) ==
    /\ g \in todo[s] /\ starting[s] \in {"opening", "cut"} /\ phase # "exited" /\ "eventBus" \notin shut
    /\ \A i, j \in DOMAIN Registered : Registered[i] = g /\ j < i => Registered[j] \notin todo[s]
    /\ todo' = [todo EXCEPT ![s] = @ \ {g}]
    /\ exists' = exists \cup {g}
    /\ readers' = [readers EXCEPT ![g] = @ + 1]
    /\ UNCHANGED <<taskVars, profile, bus, given, phase, waited, slow, subscribed, starting, working, shut, slipped>>

\* The start is over: the pipeline goes on to start the workers.
StartEnds(s) ==
    /\ todo[s] = {} /\ starting[s] \in {"opening", "cut"} /\ phase # "exited"
    /\ starting' = [starting EXCEPT ![s] = IF @ = "opening" THEN "over" ELSE @]
    /\ IF s = "pipeline"
       THEN /\ working' = Workers
            /\ waited' = waited \ {s}
       ELSE UNCHANGED <<working, waited>>
    /\ UNCHANGED <<taskVars, profile, bus, given, phase, slow, subscribed, exists, readers, todo, shut, slipped>>

Exits ==
    /\ phase' = "exited"
    /\ readers' = [g \in AllGroups |-> 0]
    /\ working' = {}

\* A command of a start rejects, after the drain closed the bus or for a fault: the pipeline's is
\* logged like a store's, main's ends the process.
StartFails(s) ==
    /\ todo[s] # {} /\ starting[s] \in {"opening", "cut"} /\ phase # "exited"
    /\ IF "eventBus" \in shut THEN UNCHANGED taskVars ELSE Fault
    /\ starting' = [starting EXCEPT ![s] = "failed"]
    /\ waited' = waited \ {s}
    /\ IF s = "main" THEN Exits ELSE UNCHANGED <<phase, readers, working>>
    /\ UNCHANGED <<profile, bus, given, slow, subscribed, exists, todo, shut, slipped>>

Listen ==
    /\ phase = "booting" /\ waited = {}
    /\ phase' = "listening"
    /\ UNCHANGED <<taskVars, profile, bus, given, waited, slow, subscribed, exists, readers, starting, todo,
                   working, shut, slipped>>

\* main goes on when the process listens: the fabric, then the consumer, then start() once more.
RegisterFanOut ==
    /\ phase = "listening" /\ HasSockets
    /\ phase' = "serving"
    /\ subscribed' = subscribed \cup {FanOut}
    /\ starting' = [starting EXCEPT !["main"] = "opening"]
    /\ todo' = [todo EXCEPT !["main"] = Pending(subscribed \cup {FanOut})]
    /\ UNCHANGED <<taskVars, profile, bus, given, waited, slow, exists, readers, working, shut, slipped>>

\* The fabric's subscription rejects.
FabricFails ==
    /\ phase = "listening" /\ HasSockets
    /\ Fault
    /\ Exits
    /\ UNCHANGED <<profile, bus, given, waited, slow, subscribed, exists, starting, todo, shut, slipped>>

\* A group takes no notice of an event from before it was made, nor the memory of one nobody subscribes to.
Deaf(g) == IF bus = "memory" THEN g \notin subscribed ELSE g \notin exists

\* A request is served, whose event every consumer of this process is to see.
Serve ==
    /\ phase \in {"listening", "serving"} /\ "eventBus" \in Managed
    /\ slipped' = slipped \cup {g \in Consumers \cup {f \in {FanOut} : HasSockets} : Deaf(g)}
    /\ UNCHANGED <<taskVars, profile, bus, given, phase, waited, slow, subscribed, exists, readers, starting,
                   todo, working, shut>>

----------------------------------------------------------------------------
(* Drain                                                                   *)

Terminate ==
    /\ phase \in {"booting", "listening", "serving"}
    /\ phase' = "closing"
    /\ UNCHANGED <<taskVars, profile, bus, given, waited, slow, subscribed, exists, readers, starting, todo,
                   working, shut, slipped>>

\* One after the other in the order they are managed: the stores, the bus, and the workers last.
CloseNext(r) ==
    /\ phase = "closing" /\ r \in Managed \ shut
    /\ \A i, j \in DOMAIN Order : Order[i] = r /\ j < i => Order[j] \notin Managed \ shut
    /\ shut' = shut \cup {r}
    /\ readers' = IF r = "eventBus" THEN [g \in AllGroups |-> 0] ELSE readers
    /\ subscribed' = IF r = "eventBus" /\ bus = "memory" THEN {} ELSE subscribed
    /\ working' = IF r = "pipeline" THEN {} ELSE working
    /\ starting' = IF r = "pipeline" /\ starting[r] = "opening" THEN [starting EXCEPT ![r] = "cut"] ELSE starting
    /\ UNCHANGED <<taskVars, profile, bus, given, phase, waited, slow, exists, todo, slipped>>

Leave_ ==
    /\ phase = "closing" /\ shut = Managed
    /\ Exits
    /\ UNCHANGED <<taskVars, profile, bus, given, waited, slow, subscribed, exists, starting, todo, shut, slipped>>

DepNext ==
    \/ \E r \in Managed : Settles(r) \/ TimesOut(r) \/ CloseNext(r)
    \/ \E s \in Starters : StartEnds(s) \/ StartFails(s) \/ \E g \in AllGroups : OpenReader(s, g)
    \/ Listen \/ RegisterFanOut \/ FabricFails \/ Serve \/ Terminate \/ Leave_

----------------------------------------------------------------------------
(* Properties                                                              *)

Up == phase \in {"listening", "serving"}

\* A process that listens runs its workers and reads all it has subscribed to, and a request it
\* serves is seen by all consumers but the sockets', unless a connect failed or timed out.  About
\* readiness, which asks the stores and takes the pipeline for ready (compose-service.ts:67): after
\* a fault nothing tells that the workers never started, and nothing tries again.
IdleOnlyByFault ==
    Up /\ failures = 0 => /\ working = Workers
                          /\ \A g \in Consumers : bus = "memory" \/ readers[g] > 0
                          /\ slipped \subseteq {FanOut}

\* A group has two readers in a process only if the pipeline's start overlapped main's, having
\* timed out, or was repeated by it, as Kafka's is (late-subscription.ts, kafka.bus.ts:86).
TwoReadersOnlyByTwoStarts ==
    \A g \in AllGroups :
        readers[g] > 1 => starting["main"] # "no" /\ (bus = "kafka" \/ "pipeline" \in slow)

\* Once the drain has stopped the workers none runs, unless their start was still under way
\* (compose-service.ts:68): closing does not wait for it, and it starts them after all.
StoppedStayStopped ==
    phase = "closing" /\ "pipeline" \in shut /\ working # {} => starting["pipeline"] = "cut"

\* Starting and stopping a process, taken together.
BootHolds == IdleOnlyByFault /\ TwoReadersOnlyByTwoStarts /\ StoppedStayStopped

\* A feature asks for no store its group does not declare, or it would never mount
\* (groups.ts, infra-context.ts:84).
NeedsAreDeclared ==
    \A g \in DOMAIN Need : \A f \in DOMAIN FeaturesOf[g] : FeaturesOf[g][f] \subseteq Need[g]

\* The gateway sends the path of a controller to the process that mounts it (routes.ts:24,
\* topology.ts:22).  The legacy discovery has two paths no rule matches, so they end at the gateway.
RoutesLeadToTheirFeature ==
    /\ NeedsAreDeclared
    /\ \A f \in DOMAIN Paths : \A path \in Paths[f] :
           IF Hits(path) = {} THEN f = "directory"
           ELSE f \in DOMAIN FeaturesOf[Upstream(path)]

\* A process that is up runs its workers once and serves the paths it is sent.
DeploymentHolds == BootHolds /\ RoutesLeadToTheirFeature
=============================================================================
