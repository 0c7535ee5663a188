--------------------------------- MODULE Buses ---------------------------------
(***************************************************************************)
(* The other ways of the event bus: KafkaEventBus, the BaseEventConsumer    *)
(* beside it, which no consumer extends yet, and InMemoryEventBus.  One     *)
(* topic of one key; every group has two consumers, of which one holds the  *)
(* partition, and a rebalance may pass it on while a handler runs.          *)
(*                                                                         *)
(* An event is its position: publish mints an id for each, so the memory's  *)
(* set of processed ids meets none twice and is left out.                   *)
(***************************************************************************)
EXTENDS Tasks, Sequences

CONSTANTS MaxPublished,  \* bound on the events
          BusGroups      \* Seq: the groups in the order they subscribed

VARIABLES
    way,        \* "kafka", "base" or "memory"
    topic,      \* the events: "ok", "malformed" or "untenanted"
    holder,     \* [groups -> 1..2], who holds the partition
    committed,  \* [groups -> Nat], the offset of the group
    eating,     \* [groups \X 1..2 -> [at, event]], what a consumer is doing
    idemKeys,   \* the keys idem:{event_id}, one set for all groups
    dead,       \* <<group, event>> in the dead-letter topic
    waiting,    \* memory: the events whose delivery has not begun
    delivering, \* memory: [event, turn] of the deliveries that await a handler
    begun       \* [groups -> Seq of events], the handler runs in the order they began

busVars == <<way, topic, holder, committed, eating, idemKeys, dead, waiting, delivering, begun>>

\* A process subscribes some groups to the topic, none of them twice.
ASSUME BusesAssumption ==
    /\ MaxPublished \in Nat
    /\ BusGroups \in Seq({BusGroups[i] : i \in DOMAIN BusGroups}) \ {<<>>}
    /\ \A i, j \in DOMAIN BusGroups : BusGroups[i] = BusGroups[j] => i = j

GroupNames == {BusGroups[i] : i \in DOMAIN BusGroups}
Idle       == [at |-> "idle", event |-> 0]

BusTypeOK ==
    /\ way \in {"kafka", "base", "memory"}
    /\ Len(topic) <= MaxPublished /\ \A e \in DOMAIN topic : topic[e] \in {"ok", "malformed", "untenanted"}
    /\ holder \in [GroupNames -> 1..2]
    /\ committed \in [GroupNames -> 0..MaxPublished]
    /\ eating \in [GroupNames \X (1..2) -> [at : {"idle", "mark", "handle", "handling", "dlq", "done"},
                                            event : 0..MaxPublished]]
    /\ idemKeys \subseteq 1..MaxPublished
    /\ dead \subseteq GroupNames \X (1..MaxPublished)
    /\ \A i \in DOMAIN waiting : waiting[i] \in 1..MaxPublished
    /\ delivering \subseteq [event : 1..MaxPublished, turn : DOMAIN BusGroups]
    /\ \A g \in GroupNames : \A i \in DOMAIN begun[g] : begun[g][i] \in 1..MaxPublished

BusInit ==
    /\ way \in {"kafka", "base", "memory"}
    /\ topic = <<>> /\ waiting = <<>> /\ delivering = {}
    /\ holder = [g \in GroupNames |-> 1]
    /\ committed = [g \in GroupNames |-> 0]
    /\ eating = [c \in GroupNames \X (1..2) |-> Idle]
    /\ idemKeys = {} /\ dead = {}
    /\ begun = [g \in GroupNames |-> <<>>]

PublishEnvelope(form) ==
    /\ Len(topic) < MaxPublished
    /\ way = "memory" => form = "ok"         \* the envelope is handed on as it is
    /\ topic' = Append(topic, form)
    /\ waiting' = IF way = "memory" THEN Append(waiting, Len(topic) + 1) ELSE waiting
    /\ UNCHANGED <<taskVars, way, holder, committed, eating, idemKeys, dead, delivering, begun>>

----------------------------------------------------------------------------
(* Kafka                                                                   *)

Eats(c, next) == eating' = [eating EXCEPT ![c] = next]

\* parseEnvelope throws: dropped by the adapter, to the dead letters by the base, like a missing tenant.
AfterParse(e) ==
    CASE topic[e] = "malformed"  -> IF way = "base" THEN "dlq" ELSE "done"
      [] topic[e] = "untenanted" -> IF way = "base" THEN "dlq" ELSE "mark"
      [] topic[e] = "ok"         -> "mark"

EachMessage(g) ==
    LET c == <<g, holder[g]>> IN
    /\ way # "memory"
    /\ eating[c].at = "idle" /\ committed[g] < Len(topic)
    /\ Eats(c, [at |-> AfterParse(committed[g] + 1), event |-> committed[g] + 1])
    /\ UNCHANGED <<taskVars, way, topic, holder, committed, idemKeys, dead, waiting, delivering, begun>>

\* Mutant: the key is set without NX.
AlwaysNew(e) == TRUE

\* SET NX, before the handler runs.
IsNew(e) == e \notin idemKeys

MarkIfNew(c) ==
    /\ eating[c].at = "mark"
    /\ idemKeys' = idemKeys \cup {eating[c].event}
    /\ Eats(c, [eating[c] EXCEPT !.at = IF IsNew(eating[c].event) THEN "handle" ELSE "done"])
    /\ UNCHANGED <<taskVars, way, topic, holder, committed, dead, waiting, delivering, begun>>

Handle(c) ==
    /\ eating[c].at = "handle"
    /\ begun' = [begun EXCEPT ![c[1]] = Append(@, eating[c].event)]
    /\ Eats(c, [eating[c] EXCEPT !.at = "handling"])
    /\ UNCHANGED <<taskVars, way, topic, holder, committed, idemKeys, dead, waiting, delivering>>

HandlerReturns(c) ==
    /\ eating[c].at = "handling"
    /\ Eats(c, [eating[c] EXCEPT !.at = "done"])
    /\ UNCHANGED <<taskVars, way, topic, holder, committed, idemKeys, dead, waiting, delivering, begun>>

Faulty == failures < MaxFailures /\ failures' = failures + 1 /\ UNCHANGED task

\* Thrown out of eachMessage, which is then called again with the same message; the base catches it.
HandlerThrows(c) ==
    /\ eating[c].at = "handling"
    /\ Faulty
    /\ Eats(c, [eating[c] EXCEPT !.at = IF way = "base" THEN "dlq" ELSE "mark"])
    /\ UNCHANGED <<way, topic, holder, committed, idemKeys, dead, waiting, delivering, begun>>

\* A write that fails is logged.
DeadLetter(c) ==
    /\ eating[c].at = "dlq"
    /\ \/ dead' = dead \cup {<<c[1], eating[c].event>>} /\ UNCHANGED taskVars
       \/ Faulty /\ UNCHANGED dead
    /\ Eats(c, [eating[c] EXCEPT !.at = "done"])
    /\ UNCHANGED <<way, topic, holder, committed, idemKeys, waiting, delivering, begun>>

\* Only the holder's commit counts.
Commit(c) ==
    /\ eating[c].at = "done"
    /\ committed' = IF holder[c[1]] = c[2] THEN [committed EXCEPT ![c[1]] = eating[c].event] ELSE committed
    /\ Eats(c, Idle)
    /\ UNCHANGED <<taskVars, way, topic, holder, idemKeys, dead, waiting, delivering, begun>>

\* The holder is slow, or gone with what it was doing: the other starts at the committed offset.
Rebalance(g, gone) ==
    /\ way # "memory"
    /\ Faulty
    /\ eating[<<g, 3 - holder[g]>>] = Idle
    /\ holder' = [holder EXCEPT ![g] = 3 - @]
    /\ eating' = IF gone THEN [eating EXCEPT ![<<g, holder[g]>>] = Idle] ELSE eating
    /\ UNCHANGED <<way, topic, committed, idemKeys, dead, waiting, delivering, begun>>

----------------------------------------------------------------------------
(* In memory                                                               *)

\* deliver of an event runs into the first handler at once; nothing waits for an earlier delivery.
Deliver ==
    /\ waiting # <<>>
    /\ waiting' = Tail(waiting)
    /\ delivering' = delivering \cup {[event |-> Head(waiting), turn |-> 1]}
    /\ begun' = [begun EXCEPT ![BusGroups[1]] = Append(@, Head(waiting))]
    /\ UNCHANGED <<taskVars, way, topic, holder, committed, eating, idemKeys, dead>>

\* The handler returns, or throws, which is logged: on to the next subscription.
NextHandler(d) ==
    /\ d \in delivering
    /\ IF d.turn = Len(BusGroups)
       THEN /\ delivering' = delivering \ {d}
            /\ UNCHANGED begun
       ELSE /\ delivering' = (delivering \ {d}) \cup {[d EXCEPT !.turn = @ + 1]}
            /\ begun' = [begun EXCEPT ![BusGroups[d.turn + 1]] = Append(@, d.event)]
    /\ UNCHANGED <<taskVars, way, topic, holder, committed, eating, idemKeys, dead, waiting>>

\* What a process held in memory is gone.
ProcessDies ==
    /\ way = "memory"
    /\ Faulty
    /\ waiting' = <<>> /\ delivering' = {}
    /\ UNCHANGED <<way, topic, holder, committed, eating, idemKeys, dead, begun>>

BusNext ==
    \/ \E form \in {"ok", "malformed", "untenanted"} : PublishEnvelope(form)
    \/ \E g \in GroupNames : EachMessage(g) \/ \E gone \in BOOLEAN : Rebalance(g, gone)
    \/ \E c \in GroupNames \X (1..2) :
           MarkIfNew(c) \/ Handle(c) \/ HandlerReturns(c) \/ HandlerThrows(c) \/ DeadLetter(c) \/ Commit(c)
    \/ Deliver \/ ProcessDies
    \/ \E d \in delivering : NextHandler(d)

----------------------------------------------------------------------------
(* Properties                                                              *)

Ran(g, e)    == \E i \in DOMAIN begun[g] : begun[g][i] = e
Passed(g, e) == IF way = "memory"
                THEN (\A i \in DOMAIN waiting : waiting[i] # e) /\ \A d \in delivering : d.event # e
                ELSE committed[g] >= e

\* A group handles an event at most once, whoever holds the partition.  It handles events in their
\* order unless there was a fault, of which a partition that passes on between the mark of one and its
\* handler is the one that breaks it; in memory only the group that subscribed first does, for the
\* deliveries overlap.  About markIfNew, which has to hold
\* against two consumers with one partition (kafka.bus.ts:99, kafka-consumer.base.ts:73).
OnceAndInOrder ==
    \A g \in GroupNames : \A i, j \in DOMAIN begun[g] :
        i < j => /\ begun[g][i] # begun[g][j]
                 /\ IF way = "memory" THEN g = BusGroups[1] => begun[g][i] < begun[g][j]
                    ELSE failures = 0 => begun[g][i] < begun[g][j]

\* An event a group is past was handled by it, or did not parse, or lacked the tenant its base asks
\* for; or a fault came after the mark; or, since the key names no group, another group had marked it.
\* In memory it was handled unless the process died.
PassedOverOnlyBy ==
    \A g \in GroupNames : \A e \in DOMAIN topic :
        Passed(g, e) /\ ~Ran(g, e) /\ failures = 0 =>
            /\ way # "memory"
            /\ \/ topic[e] = "malformed" /\ way = "kafka"
               \/ topic[e] # "ok" /\ way = "base" /\ <<g, e>> \in dead
               \/ \E h \in GroupNames \ {g}, n \in 1..2 :
                      Ran(h, e) \/ eating[<<h, n>>] = [at |-> "handle", event |-> e]

\* With Kafka one group takes an event from all others.
OneGroupTakesIt ==
    way # "memory" => \A g, h \in GroupNames, e \in DOMAIN topic : Ran(g, e) /\ Ran(h, e) => g = h

\* The buses but Redis Streams, taken together.
BusesHold == OnceAndInOrder /\ PassedOverOnlyBy /\ OneGroupTakesIt
=============================================================================
