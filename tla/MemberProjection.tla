--------------------------- MODULE MemberProjection ---------------------------
(***************************************************************************)
(* The Redis set members:{conversation} that fan-out and notification read  *)
(* instead of the Postgres rows.  The consumer groups of both services      *)
(* apply the membership events of Channels to the one set, and fan-out      *)
(* refills it from the rows when it finds it empty (members(), isMember()). *)
(* The search indexer follows the creations too and has no part in the set. *)
(*                                                                         *)
(* A group keeps the order of each topic and none across topics: an         *)
(* XREADGROUP takes at most ten entries of each, in the order of the topics.*)
(* The bus marks an event handled under one key for all groups, so a group  *)
(* that comes to a marked event skips it: what the indexer marked reaches   *)
(* the set only if a keeper had it in hand (EventBus has the bus in full).  *)
(***************************************************************************)
EXTENDS Channels

CONSTANTS Groups,       \* the consumer groups that follow the membership events
          Keepers,      \* those that write the set: realtime-fanout and notification
          MaxEvictions, \* bound on the times Redis loses the key
          MaxFills      \* bound on the refills

ASSUME ProjectionAssumption ==
    /\ Keepers \subseteq Groups /\ Keepers # {}
    /\ MaxEvictions \in Nat /\ MaxFills \in Nat

\* search-indexer subscribes to conversation.created alone.
Follows(g) == IF g \in Keepers THEN Topics ELSE {"created"}

VARIABLES
    cached,     \* the set at members:{conversation}; an empty set has no key
    next,       \* [Groups -> [Topics -> Nat]], the entry of the topic it reads next
    held,       \* [Groups -> entries or {}], the entry whose handler is running
    marked,     \* entries marked handled
    filling,    \* "no", "read" before the rows are read, "seed" before they are added
    fetched,    \* the rows as the refill read them
    behind,     \* users the last write to the set put at odds with the rows
    missed,     \* members that the write that made the set non-empty left out
    overlooked, \* users of a creation that the indexer was the first to mark, not written since
    evictions,
    fills

projVars == <<cached, next, held, marked, filling, fetched, behind, missed, overlooked, evictions, fills>>
vars     == <<chanVars, projVars>>

Entries == Topics \X (Nat \ {0})

ProjTypeOK ==
    /\ TypeOK
    /\ cached \in SUBSET Users
    /\ next \in [Groups -> [Topics -> Nat \ {0}]]
    /\ \A g \in Groups, t \in Topics : next[g][t] <= Len(log[t]) + 1
    /\ \A g \in Groups : held[g] \subseteq Entries /\ Cardinality(held[g]) <= 1
    /\ marked \subseteq Entries
    /\ filling \in {"no", "read", "seed"}
    /\ fetched \in SUBSET Users
    /\ behind \in SUBSET Users
    /\ missed \in SUBSET Users
    /\ overlooked \in SUBSET Users
    /\ evictions \in 0 .. MaxEvictions
    /\ fills \in 0 .. MaxFills

\* The set is cold or as a refill leaves it.
ProjInit ==
    /\ Init
    /\ cached \in {{}, Members}
    /\ next = [g \in Groups |-> [t \in Topics |-> 1]]
    /\ held = [g \in Groups |-> {}]
    /\ marked = {}
    /\ filling = "no"
    /\ fetched = {}
    /\ behind = {}
    /\ missed = {}
    /\ overlooked = {}
    /\ evictions = 0
    /\ fills = 0

----------------------------------------------------------------------------
(* The handlers of the membership events                                   *)

\* handleEntry up to the handler: an entry that is marked is acknowledged unhandled.
Take(g, t) ==
    LET i == next[g][t] IN
    /\ t \in Follows(g)
    /\ held[g] = {}
    /\ i <= Len(log[t])
    /\ next' = [next EXCEPT ![g][t] = i + 1]
    /\ held' = [held EXCEPT ![g] = {<<t, i>>} \ marked]
    /\ UNCHANGED <<chanVars, cached, marked, filling, fetched, behind, missed, overlooked, evictions, fills>>

\* The set is written: US are added to it, or removed from it.
WriteSet(add, US) ==
    /\ cached' = IF add THEN cached \cup US ELSE cached \ US
    /\ behind' = (behind \ US) \cup (IF add THEN US \ Members ELSE US \cap Members)
    /\ missed' = (IF cached = {} /\ add THEN Members ELSE missed) \ cached'
    /\ overlooked' = overlooked \ US

\* A keeper's handler: seed, add or remove; then the mark.
Apply(g) ==
    /\ g \in Keepers
    /\ \E e \in held[g] :
           /\ WriteSet(e[1] # "removed", log[e[1]][e[2]])
           /\ marked' = marked \cup {e}
    /\ held' = [held EXCEPT ![g] = {}]
    /\ UNCHANGED <<chanVars, next, filling, fetched, evictions, fills>>

\* The indexer's handler writes nothing of this, and the event is marked all the same.
PassOver(g) ==
    /\ g \notin Keepers
    /\ \E e \in held[g] :
           /\ overlooked' = IF e \in marked THEN overlooked ELSE overlooked \cup log[e[1]][e[2]]
           /\ marked' = marked \cup {e}
    /\ held' = [held EXCEPT ![g] = {}]
    /\ UNCHANGED <<chanVars, cached, next, filling, fetched, behind, missed, evictions, fills>>

----------------------------------------------------------------------------
(* members() on an empty set                                               *)

\* Single flight: concurrent callers of one process share the refill.
FillStart ==
    /\ filling = "no" /\ cached = {} /\ fills < MaxFills
    /\ filling' = "read"
    /\ fills' = fills + 1
    /\ UNCHANGED <<chanVars, cached, next, held, marked, fetched, behind, missed, overlooked, evictions>>

\* The rows, from the owner in process or over HTTP; none, or a failure, ends it.
FillRead ==
    /\ filling = "read"
    /\ \/ Members # {} /\ fetched' = Members /\ filling' = "seed"
       \/ fetched' = {} /\ filling' = "no"
    /\ UNCHANGED <<chanVars, cached, next, held, marked, behind, missed, overlooked, evictions, fills>>

FillSeed ==
    /\ filling = "seed"
    /\ WriteSet(TRUE, fetched)
    /\ filling' = "no"
    /\ fetched' = {}
    /\ UNCHANGED <<chanVars, next, held, marked, evictions, fills>>

\* Redis restarts without the key, or evicts it.
Evict ==
    /\ evictions < MaxEvictions /\ cached # {}
    /\ evictions' = evictions + 1
    /\ cached' = {}
    /\ UNCHANGED <<chanVars, next, held, marked, filling, fetched, behind, missed, overlooked, fills>>

----------------------------------------------------------------------------
Next ==
    \/ ChanNext /\ UNCHANGED projVars
    \/ \E g \in Groups, t \in Topics : Take(g, t)
    \/ \E g \in Groups : Apply(g) \/ PassOver(g)
    \/ FillStart
    \/ FillRead
    \/ FillSeed
    \/ Evict

Spec == ProjInit /\ [][Next]_vars

----------------------------------------------------------------------------
(* Properties                                                              *)

\* Nothing is under way: every call has ended, every event has been handled.
Settled ==
    /\ Quiet
    /\ \A g \in Groups : held[g] = {} /\ \A t \in Follows(g) : next[g][t] > Len(log[t])
    /\ filling = "no"

\* A user who is not a member stays in the set only if the last write of him came late, when
\* he was no longer a member (the other group's SREM first, a refill from rows read before the
\* removal, createDm announcing a member who left), or his removal was never announced.
FormerMemberOnlyIfLate ==
    Settled => cached \ Members \subseteq behind \cup lost

\* A member is missing from a set that is not empty, which nothing refills, only if the last
\* write of him came late, his addition was never announced, an event that found the set
\* empty made it without him, or the indexer marked his creation before a keeper came to it.
MissingMemberOnlyIfPartial ==
    Settled /\ cached # {} => Members \ cached \subseteq behind \cup lost \cup missed \cup overlooked

\* Once everything is settled, the events have told the epochs of a group, and the set holds
\* the members, but for those named above (channels.events.ts:15, membership-projection.ts:49).
EventsReachTheSet ==
    EpochsAnnouncedOnce /\ FormerMemberOnlyIfLate /\ MissingMemberOnlyIfPartial

=============================================================================
