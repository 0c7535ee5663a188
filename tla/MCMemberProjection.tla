-------------------------- MODULE MCMemberProjection --------------------------
(* Two membership calls on one conversation, and the consumer groups that      *)
(* follow them: two keep the set in Redis, the third only marks the creations.  *)
EXTENDS MemberProjection, TLC

CONSTANTS u1, u2, u3, c1, c2, fanout, notification, indexer

MCUsers  == {u1, u2, u3}
MCPeers  == {u1, u2}
MCCalls  == {c1, c2}
MCKeepers == {fanout, notification}
MCGroups  == MCKeepers \cup {indexer}

\* No definition tells two calls, two keepers or the two peers of a DM apart.
Symmetry == Permutations(MCCalls) \cup Permutations(MCPeers) \cup Permutations(MCKeepers)

ProjectionWaits ==
    /\ cached = {} /\ fills = 0
    /\ \A g \in Groups, t \in Topics : next[g][t] = 1

\* Two users, and no change of roles: a role does not reach the set, and a group's set
\* behaves as a channel's.
PlainCalls ==
    /\ kind # "group"
    /\ role[u3] = "none"
    /\ \A u \in Users : role[u] # "admin"
    /\ \A t \in Topics : \A i \in DOMAIN log[t] : u3 \notin log[t][i]
    /\ \A c \in Calls :
           /\ call[c].op # "setRole" /\ call[c].to = "member"
           /\ u3 \notin {call[c].actor, call[c].user} \cup call[c].party

\* Either three users make calls of any kinds and the groups wait, or two make plain calls
\* and the groups follow them.
Bounded == ProjectionWaits \/ PlainCalls
=============================================================================
