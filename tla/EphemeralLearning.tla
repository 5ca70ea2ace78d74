------------------------- MODULE EphemeralLearning -------------------------
(***************************************************************************)
(* learning.Engine as operators on its policy table: consecutive strong    *)
(* wins promote a path, one strong win of the other path demotes it, a     *)
(* policy lives TTL after its last strong pair, and the table is bounded.  *)
(***************************************************************************)
EXTENDS Routing

CONSTANTS DirectPromotionWins, ProxyPromotionWins, TTL, MaxEntries

ASSUME LearningAssumption ==
    /\ DirectPromotionWins \in Nat /\ DirectPromotionWins >= 2
    /\ ProxyPromotionWins \in Nat /\ ProxyPromotionWins >= 2
    /\ TTL \in Nat \ {0} /\ MaxEntries \in Nat \ {0}

Threshold(path) == IF path = Direct THEN DirectPromotionWins ELSE ProxyPromotionWins

\* Of its two win counters the code zeroes one at every update, so a policy
\* has one streak: its path and length.  The length is compared with the
\* path's threshold only and saturates there.
States   == Paths \cup {"unknown", "unstable"}  \* a path: preferred
Policy   == [state : States, path : Paths, wins : Nat, expires : Nat]
NoPolicy == [state |-> "unknown", path |-> Direct, wins |-> 0, expires |-> 0]

Tables == [Targets -> Policy \cup {NoPolicy}]
Empty  == [t \in Targets |-> NoPolicy]

Entries(table)      == {t \in Targets : table[t] # NoPolicy}
Live(policy, now)   == now < policy.expires
Preferred(policy)   == policy.state \in Paths
Contradicts(policy, path) == Preferred(policy) /\ policy.state # path

\* pruneExpiredLocked
Pruned(table, now) ==
    [t \in Targets |-> IF Live(table[t], now) THEN table[t] ELSE NoPolicy]

\* Mutant: a full table makes room by starting over.
Room_StartsOver(table, t, now) ==
    IF table[t] # NoPolicy \/ Cardinality(Entries(table)) < MaxEntries
    THEN table ELSE Empty

\* A full table is pruned, and only for a target that has no entry.
Room(table, t, now) ==
    IF table[t] # NoPolicy \/ Cardinality(Entries(table)) < MaxEntries
    THEN table ELSE Pruned(table, now)

\* Mutant: a win of the other path does not end the streak.
Wins_NeverReset(policy, path) ==
    IF policy.wins < Threshold(path) THEN policy.wins + 1 ELSE Threshold(path)

Wins(policy, path) ==
    IF policy.path # path THEN 1
    ELSE IF policy.wins < Threshold(path) THEN policy.wins + 1 ELSE Threshold(path)

\* One strong pair that path won.  A live preference of the same path is
\* refreshed whatever the count; one of the other path turns unstable.
Updated(policy, path, now) ==
    LET old  == IF Live(policy, now) THEN policy ELSE NoPolicy
        wins == Wins(old, path)
    IN  [state   |-> IF old.state = path \/ wins >= Threshold(path) THEN path
                     ELSE IF Contradicts(old, path) THEN "unstable" ELSE old.state,
         path    |-> path,
         wins    |-> wins,
         expires |-> now + TTL]

\* Mutant: nothing is refused.
Learn_Unbounded(table, t, path, now) ==
    [Room(table, t, now) EXCEPT ![t] = Updated(@, path, now)]

Learn(table, t, path, now) ==
    LET room == Room(table, t, now) IN
    IF room[t] = NoPolicy /\ Cardinality(Entries(room)) >= MaxEntries
    THEN room
    ELSE [room EXCEPT ![t] = Updated(@, path, now)]

\* PreferredPath deletes the entry it finds expired.
Forgotten(table, t, now) ==
    IF Live(table[t], now) THEN table ELSE [table EXCEPT ![t] = NoPolicy]
=============================================================================
