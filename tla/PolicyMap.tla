----------------------------- MODULE PolicyMap -----------------------------
(***************************************************************************)
(* The bounded exact-target map that automatic mode keeps twice: in memory *)
(* (DurablePolicyIndex.policies) and in SQLite (table durable_policies).   *)
(* Both replace the oldest entry when a new target arrives at capacity and *)
(* break ties of age by the target key, an HMAC digest compared bytewise;  *)
(* a target is modelled by the number that gives its place in that order.  *)
(***************************************************************************)
EXTENDS Routing

\* Targets are given as their HMAC keys, in byte order.
ASSUME TargetsAssumption == Targets \subseteq Nat \ {0}

NoPath == ""

\* An entry is a DurablePolicy without its key; a missing key maps to NoEntry.
Entry      == [path : Paths, at : Nat]
NoEntry    == [path |-> NoPath, at |-> 0]
PolicyMaps == [Targets -> Entry \cup {NoEntry}]
EmptyMap   == [k \in Targets |-> NoEntry]
Keys(m)    == {k \in Targets : m[k] # NoEntry}

(***************************************************************************)
(* (UpdatedAt, key) order: the loop of Remember and the ORDER BY clause of *)
(* RememberDurablePath.                                                    *)
(***************************************************************************)
Older(m, a, b) == \/ m[a].at < m[b].at
                  \/ m[a].at = m[b].at /\ a < b

Oldest(m) == CHOOSE k \in Keys(m) : \A o \in Keys(m) \ {k} : Older(m, k, o)

\* Mutant: one entry too many is let in.
Victims_OffByOne(m, cap, t) ==
    IF t \notin Keys(m) /\ Cardinality(Keys(m)) > cap THEN {Oldest(m)} ELSE {}

\* What has to go before t can be stored: one entry, and only for a new key.
Victims(m, cap, t) ==
    IF t \notin Keys(m) /\ Cardinality(Keys(m)) >= cap THEN {Oldest(m)} ELSE {}

Put(m, cap, t, e) ==
    [k \in Targets |-> IF k = t THEN e
                       ELSE IF k \in Victims(m, cap, t) THEN NoEntry
                       ELSE m[k]]
=============================================================================
