----------------------- MODULE LearningRuntime_proofs -----------------------
(***************************************************************************)
(* Proofs for every set of targets and every configuration: the types, the *)
(* freeze as a whole, and that a preference is always earned.              *)
(***************************************************************************)
EXTENDS LearningRuntime, FiniteSetTheorems, TLAPS

-----------------------------------------------------------------------------
(* The gate's operators keep a gate a gate.                                *)

\* Add keeps a window a window.
LEMMA AddType ==
    ASSUME NEW set \in TargetSets, NEW instant \in Nat, NEW window \in Nat, NEW t \in Targets
    PROVE  Add(set, instant, window, t) \in TargetSets
BY DEF Add, TargetSets

LEMMA FreezeType ==
    ASSUME NEW g \in Gates, NEW instant \in Nat, NEW reason \in Reasons
    PROVE  Freeze(g, instant, reason) \in Gates
<1>1. NoTargets \in TargetSets  BY DEF NoTargets, TargetSets
<1>2. instant + FreezeDuration \in Nat  BY HealthAssumption
<1> QED  BY <1>1, <1>2 DEF Freeze, Gates

LEMMA ExtendType ==
    ASSUME NEW g \in Gates, NEW instant \in Nat
    PROVE  Extend(g, instant) \in Gates /\ Extend(g, instant).state = g.state
<1>1. NoTargets \in TargetSets  BY DEF NoTargets, TargetSets
<1>2. instant + FreezeDuration \in Nat  BY HealthAssumption
<1> QED  BY <1>1, <1>2 DEF Extend, Gates

LEMMA ActiveType ==
    ASSUME NEW reason \in Reasons
    PROVE  ActiveGate(reason) \in Gates /\ ActiveGate(reason).state = "active"
BY DEF ActiveGate, Gates, NoTargets, TargetSets

\* Expire leaves a gate as it is or active.
LEMMA ExpireType ==
    ASSUME NEW g \in Gates, NEW instant \in Nat
    PROVE  /\ Expire(g, instant) \in Gates
           /\ Expire(g, instant) = g \/ Expire(g, instant).state = "active"
BY ActiveType DEF Expire, Reasons

LEMMA BothFailedType ==
    ASSUME NEW g \in Gates, NEW instant \in Nat, NEW t \in Targets
    PROVE  BothPathsFailed(g, instant, t) \in Gates
<1> DEFINE e == Expire(g, instant)
           failing == Add(e.global, instant, FailureWindow, t)
           counted == [e EXCEPT !.global = failing]
<1>1. e \in Gates  BY ExpireType
<1>2. failing \in TargetSets  BY <1>1, AddType, HealthAssumption DEF Gates
<1>3. counted \in Gates  BY <1>1, <1>2 DEF Gates
<1>4. Freeze(counted, instant, "global_outage") \in Gates  BY <1>3, FreezeType DEF Reasons
<1>5. Extend(e, instant) \in Gates  BY <1>1, ExtendType
<1> HIDE DEF e
<1>6. AfterBothFailed(e, instant, t) \in Gates
      BY <1>3, <1>4, <1>5 DEF AfterBothFailed
<1> QED  BY <1>6 DEF BothPathsFailed, e

LEMMA ProxyFailedType ==
    ASSUME NEW g \in Gates, NEW instant \in Nat, NEW t \in Targets
    PROVE  ProxyPathFailed(g, instant, t) \in Gates
<1> DEFINE e == Expire(g, instant)
           failing == Add(e.proxy, instant, FailureWindow, t)
           counted == [e EXCEPT !.proxy = failing]
<1>1. e \in Gates  BY ExpireType
<1>2. failing \in TargetSets  BY <1>1, AddType, HealthAssumption DEF Gates
<1>3. counted \in Gates  BY <1>1, <1>2 DEF Gates
<1>4. Freeze(counted, instant, "proxy_outage") \in Gates  BY <1>3, FreezeType DEF Reasons
<1>5. Extend(e, instant) \in Gates  BY <1>1, ExtendType
<1> HIDE DEF e
<1>6. AfterProxyFailed(e, instant, t) \in Gates
      BY <1>1, <1>3, <1>4, <1>5 DEF AfterProxyFailed
<1> QED  BY <1>6 DEF ProxyPathFailed, e

\* A success keeps the type, and never freezes.
LEMMA SucceededType ==
    ASSUME NEW g \in Gates, NEW instant \in Nat, NEW t \in Targets, NEW path \in Paths
    PROVE  /\ PathSucceeded(g, instant, t, path) \in Gates
           /\ PathSucceeded(g, instant, t, path).state = "frozen" => g.state = "frozen"
<1> DEFINE e == Expire(g, instant)
           recovering == Add(e.recoveries, instant, FreezeDuration, t)
<1>1. e \in Gates /\ (e.state = "frozen" => g.state = "frozen")  BY ExpireType
<1>2. recovering \in TargetSets  BY <1>1, AddType, HealthAssumption DEF Gates
<1>3. NoTargets \in TargetSets  BY DEF NoTargets, TargetSets
<1>4. /\ AfterRecovery(e, instant, t) \in Gates
      /\ AfterRecovery(e, instant, t).state = "frozen" => e.state = "frozen"
  <2>1. [e EXCEPT !.recoveries = recovering] \in Gates
        /\ [e EXCEPT !.recoveries = recovering].state = e.state
        BY <1>1, <1>2 DEF Gates
  <2>2. ActiveGate("recovered") \in Gates /\ ActiveGate("recovered").state = "active"
        BY ActiveType DEF Reasons
  <2> QED  BY <2>1, <2>2 DEF AfterRecovery
<1>5. /\ [e EXCEPT !.global = NoTargets, !.proxy = IF path = Proxy THEN NoTargets ELSE @] \in Gates
      /\ [e EXCEPT !.global = NoTargets, !.proxy = IF path = Proxy THEN NoTargets ELSE @].state = e.state
      BY <1>1, <1>3 DEF Gates
<1> HIDE DEF e
<1>6. /\ AfterSuccess(e, instant, t, path) \in Gates
      /\ AfterSuccess(e, instant, t, path).state = "frozen" => e.state = "frozen"
      BY <1>1, <1>4, <1>5 DEF AfterSuccess
<1> QED  BY <1>1, <1>6 DEF PathSucceeded, e

\* A window that a success or a failure updates stays an instant or 0.
LEMMA RecentType ==
    ASSUME NEW failures \in [Targets -> Nat], NEW instant \in Nat
    PROVE  Recent(failures, instant) \in [Targets -> Nat]
BY DEF Recent

LEMMA ForgivenType ==
    ASSUME failedAt \in [{"both", "proxy"} -> [Targets -> Nat]],
           NEW path \in Paths, NEW instant \in Nat
    PROVE  Forgiven(path, instant) \in [{"both", "proxy"} -> [Targets -> Nat]]
<1>1. None \in [Targets -> Nat]  BY DEF None
<1>2. Recent(failedAt["proxy"], instant) \in [Targets -> Nat]  BY RecentType
<1> QED  BY <1>1, <1>2 DEF Forgiven

LEMMA SeenFailureType ==
    ASSUME failedAt \in [{"both", "proxy"} -> [Targets -> Nat]],
           NEW kind \in {"both", "proxy"}, NEW t \in Targets, NEW instant \in Nat,
           SeenFailure(kind, t, instant)
    PROVE  failedAt' \in [{"both", "proxy"} -> [Targets -> Nat]]
<1>1. ASSUME NEW k \in {"both", "proxy"}
      PROVE  Recent(IF k = kind THEN [failedAt[k] EXCEPT ![t] = instant] ELSE failedAt[k], instant)
                \in [Targets -> Nat]
  <2>1. (IF k = kind THEN [failedAt[k] EXCEPT ![t] = instant] ELSE failedAt[k]) \in [Targets -> Nat]
        OBVIOUS
  <2> QED  BY <2>1, RecentType
<1> QED  BY <1>1 DEF SeenFailure

-----------------------------------------------------------------------------
(* The engine's operators keep a table a table within its bound.           *)

\* A table is bounded when at most MaxEntries targets have an entry.
Bounded(table) == table \in Tables /\ Cardinality(Entries(table)) =< MaxEntries

\* Dropping entries keeps a table bounded.
LEMMA DropEntries ==
    ASSUME NEW table, Bounded(table), NEW other \in Tables, Entries(other) \subseteq Entries(table)
    PROVE  Bounded(other)
<1>1. IsFiniteSet(Entries(table))  BY FiniteTargets, FS_Subset DEF Entries
<1>2. Cardinality(Entries(other)) =< Cardinality(Entries(table))
      BY <1>1, FS_Subset
<1>3. /\ Cardinality(Entries(table)) \in Nat
      /\ Cardinality(Entries(other)) \in Nat
      BY <1>1, FS_Subset, FS_CardinalityType
<1> QED  BY <1>2, <1>3, LearningAssumption DEF Bounded

LEMMA EmptyBounded == Bounded(Empty)
<1>1. Empty \in Tables  BY DEF Empty, Tables
<1>2. Entries(Empty) = {}  BY DEF Entries, Empty
<1>3. Cardinality(Entries(Empty)) = 0  BY <1>2, FS_EmptySet
<1> QED  BY <1>1, <1>3, LearningAssumption DEF Bounded

LEMMA ClearedBounded ==
    ASSUME NEW table, Bounded(table), NEW before, NEW after
    PROVE  Bounded(Cleared(table, before, after))
BY EmptyBounded DEF Cleared

LEMMA ForgottenBounded ==
    ASSUME NEW table, Bounded(table), NEW t \in Targets, NEW instant
    PROVE  Bounded(Forgotten(table, t, instant))
<1>1. Forgotten(table, t, instant) \in Tables  BY DEF Forgotten, Tables, Bounded
<1>2. Entries(Forgotten(table, t, instant)) \subseteq Entries(table)
      BY DEF Forgotten, Entries, Tables, Bounded
<1> QED  BY <1>1, <1>2, DropEntries

LEMMA RoomBounded ==
    ASSUME NEW table, Bounded(table), NEW t \in Targets, NEW instant
    PROVE  Bounded(Room(table, t, instant))
<1>1. Pruned(table, instant) \in Tables  BY DEF Pruned, Tables, Bounded
<1>2. Entries(Pruned(table, instant)) \subseteq Entries(table)
      BY DEF Pruned, Entries, Tables, Bounded
<1>3. Bounded(Pruned(table, instant))  BY <1>1, <1>2, DropEntries
<1> QED  BY <1>3 DEF Room

\* A streak of wins stays a number, and a policy a policy.
LEMMA WinsType ==
    ASSUME NEW policy \in Policy \cup {NoPolicy}, NEW path \in Paths
    PROVE  Wins(policy, path) \in Nat \ {0}
BY LearningAssumption DEF Wins, Threshold, Policy, NoPolicy

LEMMA UpdatedType ==
    ASSUME NEW policy \in Policy \cup {NoPolicy}, NEW path \in Paths, NEW instant \in Nat
    PROVE  Updated(policy, path, instant) \in Policy
<1> DEFINE old == IF Live(policy, instant) THEN policy ELSE NoPolicy
<1>1. old \in Policy \cup {NoPolicy} /\ old.state \in States
      BY DEF Policy, NoPolicy, States
<1>2. Wins(old, path) \in Nat  BY <1>1, WinsType
<1>3. instant + TTL \in Nat  BY LearningAssumption
<1> HIDE DEF old
<1>4. Updated(policy, path, instant) =
        [state   |-> IF old.state = path \/ Wins(old, path) >= Threshold(path) THEN path
                     ELSE IF Contradicts(old, path) THEN "unstable" ELSE old.state,
         path    |-> path,
         wins    |-> Wins(old, path),
         expires |-> instant + TTL]
      BY DEF Updated, old
<1> QED  BY <1>1, <1>2, <1>3, <1>4 DEF Policy, States

LEMMA LearnBounded ==
    ASSUME NEW table, Bounded(table), NEW t \in Targets, NEW path \in Paths, NEW instant \in Nat
    PROVE  Bounded(Learn(table, t, path, instant))
<1> DEFINE room == Room(table, t, instant)
           new == [room EXCEPT ![t] = Updated(@, path, instant)]
<1>1. Bounded(room)  BY RoomBounded
<1> HIDE DEF room
<1>2. SUFFICES ASSUME ~(room[t] = NoPolicy /\ Cardinality(Entries(room)) >= MaxEntries)
               PROVE  Bounded(new)
      BY <1>1 DEF Learn, room
<1>3. Updated(room[t], path, instant) \in Policy  BY <1>1, UpdatedType DEF Bounded, Tables
<1>4. new \in Tables  BY <1>1, <1>3 DEF Bounded, Tables
<1>5. Entries(new) \subseteq Entries(room) \cup {t}  BY <1>1 DEF Entries, Bounded, Tables
<1>6. IsFiniteSet(Entries(room))  BY FiniteTargets, FS_Subset DEF Entries
<1>7. IsFiniteSet(Entries(room) \cup {t}) /\ Cardinality(Entries(room)) \in Nat
      BY <1>6, FS_AddElement, FS_CardinalityType
<1>8. Cardinality(Entries(room) \cup {t}) =< MaxEntries
  <2>1. CASE t \in Entries(room)
    <3>1. Entries(room) \cup {t} = Entries(room)  BY <2>1
    <3> QED  BY <1>1, <3>1 DEF Bounded
  <2>2. CASE t \notin Entries(room)
    <3>1. room[t] = NoPolicy  BY <2>2 DEF Entries
    <3>2. Cardinality(Entries(room) \cup {t}) = Cardinality(Entries(room)) + 1
          BY <1>6, <2>2, FS_AddElement
    <3> QED  BY <1>2, <1>7, <3>1, <3>2, LearningAssumption
  <2> QED  BY <2>1, <2>2
<1>9. /\ Cardinality(Entries(new)) =< Cardinality(Entries(room) \cup {t})
      /\ Cardinality(Entries(new)) \in Nat /\ Cardinality(Entries(room) \cup {t}) \in Nat
      BY <1>5, <1>7, FS_Subset, FS_CardinalityType
<1> QED  BY <1>4, <1>8, <1>9, LearningAssumption DEF Bounded

-----------------------------------------------------------------------------
(* The specification.                                                      *)

LEMMA LaterType ==
    ASSUME NEW from \in Nat \ {0}, NEW instant \in Later(from)
    PROVE  instant \in Nat \ {0}
BY ModeAssumption DEF Later

LEMMA LongerType ==
    ASSUME NEW run \in Streaks, NEW path \in Paths
    PROVE  Longer(run, path) \in Streaks
BY DEF Longer, Streaks

LEMMA AnnouncedType ==
    ASSUME NEW event \in {"active", "frozen"}, NEW before, NEW after \in Gates
    PROVE  Announced(event, before, after) \in {"active", "frozen"}
BY DEF Announced, Gates

LEMMA TypeInit == Init => TypeOK
<1> SUFFICES ASSUME Init PROVE TypeOK  OBVIOUS
<1>1. gate \in Gates  BY ActiveType DEF Init, Reasons
<1>2. Bounded(learned)  BY EmptyBounded DEF Init
<1>3. streak \in [Targets -> Streaks]  BY DEF Init, Streaks, Paths
<1> QED  BY <1>1, <1>2, <1>3 DEF Init, TypeOK, Bounded

\* What a call of Observe does, with its intermediate gates: the first is
\* never newly frozen, and the last is the second one or active.
LEMMA ObserveStep ==
    ASSUME TypeOK, NEW t \in Targets, NEW winner \in Paths, NEW other,
           Observe(t, winner, other)
    PROVE  \E won \in Gates, lost \in Gates, third \in Nat \ {0} :
              /\ won.state = "frozen" => gate.state = "frozen"
              /\ gate' \in Gates /\ (gate' = lost \/ gate'.state = "active")
              /\ now' = third
              /\ announced' = Announced(Announced(announced, gate, won), won, lost)
              /\ learned' = IF gate'.state = "active" /\ other = "strong"
                            THEN Learn(Cleared(Cleared(learned, gate, won), won, lost), t, winner, third)
                            ELSE Cleared(Cleared(learned, gate, won), won, lost)
              /\ rows' \in Nat
              /\ failedAt' \in [{"both", "proxy"} -> [Targets -> Nat]]
              /\ worked' \subseteq Targets \X Paths
              /\ streak' = IF other = "strong" THEN [streak EXCEPT ![t] = Longer(@, winner)] ELSE streak
<1> USE DEF TypeOK
<1> DEFINE proxyDown == other = "strong" /\ winner = Direct
           Won(i)      == PathSucceeded(gate, i, t, winner)
           Lost(i, j)  == IF proxyDown THEN ProxyPathFailed(Won(i), j, t) ELSE Won(i)
           Final(i, j, k) == Expire(Lost(i, j), k)
           Table(i, j) == Cleared(Cleared(learned, gate, Won(i)), Won(i), Lost(i, j))
           Body(i, j, k) ==
             /\ gate' = Final(i, j, k) /\ now' = k
             /\ announced' = Announced(Announced(announced, gate, Won(i)), Won(i), Lost(i, j))
             /\ learned' = IF Final(i, j, k).state = "active" /\ other = "strong"
                           THEN Learn(Table(i, j), t, winner, k) ELSE Table(i, j)
             /\ rows' = IF winner = Proxy THEN 0
                        ELSE IF Final(i, j, k).state = "active" /\ other = "strong" /\ rows < FailureThreshold
                             THEN rows + 1 ELSE rows
             /\ failedAt' = IF proxyDown THEN [Forgiven(winner, j) EXCEPT !["proxy"][t] = j]
                                         ELSE Forgiven(winner, i)
             /\ worked' = IF proxyDown /\ Lost(i, j).reason = "proxy_outage" THEN {}
                          ELSE SeenWorking(t, winner)
             /\ streak' = IF other = "strong" THEN [streak EXCEPT ![t] = Longer(@, winner)] ELSE streak
<1>1. PICK i \in Later(now) : \E j \in Later(i) : \E k \in Later(j) : Body(i, j, k)
      BY DEF Observe
<1>2. PICK j \in Later(i) : \E k \in Later(j) : Body(i, j, k)  BY <1>1
<1>3. PICK k \in Later(j) : Body(i, j, k)  BY <1>2
<1>4. i \in Nat \ {0} /\ j \in Nat \ {0} /\ k \in Nat \ {0}  BY LaterType
<1>5. Won(i) \in Gates /\ (Won(i).state = "frozen" => gate.state = "frozen")
      BY <1>4, SucceededType
<1> HIDE DEF Won
<1>6. Lost(i, j) \in Gates  BY <1>4, <1>5, ProxyFailedType
<1> HIDE DEF Lost
<1>7. Final(i, j, k) \in Gates /\ (Final(i, j, k) = Lost(i, j) \/ Final(i, j, k).state = "active")
      BY <1>4, <1>6, ExpireType
<1> HIDE DEF Final
<1>8. rows' \in Nat  BY <1>3
<1>9. failedAt' \in [{"both", "proxy"} -> [Targets -> Nat]]
  <2>1. /\ Forgiven(winner, i) \in [{"both", "proxy"} -> [Targets -> Nat]]
        /\ Forgiven(winner, j) \in [{"both", "proxy"} -> [Targets -> Nat]]
        BY <1>4, ForgivenType
  <2> QED  BY <1>3, <1>4, <2>1
<1>10. worked' \subseteq Targets \X Paths  BY <1>3 DEF SeenWorking
<1> QED  BY <1>3, <1>4, <1>5, <1>6, <1>7, <1>8, <1>9, <1>10

LEMMA TypeNext == TypeOK /\ [Next]_vars => TypeOK'
<1> SUFFICES ASSUME TypeOK, [Next]_vars PROVE TypeOK'  OBVIOUS
<1> USE DEF TypeOK
<1>0. Bounded(learned)  BY DEF Bounded
<1>2. ASSUME NEW t \in Targets, PreferredPath(t) PROVE TypeOK'
  <2>1. PICK checked \in Later(now) : \E asked \in Later(checked) :
           /\ Transition(Check(gate, checked), asked)
           /\ learned' = IF Mode = "shadow" \/ Check(gate, checked).state = "frozen"
                         THEN Cleared(learned, gate, Check(gate, checked))
                         ELSE Forgotten(Cleared(learned, gate, Check(gate, checked)), t, asked)
           /\ UNCHANGED <<rows, failedAt, worked, streak>>
        BY <1>2 DEF PreferredPath
  <2>2. PICK asked \in Later(checked) :
           /\ Transition(Check(gate, checked), asked)
           /\ learned' = IF Mode = "shadow" \/ Check(gate, checked).state = "frozen"
                         THEN Cleared(learned, gate, Check(gate, checked))
                         ELSE Forgotten(Cleared(learned, gate, Check(gate, checked)), t, asked)
           /\ UNCHANGED <<rows, failedAt, worked, streak>>
        BY <2>1
  <2>3. checked \in Nat \ {0} /\ asked \in Nat \ {0}  BY LaterType
  <2>4. Check(gate, checked) \in Gates  BY <2>3, ExpireType DEF Check
  <2>5. Bounded(learned)'  BY <1>0, <2>2, ClearedBounded, ForgottenBounded
  <2> QED  BY <2>2, <2>3, <2>4, <2>5, AnnouncedType DEF Transition, Bounded
<1>3. ASSUME NEW t \in Targets, ObserveBothPathsFailed(t) PROVE TypeOK'
  <2>1. PICK instant \in Later(now) :
           /\ Transition(BothPathsFailed(gate, instant, t), instant)
           /\ learned' = Cleared(learned, gate, BothPathsFailed(gate, instant, t))
           /\ SeenFailure("both", t, instant)
           /\ worked' = {} /\ UNCHANGED <<rows, streak>>
        BY <1>3 DEF ObserveBothPathsFailed
  <2>2. instant \in Nat \ {0}  BY LaterType
  <2>3. BothPathsFailed(gate, instant, t) \in Gates  BY <2>2, BothFailedType
  <2>4. failedAt' \in [{"both", "proxy"} -> [Targets -> Nat]]  BY <2>1, <2>2, SeenFailureType
  <2>5. Bounded(learned)'  BY <1>0, <2>1, ClearedBounded
  <2> QED  BY <2>1, <2>2, <2>3, <2>4, <2>5, AnnouncedType DEF Transition, Bounded
<1>4. ASSUME NEW t \in Targets, ObserveProxyPathFailed(t) PROVE TypeOK'
  <2>1. PICK instant \in Later(now) :
           /\ Transition(ProxyPathFailed(gate, instant, t), instant)
           /\ learned' = Cleared(learned, gate, ProxyPathFailed(gate, instant, t))
           /\ SeenFailure("proxy", t, instant)
           /\ worked' \subseteq worked /\ UNCHANGED <<rows, streak>>
        BY <1>4 DEF ObserveProxyPathFailed
  <2>2. instant \in Nat \ {0}  BY LaterType
  <2>3. ProxyPathFailed(gate, instant, t) \in Gates  BY <2>2, ProxyFailedType
  <2>4. failedAt' \in [{"both", "proxy"} -> [Targets -> Nat]]  BY <2>1, <2>2, SeenFailureType
  <2>5. Bounded(learned)'  BY <1>0, <2>1, ClearedBounded
  <2> QED  BY <2>1, <2>2, <2>3, <2>4, <2>5, AnnouncedType DEF Transition, Bounded
<1>5. ASSUME NEW t \in Targets, ObservePathSucceeded(t) PROVE TypeOK'
  <2>1. PICK instant \in Later(now) :
           /\ Transition(PathSucceeded(gate, instant, t, Proxy), instant)
           /\ learned' = Cleared(learned, gate, PathSucceeded(gate, instant, t, Proxy))
           /\ rows' = 0 /\ failedAt' = Forgiven(Proxy, instant)
           /\ worked' = SeenWorking(t, Proxy) /\ UNCHANGED streak
        BY <1>5 DEF ObservePathSucceeded
  <2>2. instant \in Nat \ {0} /\ Proxy \in Paths  BY LaterType DEF Paths
  <2>3. PathSucceeded(gate, instant, t, Proxy) \in Gates  BY <2>2, SucceededType
  <2>4. failedAt' \in [{"both", "proxy"} -> [Targets -> Nat]]  BY <2>1, <2>2, ForgivenType
  <2>5. Bounded(learned)'  BY <1>0, <2>1, ClearedBounded
  <2>6. worked' \subseteq Targets \X Paths  BY <2>1, <2>2 DEF SeenWorking
  <2> QED  BY <2>1, <2>2, <2>3, <2>4, <2>5, <2>6, AnnouncedType DEF Transition, Bounded
<1>6. ASSUME NEW t \in Targets, NEW winner \in Paths, NEW other, Observe(t, winner, other)
      PROVE  TypeOK'
  <2>1. PICK won \in Gates, lost \in Gates, third \in Nat \ {0} :
           /\ gate' \in Gates /\ now' = third
           /\ announced' = Announced(Announced(announced, gate, won), won, lost)
           /\ \/ learned' = Learn(Cleared(Cleared(learned, gate, won), won, lost), t, winner, third)
              \/ learned' = Cleared(Cleared(learned, gate, won), won, lost)
           /\ rows' \in Nat
           /\ failedAt' \in [{"both", "proxy"} -> [Targets -> Nat]]
           /\ worked' \subseteq Targets \X Paths
           /\ streak' = streak \/ streak' = [streak EXCEPT ![t] = Longer(@, winner)]
        BY <1>6, ObserveStep
  <2>2. Bounded(Cleared(Cleared(learned, gate, won), won, lost))  BY <1>0, ClearedBounded
  <2>3. Bounded(learned)'  BY <2>1, <2>2, LearnBounded
  <2>4. announced' \in {"active", "frozen"}  BY <2>1, AnnouncedType
  <2>5. streak' \in [Targets -> Streaks]  BY <2>1, LongerType
  <2> QED  BY <2>1, <2>3, <2>4, <2>5 DEF Bounded
<1>7. CASE UNCHANGED vars  BY <1>7 DEF vars, runtimeVars, Tables, Entries
<1> QED  BY <1>2, <1>3, <1>4, <1>5, <1>6, <1>7 DEF Next

\* Every variable keeps its type, and the table of process-local preferences
\* its bound MaxEntries: engine.Observe prunes or refuses before it inserts.
THEOREM LearningTypes == Spec => []TypeOK
<1> QED  BY TypeInit, TypeNext, PTL DEF Spec

-----------------------------------------------------------------------------
(* A freeze is of learning as a whole.                                     *)

\* A transition to or within a freeze leaves nothing learned, and says so.
LEMMA FrozenTransition ==
    ASSUME NEW before, NEW after, NEW table, NEW event,
           before.state = "frozen" => table = Empty /\ event = "frozen",
           after.state = "frozen"
    PROVE  Cleared(table, before, after) = Empty /\ Announced(event, before, after) = "frozen"
BY DEF Cleared, Announced, Changed

LEMMA FrozenNext == TypeOK /\ FrozenKnowsNothing /\ [Next]_vars => FrozenKnowsNothing'
<1> SUFFICES ASSUME TypeOK, FrozenKnowsNothing, [Next]_vars, gate'.state = "frozen"
             PROVE  learned' = Empty /\ announced' = "frozen"
    BY DEF FrozenKnowsNothing
<1> USE DEF FrozenKnowsNothing
<1>1. ASSUME NEW t \in Targets, PreferredPath(t) PROVE learned' = Empty /\ announced' = "frozen"
  <2>1. PICK g : /\ gate' = g /\ announced' = Announced(announced, gate, g)
                 /\ g.state = "frozen" => learned' = Cleared(learned, gate, g)
        BY <1>1 DEF PreferredPath, Transition
  <2> QED  BY <2>1, FrozenTransition
<1>2. ASSUME NEW t \in Targets,
             ObserveBothPathsFailed(t) \/ ObserveProxyPathFailed(t) \/ ObservePathSucceeded(t)
      PROVE  learned' = Empty /\ announced' = "frozen"
  <2>1. PICK g : /\ gate' = g /\ announced' = Announced(announced, gate, g)
                 /\ learned' = Cleared(learned, gate, g)
        BY <1>2 DEF ObserveBothPathsFailed, ObserveProxyPathFailed, ObservePathSucceeded, Transition
  <2> QED  BY <2>1, FrozenTransition
<1>3. ASSUME NEW t \in Targets, NEW winner \in Paths, NEW other, Observe(t, winner, other)
      PROVE  learned' = Empty /\ announced' = "frozen"
  <2>1. PICK won \in Gates, lost \in Gates, third \in Nat \ {0} :
           /\ gate' = lost \/ gate'.state = "active"
           /\ announced' = Announced(Announced(announced, gate, won), won, lost)
           /\ learned' = IF gate'.state = "active" /\ other = "strong"
                         THEN Learn(Cleared(Cleared(learned, gate, won), won, lost), t, winner, third)
                         ELSE Cleared(Cleared(learned, gate, won), won, lost)
        BY <1>3, ObserveStep
  <2>2. lost.state = "frozen" /\ learned' = Cleared(Cleared(learned, gate, won), won, lost)
        BY <2>1
  <2>3. won.state = "frozen" => /\ Cleared(learned, gate, won) = Empty
                                /\ Announced(announced, gate, won) = "frozen"
        BY FrozenTransition
  <2> QED  BY <2>1, <2>2, <2>3, FrozenTransition
<1>4. CASE UNCHANGED vars  BY <1>4 DEF vars, runtimeVars
<1> QED  BY <1>1, <1>2, <1>3, <1>4 DEF Next

\* While the gate is frozen no process-local preference or counter exists,
\* and the last learning_health event says frozen.
THEOREM FreezeIsTotal == Spec => []FrozenKnowsNothing
<1>1. Init => FrozenKnowsNothing  BY DEF Init, FrozenKnowsNothing, ActiveGate
<1> QED  BY <1>1, LearningTypes, FrozenNext, PTL DEF Spec

-----------------------------------------------------------------------------
(* A preference is earned.  The inductive form also speaks of the policies *)
(* on their way to a preference: their wins are the end of the streak.     *)

EarnedBy(policy, run) ==
    /\ policy.wins > 0 => run.path = policy.path /\ run.wins >= policy.wins
    /\ Preferred(policy) => /\ policy.state = policy.path
                            /\ policy.wins >= Threshold(policy.path)
AllEarned(table, runs) == \A t \in Targets : EarnedBy(table[t], runs[t])

LEMMA NoPolicyEarned == ASSUME NEW run PROVE EarnedBy(NoPolicy, run)
BY DEF EarnedBy, NoPolicy, Preferred, Paths, Direct, Proxy

\* Dropping entries takes nothing away from the others.
LEMMA DroppedEarned ==
    ASSUME NEW table, NEW other, NEW runs, AllEarned(table, runs),
           \A t \in Targets : other[t] = table[t] \/ other[t] = NoPolicy
    PROVE  AllEarned(other, runs)
BY NoPolicyEarned DEF AllEarned

LEMMA ClearedEarned ==
    ASSUME NEW table \in Tables, NEW runs, AllEarned(table, runs), NEW before, NEW after
    PROVE  AllEarned(Cleared(table, before, after), runs) /\ Cleared(table, before, after) \in Tables
<1>1. \A t \in Targets : Cleared(table, before, after)[t] \in {table[t], NoPolicy}
      BY DEF Cleared, Empty
<1>2. Empty \in Tables  BY DEF Empty, Tables
<1> QED  BY <1>1, <1>2, DroppedEarned DEF Cleared

\* One more win of a streak that the policy was the end of.
LEMMA UpdatedEarned ==
    ASSUME NEW policy \in Policy \cup {NoPolicy}, NEW run \in Streaks, EarnedBy(policy, run),
           NEW path \in Paths, NEW instant \in Nat
    PROVE  EarnedBy(Updated(policy, path, instant), Longer(run, path))
<1> DEFINE old == IF Live(policy, instant) THEN policy ELSE NoPolicy
           new == Updated(policy, path, instant)
<1>1. old \in Policy \cup {NoPolicy} /\ EarnedBy(old, run)  BY NoPolicyEarned
<1>2. Threshold(path) \in Nat /\ Threshold(path) >= 2  BY LearningAssumption DEF Threshold
<1> HIDE DEF old
<1>3. /\ new.state = IF old.state = path \/ Wins(old, path) >= Threshold(path) THEN path
                     ELSE IF Contradicts(old, path) THEN "unstable" ELSE old.state
      /\ new.path = path /\ new.wins = Wins(old, path)
      BY DEF Updated, old
<1> HIDE DEF new
<1>4. old.wins \in Nat /\ old.path \in Paths /\ run.wins \in Nat
      BY <1>1 DEF Policy, NoPolicy, Streaks, Paths
<1>5. Longer(run, path).path = path /\ Longer(run, path).wins >= Wins(old, path)
  <2>1. CASE old.path # path  BY <1>2, <1>4, <2>1 DEF Longer, Wins
  <2>2. CASE old.path = path /\ old.wins = 0  BY <1>2, <1>4, <2>2 DEF Longer, Wins
  <2>3. CASE old.path = path /\ old.wins > 0
    <3>1. run.path = path /\ run.wins >= old.wins  BY <1>1, <2>3 DEF EarnedBy
    <3> QED  BY <1>2, <1>4, <2>3, <3>1 DEF Longer, Wins
  <2> QED  BY <1>4, <2>1, <2>2, <2>3
<1>6. ASSUME Preferred(new) PROVE new.state = path /\ new.wins >= Threshold(path)
  <2>1. CASE old.state = path
    <3>1. Preferred(old)  BY <2>1 DEF Preferred
    <3>2. old.path = path /\ old.wins >= Threshold(path)  BY <1>1, <2>1, <3>1 DEF EarnedBy
    <3>3. Wins(old, path) = Threshold(path)  BY <1>2, <1>4, <3>2 DEF Wins
    <3> QED  BY <1>2, <1>3, <2>1, <3>3
  <2>2. CASE old.state # path /\ Wins(old, path) >= Threshold(path)  BY <1>3, <2>2
  <2>3. CASE old.state # path /\ ~(Wins(old, path) >= Threshold(path))
    <3>1. new.state \notin Paths
      <4>1. CASE Contradicts(old, path)
            BY <1>3, <2>3, <4>1 DEF Paths, Direct, Proxy
      <4>2. CASE ~Contradicts(old, path)
        <5>1. new.state = old.state  BY <1>3, <2>3, <4>2
        <5>2. old.state \notin Paths  BY <2>3, <4>2 DEF Contradicts, Preferred
        <5> QED  BY <5>1, <5>2
      <4> QED  BY <4>1, <4>2
    <3> QED  BY <1>6, <3>1 DEF Preferred
  <2> QED  BY <2>1, <2>2, <2>3
<1>7. EarnedBy(new, Longer(run, path))  BY <1>3, <1>5, <1>6 DEF EarnedBy
<1> QED  BY <1>7 DEF new

\* Learning extends the table and the streak of one target together; a full
\* table refuses, and then has no policy that the streak could contradict.
LEMMA LearnEarned ==
    ASSUME NEW table \in Tables, NEW runs \in [Targets -> Streaks], AllEarned(table, runs),
           NEW t \in Targets, NEW path \in Paths, NEW instant \in Nat
    PROVE  AllEarned(Learn(table, t, path, instant), [runs EXCEPT ![t] = Longer(@, path)])
<1> DEFINE room == Room(table, t, instant)
           longer == [runs EXCEPT ![t] = Longer(@, path)]
<1>1. \A o \in Targets : room[o] \in {table[o], NoPolicy}  BY DEF Room, Pruned
<1>2. room \in Tables  BY DEF Room, Pruned, Tables
<1>3. AllEarned(room, runs)  BY <1>1, DroppedEarned
<1> HIDE DEF room
<1>4. CASE room[t] = NoPolicy /\ Cardinality(Entries(room)) >= MaxEntries
  <2>1. Learn(table, t, path, instant) = room  BY <1>4 DEF Learn, room
  <2>2. ASSUME NEW o \in Targets PROVE EarnedBy(room[o], longer[o])
        BY <1>3, <1>4, NoPolicyEarned DEF AllEarned
  <2> QED  BY <2>1, <2>2 DEF AllEarned
<1>5. CASE ~(room[t] = NoPolicy /\ Cardinality(Entries(room)) >= MaxEntries)
  <2>1. Learn(table, t, path, instant) = [room EXCEPT ![t] = Updated(@, path, instant)]
        BY <1>5 DEF Learn, room
  <2>2. EarnedBy(Updated(room[t], path, instant), Longer(runs[t], path))
        BY <1>2, <1>3, UpdatedEarned DEF AllEarned, Tables
  <2>3. ASSUME NEW o \in Targets
        PROVE  EarnedBy([room EXCEPT ![t] = Updated(@, path, instant)][o], longer[o])
        BY <1>2, <1>3, <2>2 DEF AllEarned, Tables
  <2> QED  BY <2>1, <2>3 DEF AllEarned
<1> QED  BY <1>4, <1>5

LEMMA EarnedNext ==
    /\ TypeOK /\ TypeOK' /\ FrozenKnowsNothing'
    /\ AllEarned(learned, streak) /\ [Next]_vars
    => AllEarned(learned, streak)'
<1> SUFFICES ASSUME TypeOK, TypeOK', FrozenKnowsNothing', AllEarned(learned, streak), [Next]_vars
             PROVE  AllEarned(learned', streak')
    BY DEF AllEarned
<1>1. learned \in Tables /\ streak \in [Targets -> Streaks]  BY DEF TypeOK
<1>2. ASSUME NEW t \in Targets, PreferredPath(t) PROVE AllEarned(learned', streak')
  <2>1. PICK g, asked : learned' \in {Cleared(learned, gate, g),
                                      Forgotten(Cleared(learned, gate, g), t, asked)}
        BY <1>2 DEF PreferredPath
  <2>2. streak' = streak  BY <1>2 DEF PreferredPath
  <2>3. AllEarned(Cleared(learned, gate, g), streak) /\ Cleared(learned, gate, g) \in Tables
        BY <1>1, ClearedEarned
  <2>4. \A o \in Targets : learned'[o] \in {Cleared(learned, gate, g)[o], NoPolicy}
        BY <2>1, <2>3 DEF Forgotten, Tables
  <2> QED  BY <2>2, <2>3, <2>4, DroppedEarned
<1>3. ASSUME NEW t \in Targets,
             ObserveBothPathsFailed(t) \/ ObserveProxyPathFailed(t) \/ ObservePathSucceeded(t)
      PROVE  AllEarned(learned', streak')
  <2>1. PICK g : learned' = Cleared(learned, gate, g) /\ streak' = streak
        BY <1>3 DEF ObserveBothPathsFailed, ObserveProxyPathFailed, ObservePathSucceeded
  <2> QED  BY <1>1, <2>1, ClearedEarned
<1>4. ASSUME NEW t \in Targets, NEW winner \in Paths, NEW other, Observe(t, winner, other)
      PROVE  AllEarned(learned', streak')
  <2>1. PICK won \in Gates, lost \in Gates, third \in Nat \ {0} :
           /\ gate' \in Gates
           /\ learned' = IF gate'.state = "active" /\ other = "strong"
                         THEN Learn(Cleared(Cleared(learned, gate, won), won, lost), t, winner, third)
                         ELSE Cleared(Cleared(learned, gate, won), won, lost)
           /\ streak' = IF other = "strong" THEN [streak EXCEPT ![t] = Longer(@, winner)] ELSE streak
        BY <1>4, ObserveStep
  <2>2. /\ Cleared(Cleared(learned, gate, won), won, lost) \in Tables
        /\ AllEarned(Cleared(Cleared(learned, gate, won), won, lost), streak)
        BY <1>1, ClearedEarned
  <2>3. CASE gate'.state = "active" /\ other = "strong"
        BY <1>1, <2>1, <2>2, <2>3, LearnEarned
  <2>4. CASE gate'.state # "active"
    <3>1. gate'.state = "frozen"  BY <2>1, <2>4 DEF Gates
    <3>2. learned' = Empty  BY <3>1 DEF FrozenKnowsNothing
    <3> QED  BY <3>2, NoPolicyEarned DEF AllEarned, Empty
  <2>5. CASE other # "strong"  BY <2>1, <2>2, <2>5
  <2> QED  BY <2>3, <2>4, <2>5
<1>5. CASE UNCHANGED vars  BY <1>5 DEF vars, runtimeVars
<1> QED  BY <1>2, <1>3, <1>4, <1>5 DEF Next

\* A path is preferred only after as many consecutive strong pairs as its
\* threshold asks for, through every freeze, expiry and refusal.
THEOREM PreferenceEarned == Spec => []PreferenceIsEarned
<1>1. Init => AllEarned(learned, streak)
      BY NoPolicyEarned DEF Init, AllEarned, Empty
<1>2. TypeOK /\ AllEarned(learned, streak) => PreferenceIsEarned
  <2> SUFFICES ASSUME TypeOK, AllEarned(learned, streak), NEW t \in Targets, Preferred(learned[t])
               PROVE  /\ streak[t].path = learned[t].state
                      /\ streak[t].wins >= Threshold(learned[t].state)
      BY DEF PreferenceIsEarned
  <2>1. learned[t].state = learned[t].path /\ learned[t].wins >= Threshold(learned[t].path)
        BY DEF AllEarned, EarnedBy
  <2>2. Threshold(learned[t].path) \in Nat /\ Threshold(learned[t].path) >= 2
        BY LearningAssumption DEF Threshold
  <2>3. learned[t].wins \in Nat /\ streak[t].wins \in Nat
        BY DEF TypeOK, Tables, Policy, NoPolicy, Streaks
  <2>4. streak[t].path = learned[t].path /\ streak[t].wins >= learned[t].wins
        BY <2>1, <2>2, <2>3 DEF AllEarned, EarnedBy
  <2> QED  BY <2>1, <2>2, <2>3, <2>4
<1> QED  BY <1>1, <1>2, LearningTypes, FreezeIsTotal, EarnedNext, PTL DEF Spec

-----------------------------------------------------------------------------
(* The gate changes its state on evidence.  Inductively: while the gate is *)
(* active its two open windows are accounted for by the failures seen, and *)
(* while it is frozen its recoveries are by the successes seen.            *)

Failures == [{"both", "proxy"} -> [Targets -> Nat]]

\* Each member of a window still open has failed since it opened.
Counted(set, seen, at) ==
    /\ set.since =< at
    /\ set.since = 0 => set.members = {}
    /\ set.since + FailureWindow >= at => \A m \in set.members : seen[m] >= set.since

Accounted(g, failures, at) ==
    g.state = "active" => /\ Counted(g.global, failures["both"], at)
                          /\ Counted(g.proxy, failures["proxy"], at)

Recovering(g, seen) ==
    g.state = "frozen" =>
        \A m \in g.recoveries.members : \E path \in Paths :
            <<m, path>> \in seen /\ (g.reason = "proxy_outage" => path = Proxy)

\* The targets whose failure counts at an instant.
Failing(seen, at) == {t \in Targets : seen[t] > 0 /\ seen[t] + FailureWindow >= at}

FailuresWith(failures, kind, t, instant) ==
    [k \in {"both", "proxy"} |->
        Recent(IF k = kind THEN [failures[k] EXCEPT ![t] = instant] ELSE failures[k], instant)]

LEMMA NothingCounted == ASSUME NEW seen, NEW at \in Nat PROVE Counted(NoTargets, seen, at)
BY DEF Counted, NoTargets

\* A window accounted for stays so as time passes and old failures are dropped.
LEMMA CountedLater ==
    ASSUME NEW set \in TargetSets, NEW seen \in [Targets -> Nat], NEW at \in Nat,
           Counted(set, seen, at), NEW later \in Nat, at =< later
    PROVE  Counted(set, seen, later) /\ Counted(set, Recent(seen, later), later)
<1>1. set.since \in Nat /\ set.members \subseteq Targets /\ FailureWindow \in Nat
      BY HealthAssumption DEF TargetSets
<1>2. set.since =< later  BY <1>1 DEF Counted
<1>3. ASSUME set.since + FailureWindow >= later, NEW m \in set.members
      PROVE  seen[m] >= set.since /\ Recent(seen, later)[m] = seen[m]
  <2>1. set.since + FailureWindow >= at  BY <1>1, <1>3
  <2>2. m \in Targets /\ seen[m] \in Nat /\ seen[m] >= set.since  BY <1>1, <2>1 DEF Counted
  <2>3. seen[m] + FailureWindow >= later  BY <1>1, <1>3, <2>2
  <2> QED  BY <2>2, <2>3 DEF Recent
<1> QED  BY <1>2, <1>3 DEF Counted

\* A failure added to a window is accounted for, and every member of the
\* window still counts.
LEMMA AddCounted ==
    ASSUME NEW set \in TargetSets, NEW seen \in [Targets -> Nat], NEW at \in Nat,
           Counted(set, seen, at), NEW instant \in Nat \ {0}, at =< instant, NEW t \in Targets
    PROVE  LET failing == Add(set, instant, FailureWindow, t)
               new     == Recent([seen EXCEPT ![t] = instant], instant)
           IN  Counted(failing, new, instant) /\ failing.members \subseteq Failing(new, instant)
<1> DEFINE failing == Add(set, instant, FailureWindow, t)
           new     == Recent([seen EXCEPT ![t] = instant], instant)
<1>1. set.since \in Nat /\ set.members \subseteq Targets /\ FailureWindow \in Nat
      BY HealthAssumption DEF TargetSets
<1>2. new[t] = instant  BY <1>1 DEF Recent
<1>3. CASE set.since = 0 \/ instant - set.since > FailureWindow
  <2>1. failing.since = instant /\ failing.members = {t}  BY <1>3 DEF Add
  <2> QED  BY <1>1, <1>2, <2>1 DEF Counted, Failing
<1>4. CASE ~(set.since = 0 \/ instant - set.since > FailureWindow)
  <2>1. failing.since = set.since /\ failing.members = set.members \cup {t}
        BY <1>4 DEF Add, TargetSets
  <2>2. set.since > 0 /\ set.since + FailureWindow >= instant /\ set.since + FailureWindow >= at
        BY <1>1, <1>4
  <2>3. set.since =< instant  BY <1>1 DEF Counted
  <2>4. ASSUME NEW m \in failing.members
        PROVE  new[m] >= set.since /\ m \in Failing(new, instant)
    <3>1. CASE m = t  BY <1>1, <1>2, <2>3, <3>1 DEF Failing
    <3>2. CASE m # t
      <4>1. m \in Targets /\ seen[m] \in Nat /\ seen[m] >= set.since
            BY <1>1, <2>1, <2>2, <3>2 DEF Counted
      <4>2. seen[m] + FailureWindow >= instant  BY <1>1, <2>2, <4>1
      <4>3. new[m] = seen[m]  BY <3>2, <4>1, <4>2 DEF Recent
      <4>4. new[m] > 0 /\ new[m] + FailureWindow >= instant  BY <1>1, <2>2, <4>1, <4>2, <4>3
      <4> QED  BY <4>1, <4>3, <4>4 DEF Failing
    <3> QED  BY <3>1, <3>2
  <2> HIDE DEF failing, new
  <2>5. failing.since = set.since /\ failing.since > 0 /\ failing.since =< instant
        BY <2>1, <2>2, <2>3
  <2>6. Counted(failing, new, instant)  BY <2>4, <2>5 DEF Counted
  <2> QED  BY <2>4, <2>6 DEF failing, new
<1> QED  BY <1>3, <1>4

\* A window that holds enough targets proves that enough of them fail.
LEMMA EnoughFail ==
    ASSUME NEW members, NEW seen, NEW at, members \subseteq Failing(seen, at),
           Cardinality(members) >= FailureThreshold
    PROVE  /\ Cardinality(Failing(seen, at)) >= FailureThreshold
           /\ Cardinality({t \in Targets : seen[t] > 0}) >= FailureThreshold
<1>1. IsFiniteSet(Failing(seen, at)) /\ IsFiniteSet({t \in Targets : seen[t] > 0})
      BY FiniteTargets, FS_Subset DEF Failing
<1>2. members \subseteq {t \in Targets : seen[t] > 0}  BY DEF Failing
<1>3. /\ Cardinality(members) =< Cardinality(Failing(seen, at))
      /\ Cardinality(members) =< Cardinality({t \in Targets : seen[t] > 0})
      /\ IsFiniteSet(members)
      BY <1>1, <1>2, FS_Subset
<1>4. /\ Cardinality(members) \in Nat /\ Cardinality(Failing(seen, at)) \in Nat
      /\ Cardinality({t \in Targets : seen[t] > 0}) \in Nat
      BY <1>1, <1>3, FS_CardinalityType
<1> QED  BY <1>3, <1>4, HealthAssumption

\* Expire thaws when the freeze is over, and does nothing else.
LEMMA ExpireStep ==
    ASSUME NEW g \in Gates, NEW instant \in Nat
    PROVE  \/ Expire(g, instant) = g /\ (g.state = "frozen" => instant < g.until)
           \/ /\ g.state = "frozen" /\ instant >= g.until
              /\ Expire(g, instant) = ActiveGate("active")
BY DEF Expire, Gates

\* What a failure of both paths does to the gate, and what it takes to freeze.
LEMMA BothFailedStep ==
    ASSUME NEW g \in Gates, NEW failures \in Failures, NEW at \in Nat, Accounted(g, failures, at),
           NEW instant \in Nat \ {0}, at =< instant, NEW t \in Targets
    PROVE  LET h   == BothPathsFailed(g, instant, t)
               new == FailuresWith(failures, "both", t, instant)
           IN  /\ Accounted(h, new, instant)
               /\ h.state = "frozen" => h.recoveries = NoTargets
               /\ h.state = "frozen" /\ g.state = "active" =>
                     /\ h.reason = "global_outage" /\ h.until = instant + FreezeDuration
                     /\ Cardinality(Failing(new["both"], instant)) >= FailureThreshold
               /\ h.state = "active" /\ g.state = "frozen" => instant >= g.until
<1> DEFINE e == Expire(g, instant)
           h == BothPathsFailed(g, instant, t)
           new == FailuresWith(failures, "both", t, instant)
           failing == Add(e.global, instant, FailureWindow, t)
           counted == [e EXCEPT !.global = failing]
<1>1. e \in Gates  BY ExpireType
<1>2. e = g \/ (g.state = "frozen" /\ instant >= g.until /\ e = ActiveGate("active"))
      BY ExpireStep
<1>3. \/ Counted(e.global, failures["both"], at) /\ Counted(e.proxy, failures["proxy"], at)
      \/ e.state = "frozen"
  <2>1. CASE e = g  BY <1>1, <2>1 DEF Accounted, Gates
  <2>2. CASE e = ActiveGate("active")  BY <2>2, NothingCounted DEF ActiveGate
  <2> QED  BY <1>2, <2>1, <2>2
<1>4. h = AfterBothFailed(e, instant, t)  BY DEF BothPathsFailed
<1>5. /\ failures["both"] \in [Targets -> Nat] /\ failures["proxy"] \in [Targets -> Nat]
      /\ e.global \in TargetSets /\ e.proxy \in TargetSets
      BY <1>1 DEF Failures, Gates
<1>6. /\ new["both"] = Recent([failures["both"] EXCEPT ![t] = instant], instant)
      /\ new["proxy"] = Recent(failures["proxy"], instant)
      BY DEF FailuresWith
<1> HIDE DEF e, h, new
<1>7. CASE e.state = "frozen"
  <2>1. h = Extend(e, instant)  BY <1>4, <1>7 DEF AfterBothFailed
  <2>2. h.state = "frozen" /\ h.recoveries = NoTargets  BY <1>1, <1>7, <2>1 DEF Extend, Gates
  <2>3. g.state = "frozen"  BY <1>2, <1>7
  <2> QED  BY <2>2, <2>3 DEF Accounted, h, new
<1>8. CASE e.state = "active"
  <2>1. /\ Counted(failing, new["both"], instant)
        /\ failing.members \subseteq Failing(new["both"], instant)
        BY <1>3, <1>5, <1>6, <1>8, AddCounted
  <2>2. Counted(e.proxy, new["proxy"], instant)
        BY <1>3, <1>5, <1>6, <1>8, CountedLater
  <2> HIDE DEF failing
  <2>3. counted.state = "active" /\ counted.global = failing /\ counted.proxy = e.proxy
        BY <1>1, <1>8 DEF Gates
  <2>4. CASE Cardinality(failing.members) >= FailureThreshold
    <3>1. h = Freeze(counted, instant, "global_outage")
          BY <1>4, <1>8, <2>4 DEF AfterBothFailed, failing
    <3>2. /\ h.state = "frozen" /\ h.reason = "global_outage"
          /\ h.until = instant + FreezeDuration /\ h.recoveries = NoTargets
          BY <1>1, <3>1 DEF Freeze, Gates
    <3>3. Cardinality(Failing(new["both"], instant)) >= FailureThreshold
          BY <2>1, <2>4, EnoughFail
    <3> QED  BY <3>2, <3>3 DEF Accounted, h, new
  <2>5. CASE ~(Cardinality(failing.members) >= FailureThreshold)
    <3>1. h = counted  BY <1>4, <1>8, <2>5 DEF AfterBothFailed, failing
    <3>2. Accounted(h, new, instant)  BY <2>1, <2>2, <2>3, <3>1 DEF Accounted
    <3>3. g.state = "frozen" => instant >= g.until  BY <1>2, <1>8
    <3> QED  BY <2>3, <3>1, <3>2, <3>3 DEF h, new
  <2> QED  BY <2>4, <2>5
<1> QED  BY <1>1, <1>7, <1>8 DEF Gates

\* The same of a failure of the Proxy path; a window just emptied by a thaw
\* does not freeze again, and a freeze is never shortened.
LEMMA ProxyFailedStep ==
    ASSUME NEW g \in Gates, NEW failures \in Failures, NEW at \in Nat, Accounted(g, failures, at),
           NEW instant \in Nat \ {0}, at =< instant, NEW t \in Targets
    PROVE  LET h   == ProxyPathFailed(g, instant, t)
               new == FailuresWith(failures, "proxy", t, instant)
           IN  /\ Accounted(h, new, instant)
               /\ h.state = "frozen" /\ g.state = "active" =>
                     /\ h.reason = "proxy_outage" /\ h.until = instant + FreezeDuration
                     /\ h.recoveries = NoTargets /\ g.proxy # NoTargets
                     /\ Cardinality(Failing(new["proxy"], instant)) >= FailureThreshold
                     /\ Cardinality({x \in Targets : new["proxy"][x] > 0}) >= FailureThreshold
               /\ h.state = "frozen" /\ g.state = "frozen" =>
                     /\ h.reason = g.reason /\ h.until >= g.until
                     /\ h.recoveries = IF h.reason = "proxy_outage" THEN NoTargets ELSE g.recoveries
               /\ h.state = "active" => h.reason = IF g.state = "active" THEN g.reason ELSE "active"
               /\ h.state = "active" /\ g.state = "frozen" => instant >= g.until
<1> DEFINE e == Expire(g, instant)
           h == ProxyPathFailed(g, instant, t)
           new == FailuresWith(failures, "proxy", t, instant)
           failing == Add(e.proxy, instant, FailureWindow, t)
           counted == [e EXCEPT !.proxy = failing]
<1>1. e \in Gates  BY ExpireType
<1>2. e = g \/ (g.state = "frozen" /\ instant >= g.until /\ e = ActiveGate("active"))
      BY ExpireStep
<1>3. \/ Counted(e.global, failures["both"], at) /\ Counted(e.proxy, failures["proxy"], at)
      \/ e.state = "frozen"
  <2>1. CASE e = g  BY <1>1, <2>1 DEF Accounted, Gates
  <2>2. CASE e = ActiveGate("active")  BY <2>2, NothingCounted DEF ActiveGate
  <2> QED  BY <1>2, <2>1, <2>2
<1>4. h = AfterProxyFailed(e, instant, t)  BY DEF ProxyPathFailed
<1>5. /\ failures["both"] \in [Targets -> Nat] /\ failures["proxy"] \in [Targets -> Nat]
      /\ e.global \in TargetSets /\ e.proxy \in TargetSets
      BY <1>1 DEF Failures, Gates
<1>6. /\ new["proxy"] = Recent([failures["proxy"] EXCEPT ![t] = instant], instant)
      /\ new["both"] = Recent(failures["both"], instant)
      BY DEF FailuresWith
<1> HIDE DEF e, h, new
<1>7. CASE e.state = "frozen"
  <2>1. e = g /\ g.state = "frozen"
        BY <1>2, <1>7 DEF ActiveGate
  <2>2. CASE e.reason = "proxy_outage"
    <3>1. h = Extend(e, instant)  BY <1>4, <1>7, <2>2 DEF AfterProxyFailed
    <3>2. /\ h.state = "frozen" /\ h.reason = e.reason /\ h.recoveries = NoTargets
          /\ h.until = IF instant + FreezeDuration > e.until THEN instant + FreezeDuration ELSE e.until
          BY <1>1, <1>7, <3>1 DEF Extend, Gates
    <3>3. h.until >= e.until  BY <1>1, <3>2, HealthAssumption DEF Gates
    <3> QED  BY <2>1, <2>2, <3>2, <3>3 DEF Accounted, h, new
  <2>3. CASE e.reason # "proxy_outage"
    <3>1. h = g  BY <1>4, <1>7, <2>1, <2>3 DEF AfterProxyFailed
    <3>2. g.until \in Nat  BY DEF Gates
    <3> QED  BY <1>7, <2>1, <2>3, <3>1, <3>2 DEF Accounted, h, new
  <2> QED  BY <2>2, <2>3
<1>8. CASE e.state = "active"
  <2>1. /\ Counted(failing, new["proxy"], instant)
        /\ failing.members \subseteq Failing(new["proxy"], instant)
        BY <1>3, <1>5, <1>6, <1>8, AddCounted
  <2>2. Counted(e.global, new["both"], instant)
        BY <1>3, <1>5, <1>6, <1>8, CountedLater
  <2>3. e.proxy = NoTargets => Cardinality(failing.members) < FailureThreshold
    <3> SUFFICES ASSUME e.proxy = NoTargets PROVE Cardinality(failing.members) < FailureThreshold
        OBVIOUS
    <3>1. failing.members = {t}  BY DEF Add, NoTargets
    <3>2. Cardinality({t}) = 1  BY FS_Singleton
    <3> QED  BY <3>1, <3>2, HealthAssumption
  <2> HIDE DEF failing
  <2>4. /\ counted.state = "active" /\ counted.proxy = failing /\ counted.global = e.global
        /\ counted.reason = e.reason
        BY <1>1, <1>8 DEF Gates
  <2>5. e.reason = IF g.state = "active" THEN g.reason ELSE "active"
        BY <1>2, <1>8 DEF ActiveGate
  <2>6. CASE Cardinality(failing.members) >= FailureThreshold
    <3>1. h = Freeze(counted, instant, "proxy_outage")
          BY <1>4, <1>8, <2>6 DEF AfterProxyFailed, failing
    <3>2. /\ h.state = "frozen" /\ h.reason = "proxy_outage"
          /\ h.until = instant + FreezeDuration /\ h.recoveries = NoTargets
          BY <1>1, <3>1 DEF Freeze, Gates
    <3>3. /\ Cardinality(Failing(new["proxy"], instant)) >= FailureThreshold
          /\ Cardinality({x \in Targets : new["proxy"][x] > 0}) >= FailureThreshold
          BY <2>1, <2>6, EnoughFail
    <3>4. e = g /\ g.state = "active" /\ g.proxy # NoTargets
      <4>1. Cardinality(failing.members) \in Nat
        <5>1. IsFiniteSet(failing.members)
              BY <2>1, FiniteTargets, FS_Subset DEF Failing
        <5> QED  BY <5>1, FS_CardinalityType
      <4>2. e.proxy # NoTargets  BY <2>3, <2>6, <4>1, HealthAssumption
      <4> QED  BY <1>2, <1>8, <4>2 DEF ActiveGate
    <3> QED  BY <3>2, <3>3, <3>4 DEF Accounted, h, new
  <2>7. CASE ~(Cardinality(failing.members) >= FailureThreshold)
    <3>1. h = counted  BY <1>4, <1>8, <2>7 DEF AfterProxyFailed, failing
    <3>2. Accounted(h, new, instant)  BY <2>1, <2>2, <2>4, <3>1 DEF Accounted
    <3>3. g.state = "frozen" => instant >= g.until  BY <1>2, <1>8
    <3> QED  BY <2>4, <2>5, <3>1, <3>2, <3>3 DEF h, new
  <2> QED  BY <2>6, <2>7
<1> QED  BY <1>1, <1>7, <1>8 DEF Gates

\* The targets whose success counts towards the end of g's freeze.
Recovered(g, seen) == {t \in Targets : \E path \in Paths :
                         <<t, path>> \in seen /\ (g.reason = "proxy_outage" => path = Proxy)}

ForgivenOf(failures, path, instant) ==
    [failures EXCEPT !["both"] = None, !["proxy"] = IF path = Proxy THEN None ELSE Recent(@, instant)]

\* What a success does to the gate, and what it takes to thaw.
LEMMA SucceededStep ==
    ASSUME NEW g \in Gates, NEW failures \in Failures, NEW at \in Nat, Accounted(g, failures, at),
           NEW instant \in Nat \ {0}, at =< instant, NEW t \in Targets, NEW path \in Paths,
           NEW seen, Recovering(g, seen)
    PROVE  LET h       == PathSucceeded(g, instant, t, path)
               working == seen \cup {<<t, path>>}
           IN  /\ Accounted(h, ForgivenOf(failures, path, instant), instant)
               /\ h.state = "frozen" => /\ g.state = "frozen" /\ Recovering(h, working)
                                        /\ h.reason = g.reason /\ h.until = g.until
               /\ h.state = "active" /\ g.state = "frozen" =>
                     /\ h.proxy = NoTargets /\ h.reason # "proxy_outage"
                     /\ \/ instant >= g.until
                        \/ Cardinality(Recovered(g, working)) >= RecoveryThreshold
               /\ h.state = "active" /\ g.state = "active" => h.reason = g.reason
<1> DEFINE e == Expire(g, instant)
           h == PathSucceeded(g, instant, t, path)
           new == ForgivenOf(failures, path, instant)
           working == seen \cup {<<t, path>>}
           recovering == Add(e.recoveries, instant, FreezeDuration, t)
<1>1. e \in Gates  BY ExpireType
<1>2. e = g \/ (g.state = "frozen" /\ instant >= g.until /\ e = ActiveGate("active"))
      BY ExpireStep
<1>3. /\ failures["proxy"] \in [Targets -> Nat] /\ e.proxy \in TargetSets
      BY <1>1 DEF Failures, Gates
<1>4. /\ new["both"] = None
      /\ new["proxy"] = IF path = Proxy THEN None ELSE Recent(failures["proxy"], instant)
      BY DEF ForgivenOf, Failures
<1>5. h = AfterSuccess(e, instant, t, path)  BY DEF PathSucceeded
<1>6. e.state = "active" => Counted(e.proxy, failures["proxy"], at)
  <2>1. CASE e = g  BY <2>1 DEF Accounted
  <2>2. CASE e = ActiveGate("active")  BY <2>2, NothingCounted DEF ActiveGate
  <2> QED  BY <1>2, <2>1, <2>2
<1> HIDE DEF e, h, new
<1>7. CASE e.state = "active"
  <2>1. h = [e EXCEPT !.global = NoTargets, !.proxy = IF path = Proxy THEN NoTargets ELSE @]
        BY <1>5, <1>7 DEF AfterSuccess
  <2>2. /\ h.state = "active" /\ h.reason = e.reason /\ h.global = NoTargets
        /\ h.proxy = IF path = Proxy THEN NoTargets ELSE e.proxy
        BY <1>1, <1>7, <2>1 DEF Gates
  <2>3. Counted(h.proxy, new["proxy"], instant)
    <3>1. CASE path = Proxy  BY <2>2, <3>1, NothingCounted
    <3>2. CASE path # Proxy
          BY <1>3, <1>4, <1>6, <1>7, <2>2, <3>2, CountedLater
    <3> QED  BY <3>1, <3>2
  <2>4. Accounted(h, new, instant)  BY <2>2, <2>3, NothingCounted DEF Accounted
  <2>5. CASE g.state = "active"
    <3>1. e = g  BY <1>2, <2>5
    <3> QED  BY <2>2, <2>4, <2>5, <3>1 DEF h, new
  <2>6. CASE g.state # "active"
    <3>1. instant >= g.until /\ e = ActiveGate("active")  BY <1>2, <1>7, <2>6
    <3>2. e.proxy = NoTargets /\ e.reason = "active"  BY <3>1 DEF ActiveGate
    <3> QED  BY <2>2, <2>4, <3>1, <3>2, <2>6 DEF h, new
  <2> QED  BY <2>5, <2>6
<1>8. CASE e.state = "frozen" /\ e.reason = "proxy_outage" /\ path # Proxy
  <2>1. h = e  BY <1>5, <1>8 DEF AfterSuccess
  <2>2. e = g  BY <1>2, <1>8 DEF ActiveGate
  <2>3. Recovering(g, working)  BY DEF Recovering
  <2> QED  BY <1>8, <2>1, <2>2, <2>3 DEF Accounted, h
<1>9. CASE e.state = "frozen" /\ ~(e.reason = "proxy_outage" /\ path # Proxy)
  <2>1. h = AfterRecovery(e, instant, t)  BY <1>5, <1>9 DEF AfterSuccess
  <2>2. e = g /\ g.state = "frozen"  BY <1>2, <1>9 DEF ActiveGate
  <2>3. recovering.members \subseteq e.recoveries.members \cup {t}
    <3>1. e.recoveries \in TargetSets  BY <1>1 DEF Gates
    <3> QED  BY <3>1 DEF Add, TargetSets
  <2>4. recovering.members \subseteq Recovered(g, working)
    <3> SUFFICES ASSUME NEW m \in recovering.members PROVE m \in Recovered(g, working)  OBVIOUS
    <3>1. CASE m = t  BY <1>9, <2>2, <3>1 DEF Recovered
    <3>2. CASE m # t
      <4>1. m \in g.recoveries.members  BY <2>2, <2>3, <3>2
      <4>2. m \in Targets  BY <4>1 DEF Gates, TargetSets
      <4> QED  BY <2>2, <4>1, <4>2 DEF Recovering, Recovered
    <3> QED  BY <3>1, <3>2
  <2> HIDE DEF recovering
  <2>5. CASE Cardinality(recovering.members) >= RecoveryThreshold
    <3>1. h = ActiveGate("recovered")  BY <2>1, <2>5 DEF AfterRecovery, recovering
    <3>2. /\ h.state = "active" /\ h.reason = "recovered"
          /\ h.global = NoTargets /\ h.proxy = NoTargets
          BY <3>1 DEF ActiveGate
    <3>3. Accounted(h, new, instant)  BY <3>2, NothingCounted DEF Accounted
    <3>4. IsFiniteSet(Recovered(g, working))
          BY FiniteTargets, FS_Subset DEF Recovered
    <3>5. Cardinality(Recovered(g, working)) >= RecoveryThreshold
      <4>1. /\ Cardinality(recovering.members) =< Cardinality(Recovered(g, working))
            /\ IsFiniteSet(recovering.members)
            BY <2>4, <3>4, FS_Subset
      <4>2. Cardinality(recovering.members) \in Nat /\ Cardinality(Recovered(g, working)) \in Nat
            BY <3>4, <4>1, FS_CardinalityType
      <4> QED  BY <2>5, <4>1, <4>2, HealthAssumption
    <3> QED  BY <2>2, <3>2, <3>3, <3>5 DEF h, new
  <2>6. CASE ~(Cardinality(recovering.members) >= RecoveryThreshold)
    <3>1. h = [e EXCEPT !.recoveries = recovering]
          BY <2>1, <2>6 DEF AfterRecovery, recovering
    <3>2. /\ h.state = "frozen" /\ h.reason = g.reason /\ h.until = g.until
          /\ h.recoveries = recovering
          BY <1>1, <1>9, <2>2, <3>1 DEF Gates
    <3>3. Recovering(h, working)  BY <2>4, <3>2 DEF Recovering, Recovered
    <3> QED  BY <2>2, <3>2, <3>3 DEF Accounted, h
  <2> QED  BY <2>5, <2>6
<1> QED  BY <1>1, <1>7, <1>8, <1>9 DEF Gates

\* The instants and the intermediate gates of a call of Observe.
WonAt(t, winner, first) == PathSucceeded(gate, first, t, winner)
ProxyDown(winner, other) == other = "strong" /\ winner = Direct
LostAt(t, winner, other, first, second) ==
    IF ProxyDown(winner, other) THEN ProxyPathFailed(WonAt(t, winner, first), second, t)
                                ELSE WonAt(t, winner, first)

LEMMA LaterOrder ==
    ASSUME NEW from \in Nat \ {0}, NEW instant \in Later(from)
    PROVE  instant \in Nat \ {0} /\ from =< instant
BY ModeAssumption DEF Later

LEMMA ObserveInstants ==
    ASSUME TypeOK, NEW t \in Targets, NEW winner \in Paths, NEW other, Observe(t, winner, other)
    PROVE  \E first \in Nat \ {0}, second \in Nat \ {0}, third \in Nat \ {0} :
             LET won  == WonAt(t, winner, first)
                 lost == LostAt(t, winner, other, first, second)
                 table == Cleared(Cleared(learned, gate, won), won, lost)
             IN  /\ now =< first /\ first =< second /\ second =< third
                 /\ gate' = Expire(lost, third) /\ now' = third
                 /\ announced' = Announced(Announced(announced, gate, won), won, lost)
                 /\ learned' = IF gate'.state = "active" /\ other = "strong"
                               THEN Learn(table, t, winner, third) ELSE table
                 /\ failedAt' = IF ProxyDown(winner, other)
                                THEN [Forgiven(winner, second) EXCEPT !["proxy"][t] = second]
                                ELSE Forgiven(winner, first)
                 /\ worked' = IF ProxyDown(winner, other) /\ lost.reason = "proxy_outage"
                              THEN {} ELSE SeenWorking(t, winner)
                 /\ streak' = IF other = "strong" THEN [streak EXCEPT ![t] = Longer(@, winner)] ELSE streak
<1> DEFINE Body(i, j, k) ==
             LET won  == WonAt(t, winner, i)
                 lost == LostAt(t, winner, other, i, j)
                 table == Cleared(Cleared(learned, gate, won), won, lost)
             IN  /\ gate' = Expire(lost, k) /\ now' = k
                 /\ announced' = Announced(Announced(announced, gate, won), won, lost)
                 /\ learned' = IF Expire(lost, k).state = "active" /\ other = "strong"
                               THEN Learn(table, t, winner, k) ELSE table
                 /\ failedAt' = IF ProxyDown(winner, other)
                                THEN [Forgiven(winner, j) EXCEPT !["proxy"][t] = j]
                                ELSE Forgiven(winner, i)
                 /\ worked' = IF ProxyDown(winner, other) /\ lost.reason = "proxy_outage"
                              THEN {} ELSE SeenWorking(t, winner)
                 /\ streak' = IF other = "strong" THEN [streak EXCEPT ![t] = Longer(@, winner)] ELSE streak
<1>1. PICK i \in Later(now) : \E j \in Later(i) : \E k \in Later(j) : Body(i, j, k)
      BY DEF Observe, WonAt, LostAt, ProxyDown
<1>2. PICK j \in Later(i) : \E k \in Later(j) : Body(i, j, k)  BY <1>1
<1>3. PICK k \in Later(j) : Body(i, j, k)  BY <1>2
<1>4. now \in Nat \ {0}  BY DEF TypeOK
<1>5. i \in Nat \ {0} /\ now =< i  BY <1>4, LaterOrder
<1>6. j \in Nat \ {0} /\ i =< j  BY <1>5, LaterOrder
<1>7. k \in Nat \ {0} /\ j =< k  BY <1>6, LaterOrder
<1>8. Body(i, j, k) /\ Expire(LostAt(t, winner, other, i, j), k) = gate'  BY <1>3
<1> QED  BY <1>5, <1>6, <1>7, <1>8

LEMMA AccountedLater ==
    ASSUME NEW g \in Gates, NEW failures \in Failures, NEW at \in Nat, Accounted(g, failures, at),
           NEW later \in Nat, at =< later
    PROVE  Accounted(g, failures, later) /\ Accounted(Expire(g, later), failures, later)
<1>1. Accounted(g, failures, later)
  <2>1. /\ g.global \in TargetSets /\ g.proxy \in TargetSets
        /\ failures["both"] \in [Targets -> Nat] /\ failures["proxy"] \in [Targets -> Nat]
        BY DEF Gates, Failures
  <2> QED  BY <2>1, CountedLater DEF Accounted
<1>2. Accounted(ActiveGate("active"), failures, later)
      BY NothingCounted DEF Accounted, ActiveGate
<1> QED  BY <1>1, <1>2 DEF Expire

\* The inductive invariant behind GateFollowsEvidence.
Evidence == Accounted(gate, failedAt, now) /\ Recovering(gate, worked)

LEMMA EvidenceOfPreferredPath ==
    ASSUME TypeOK, Evidence, NEW t \in Targets, PreferredPath(t)
    PROVE  Evidence' /\ FreezeIsEvidence /\ RecoveryIsEarned
<1>1. PICK checked \in Later(now) : \E asked \in Later(checked) :
         gate' = Expire(gate, checked) /\ now' = asked
      BY DEF PreferredPath, Transition, Check
<1>2. PICK asked \in Later(checked) : gate' = Expire(gate, checked) /\ now' = asked  BY <1>1
<1>3. failedAt' = failedAt /\ worked' = worked  BY DEF PreferredPath
<1>4. now \in Nat \ {0} /\ gate \in Gates /\ failedAt \in Failures  BY DEF TypeOK, Failures
<1>5. checked \in Nat /\ now =< checked /\ asked \in Nat /\ checked =< asked
      BY <1>4, LaterOrder
<1>6. gate' \in Gates  BY <1>2, <1>4, <1>5, ExpireType
<1>7. Accounted(gate', failedAt, checked)  BY <1>2, <1>4, <1>5, AccountedLater DEF Evidence
<1>8. Accounted(gate', failedAt', now')  BY <1>2, <1>3, <1>4, <1>5, <1>6, <1>7, AccountedLater
<1>9. \/ gate' = gate
      \/ gate.state = "frozen" /\ checked >= gate.until /\ gate'.state = "active"
      BY <1>2, <1>4, <1>5, ExpireStep DEF ActiveGate
<1>10. Recovering(gate', worked')  BY <1>3, <1>9 DEF Recovering, Evidence
<1>11. gate.until \in Nat  BY <1>4 DEF Gates
<1>12. gate'.state = "active" /\ gate.state = "frozen" => now' >= gate.until
       BY <1>2, <1>5, <1>9, <1>11
<1> QED  BY <1>8, <1>9, <1>10, <1>12 DEF Evidence, FreezeIsEvidence, RecoveryIsEarned

\* A freeze that began at this instant because enough targets of kind fail.
LEMMA FreezeShown ==
    ASSUME NEW instant \in Nat, NEW kind \in {"both", "proxy"},
           gate'.reason = IF kind = "both" THEN "global_outage" ELSE "proxy_outage",
           gate'.until = instant + FreezeDuration,
           Cardinality(Failing(failedAt'[kind], instant)) >= FailureThreshold
    PROVE  FreezeIsEvidence
<1>1. gate'.until - FreezeDuration = instant  BY HealthAssumption
<1>2. (IF gate'.reason = "global_outage" THEN "both" ELSE "proxy") = kind  OBVIOUS
<1> QED  BY <1>1, <1>2 DEF FreezeIsEvidence, Failing

LEMMA EvidenceOfBothFailed ==
    ASSUME TypeOK, Evidence, NEW t \in Targets, ObserveBothPathsFailed(t)
    PROVE  Evidence' /\ FreezeIsEvidence /\ RecoveryIsEarned
<1>1. PICK instant \in Later(now) :
         /\ gate' = BothPathsFailed(gate, instant, t) /\ now' = instant
         /\ SeenFailure("both", t, instant) /\ worked' = {}
      BY DEF ObserveBothPathsFailed, Transition
<1>2. now \in Nat \ {0} /\ gate \in Gates /\ failedAt \in Failures  BY DEF TypeOK, Failures
<1>3. instant \in Nat \ {0} /\ now =< instant  BY <1>2, LaterOrder
<1>4. failedAt' = FailuresWith(failedAt, "both", t, instant)
      BY <1>1 DEF SeenFailure, FailuresWith
<1>5. /\ Accounted(gate', failedAt', instant)
      /\ gate'.state = "frozen" => gate'.recoveries = NoTargets
      /\ gate'.state = "frozen" /\ gate.state = "active" =>
            /\ gate'.reason = "global_outage" /\ gate'.until = instant + FreezeDuration
            /\ Cardinality(Failing(failedAt'["both"], instant)) >= FailureThreshold
      /\ gate'.state = "active" /\ gate.state = "frozen" => instant >= gate.until
      BY <1>1, <1>2, <1>3, <1>4, BothFailedStep DEF Evidence
<1>6. Evidence'  BY <1>1, <1>5 DEF Evidence, Recovering, NoTargets
<1>7. FreezeIsEvidence
  <2>1. CASE gate'.state = "frozen" /\ gate.state = "active"
        BY <1>3, <1>5, <2>1, FreezeShown
  <2> QED  BY <2>1 DEF FreezeIsEvidence
<1>8. RecoveryIsEarned  BY <1>1, <1>5 DEF RecoveryIsEarned
<1> QED  BY <1>6, <1>7, <1>8

LEMMA EvidenceOfProxyFailed ==
    ASSUME TypeOK, Evidence, NEW t \in Targets, ObserveProxyPathFailed(t)
    PROVE  Evidence' /\ FreezeIsEvidence /\ RecoveryIsEarned
<1>1. PICK instant \in Later(now) :
         /\ gate' = ProxyPathFailed(gate, instant, t) /\ now' = instant
         /\ SeenFailure("proxy", t, instant)
         /\ worked' = IF gate'.reason = "proxy_outage" THEN {} ELSE worked
      BY DEF ObserveProxyPathFailed, Transition
<1>2. now \in Nat \ {0} /\ gate \in Gates /\ failedAt \in Failures  BY DEF TypeOK, Failures
<1>3. instant \in Nat \ {0} /\ now =< instant  BY <1>2, LaterOrder
<1>4. failedAt' = FailuresWith(failedAt, "proxy", t, instant)
      BY <1>1 DEF SeenFailure, FailuresWith
<1>5. /\ Accounted(gate', failedAt', instant)
      /\ gate'.state = "frozen" /\ gate.state = "active" =>
            /\ gate'.reason = "proxy_outage" /\ gate'.until = instant + FreezeDuration
            /\ gate'.recoveries = NoTargets
            /\ Cardinality(Failing(failedAt'["proxy"], instant)) >= FailureThreshold
      /\ gate'.state = "frozen" /\ gate.state = "frozen" =>
            /\ gate'.reason = gate.reason
            /\ gate'.recoveries = IF gate'.reason = "proxy_outage" THEN NoTargets ELSE gate.recoveries
      /\ gate'.state = "active" /\ gate.state = "frozen" => instant >= gate.until
  <2> DEFINE h == ProxyPathFailed(gate, instant, t)
             new == FailuresWith(failedAt, "proxy", t, instant)
  <2>1. /\ Accounted(gate, failedAt, now) /\ now \in Nat /\ now =< instant
        /\ gate \in Gates /\ failedAt \in Failures /\ instant \in Nat \ {0} /\ t \in Targets
        BY <1>2, <1>3 DEF Evidence
  <2>2. /\ Accounted(h, new, instant)
        /\ h.state = "frozen" /\ gate.state = "active" =>
              /\ h.reason = "proxy_outage" /\ h.until = instant + FreezeDuration
              /\ h.recoveries = NoTargets /\ gate.proxy # NoTargets
              /\ Cardinality(Failing(new["proxy"], instant)) >= FailureThreshold
              /\ Cardinality({x \in Targets : new["proxy"][x] > 0}) >= FailureThreshold
        /\ h.state = "frozen" /\ gate.state = "frozen" =>
              /\ h.reason = gate.reason /\ h.until >= gate.until
              /\ h.recoveries = IF h.reason = "proxy_outage" THEN NoTargets ELSE gate.recoveries
        /\ h.state = "active" => h.reason = IF gate.state = "active" THEN gate.reason ELSE "active"
        /\ h.state = "active" /\ gate.state = "frozen" => instant >= gate.until
        BY ONLY <2>1, ProxyFailedStep, Zenon
  <2> QED  BY <1>1, <1>4, <2>2
<1>6. gate.state \in {"active", "frozen"}  BY <1>2 DEF Gates
<1>7. Recovering(gate', worked')
  <2>1. CASE gate'.state = "frozen" /\ gate'.reason = "proxy_outage"
        BY <1>5, <1>6, <2>1 DEF Recovering, NoTargets
  <2>2. CASE gate'.state = "frozen" /\ gate'.reason # "proxy_outage"
        BY <1>1, <1>5, <1>6, <2>2 DEF Evidence, Recovering
  <2>3. CASE gate'.state # "frozen"  BY <2>3 DEF Recovering
  <2> QED  BY <2>1, <2>2, <2>3
<1>8. FreezeIsEvidence
  <2>1. CASE gate'.state = "frozen" /\ gate.state = "active"
        BY <1>3, <1>5, <2>1, FreezeShown
  <2> QED  BY <2>1 DEF FreezeIsEvidence
<1>9. RecoveryIsEarned  BY <1>1, <1>5 DEF RecoveryIsEarned
<1> QED  BY <1>1, <1>5, <1>7, <1>8, <1>9 DEF Evidence

LEMMA EvidenceOfSuccess ==
    ASSUME TypeOK, Evidence, NEW t \in Targets, ObservePathSucceeded(t)
    PROVE  Evidence' /\ FreezeIsEvidence /\ RecoveryIsEarned
<1>1. PICK instant \in Later(now) :
         /\ gate' = PathSucceeded(gate, instant, t, Proxy) /\ now' = instant
         /\ failedAt' = Forgiven(Proxy, instant) /\ worked' = SeenWorking(t, Proxy)
      BY DEF ObservePathSucceeded, Transition
<1>2. now \in Nat \ {0} /\ gate \in Gates /\ failedAt \in Failures /\ Proxy \in Paths
      BY DEF TypeOK, Failures, Paths
<1>3. instant \in Nat \ {0} /\ now =< instant  BY <1>2, LaterOrder
<1>4. failedAt' = ForgivenOf(failedAt, Proxy, instant)
      BY <1>1 DEF Forgiven, ForgivenOf
<1>5. /\ Accounted(gate', failedAt', instant)
      /\ gate'.state = "frozen" => /\ gate.state = "frozen"
                                   /\ Recovering(gate', worked \cup {<<t, Proxy>>})
      /\ gate'.state = "active" /\ gate.state = "frozen" =>
            \/ instant >= gate.until
            \/ Cardinality(Recovered(gate, worked \cup {<<t, Proxy>>})) >= RecoveryThreshold
  <2> DEFINE h == PathSucceeded(gate, instant, t, Proxy)
             working == worked \cup {<<t, Proxy>>}
  <2>1. Accounted(gate, failedAt, now) /\ Recovering(gate, worked) /\ now \in Nat
        BY <1>2 DEF Evidence
  <2>2. /\ Accounted(h, ForgivenOf(failedAt, Proxy, instant), instant)
        /\ h.state = "frozen" => /\ gate.state = "frozen" /\ Recovering(h, working)
                                 /\ h.reason = gate.reason /\ h.until = gate.until
        /\ h.state = "active" /\ gate.state = "frozen" =>
              /\ h.proxy = NoTargets /\ h.reason # "proxy_outage"
              /\ \/ instant >= gate.until
                 \/ Cardinality(Recovered(gate, working)) >= RecoveryThreshold
        /\ h.state = "active" /\ gate.state = "active" => h.reason = gate.reason
        BY ONLY <1>2, <1>3, <2>1, SucceededStep
  <2> QED  BY <1>1, <1>4, <2>2
<1>6. gate.state = "frozen" => worked' = worked \cup {<<t, Proxy>>}
      BY <1>1 DEF SeenWorking
<1>7. Recovering(gate', worked')  BY <1>5, <1>6 DEF Recovering
<1>8. FreezeIsEvidence  BY <1>2, <1>5 DEF FreezeIsEvidence
<1>9. RecoveryIsEarned  BY <1>1, <1>5, <1>6 DEF RecoveryIsEarned, Recovered
<1> QED  BY <1>1, <1>5, <1>7, <1>8, <1>9 DEF Evidence

\* Forgetting old failures at two instants forgets them at the later one.
LEMMA ForgivenThenFailed ==
    ASSUME NEW failures \in Failures, NEW first \in Nat, NEW second \in Nat, first =< second,
           NEW t \in Targets
    PROVE  FailuresWith(ForgivenOf(failures, Direct, first), "proxy", t, second)
              = [ForgivenOf(failures, Direct, second) EXCEPT !["proxy"][t] = second]
<1> DEFINE once == ForgivenOf(failures, Direct, first)
           twice == ForgivenOf(failures, Direct, second)
           left == FailuresWith(once, "proxy", t, second)
           right == [twice EXCEPT !["proxy"][t] = second]
<1>1. FailureWindow \in Nat  BY HealthAssumption
<1>2. /\ once["both"] = None /\ once["proxy"] = Recent(failures["proxy"], first)
      /\ twice["both"] = None /\ twice["proxy"] = Recent(failures["proxy"], second)
      BY DEF ForgivenOf, Failures, Direct, Proxy
<1>3. Recent(None, second) = None  BY DEF Recent, None
<1>4. Recent([Recent(failures["proxy"], first) EXCEPT ![t] = second], second)
         = [Recent(failures["proxy"], second) EXCEPT ![t] = second]
  <2>1. ASSUME NEW x \in Targets
        PROVE  (IF [Recent(failures["proxy"], first) EXCEPT ![t] = second][x] + FailureWindow >= second
                THEN [Recent(failures["proxy"], first) EXCEPT ![t] = second][x] ELSE 0)
               = [Recent(failures["proxy"], second) EXCEPT ![t] = second][x]
    <3>1. CASE x = t  BY <1>1, <3>1 DEF Recent
    <3>2. CASE x # t
      <4>1. failures["proxy"][x] \in Nat  BY DEF Failures
      <4> QED  BY <1>1, <3>2, <4>1 DEF Recent
    <3> QED  BY <3>1, <3>2
  <2> QED  BY <2>1 DEF Recent
<1>5. left["both"] = None /\ left["proxy"] = [Recent(failures["proxy"], second) EXCEPT ![t] = second]
      BY <1>2, <1>3, <1>4 DEF FailuresWith
<1>6. right["both"] = None /\ right["proxy"] = [Recent(failures["proxy"], second) EXCEPT ![t] = second]
      BY <1>2 DEF ForgivenOf, Failures
<1>7. /\ left = [k \in {"both", "proxy"} |-> left[k]]
      /\ right = [k \in {"both", "proxy"} |-> right[k]]
      BY DEF FailuresWith, ForgivenOf, Failures
<1> HIDE DEF left, right
<1>8. \A k \in {"both", "proxy"} : left[k] = right[k]  BY <1>5, <1>6
<1>9. left = right  BY <1>7, <1>8
<1> QED  BY <1>9 DEF left, right

LEMMA ForgivenOfType ==
    ASSUME NEW failures \in Failures, NEW path \in Paths, NEW instant \in Nat
    PROVE  ForgivenOf(failures, path, instant) \in Failures
<1>1. None \in [Targets -> Nat]  BY DEF None
<1>2. Recent(failures["proxy"], instant) \in [Targets -> Nat]  BY RecentType DEF Failures
<1> QED  BY <1>1, <1>2 DEF ForgivenOf, Failures

\* A call of Observe, gate by gate: what it makes of the failures seen, ...
FailedAfter(t, winner, other, first, second) ==
    IF ProxyDown(winner, other)
    THEN [ForgivenOf(failedAt, winner, second) EXCEPT !["proxy"][t] = second]
    ELSE ForgivenOf(failedAt, winner, first)

\* ... and what they then say of the gate it leaves.
ObserveFacts(t, winner, other, second, won, lost, working, new) ==
    /\ won \in Gates /\ lost \in Gates /\ new \in Failures
    /\ won.state = "frozen" => gate.state = "frozen"
    /\ Accounted(lost, new, second)
    /\ lost.state = "frozen" /\ gate.state = "active" =>
          /\ lost.reason = "proxy_outage" /\ lost.until = second + FreezeDuration
          /\ lost.recoveries = NoTargets
          /\ Cardinality(Failing(new["proxy"], second)) >= FailureThreshold
          /\ Cardinality({x \in Targets : new["proxy"][x] > 0}) >= FailureThreshold
    /\ lost.state = "frozen" /\ gate.state = "frozen" =>
          /\ lost.reason = gate.reason /\ lost.until >= gate.until
          /\ IF ProxyDown(winner, other) /\ lost.reason = "proxy_outage"
             THEN lost.recoveries = NoTargets ELSE Recovering(lost, working)
    /\ lost.state = "active" /\ gate.state = "frozen" =>
          /\ lost.reason # "proxy_outage"
          /\ second >= gate.until \/ Cardinality(Recovered(gate, working)) >= RecoveryThreshold

LEMMA ObserveEvidence ==
    ASSUME TypeOK, Evidence, NEW t \in Targets, NEW winner \in Paths, NEW other,
           NEW first \in Nat \ {0}, NEW second \in Nat \ {0}, now =< first, first =< second
    PROVE  ObserveFacts(t, winner, other, second, WonAt(t, winner, first),
                        LostAt(t, winner, other, first, second), worked \cup {<<t, winner>>},
                        FailedAfter(t, winner, other, first, second))
<1> DEFINE won  == WonAt(t, winner, first)
           lost == LostAt(t, winner, other, first, second)
           working == worked \cup {<<t, winner>>}
           between == ForgivenOf(failedAt, winner, first)
           new  == FailedAfter(t, winner, other, first, second)
<1>1. /\ gate \in Gates /\ now \in Nat /\ failedAt \in Failures
      /\ Accounted(gate, failedAt, now) /\ Recovering(gate, worked)
      BY DEF TypeOK, Failures, Evidence
<1>2. won \in Gates  BY <1>1, SucceededType DEF WonAt
<1>3. /\ Accounted(won, between, first)
      /\ won.state = "frozen" => /\ gate.state = "frozen" /\ Recovering(won, working)
                                 /\ won.reason = gate.reason /\ won.until = gate.until
      /\ won.state = "active" /\ gate.state = "frozen" =>
            /\ won.proxy = NoTargets /\ won.reason # "proxy_outage"
            /\ \/ first >= gate.until
               \/ Cardinality(Recovered(gate, working)) >= RecoveryThreshold
      /\ won.state = "active" /\ gate.state = "active" => won.reason = gate.reason
      BY <1>1, SucceededStep DEF WonAt
<1>4. between \in Failures  BY <1>1, ForgivenOfType
<1>5. lost = IF ProxyDown(winner, other) THEN ProxyPathFailed(won, second, t) ELSE won
      BY DEF LostAt
<1>6. /\ gate.state \in {"active", "frozen"} /\ won.state \in {"active", "frozen"}
      /\ gate.until \in Nat /\ won.until \in Nat
      BY <1>1, <1>2 DEF Gates
<1>0. new = IF ProxyDown(winner, other)
            THEN [ForgivenOf(failedAt, winner, second) EXCEPT !["proxy"][t] = second] ELSE between
      BY DEF FailedAfter
<1> SUFFICES ObserveFacts(t, winner, other, second, won, lost, working, new)  OBVIOUS
<1> HIDE DEF won, lost, working, between, new
<1>7. CASE ~ProxyDown(winner, other)
  <2>1. lost = won /\ new = between  BY <1>0, <1>5, <1>7
  <2>2. Accounted(won, between, second)  BY <1>2, <1>3, <1>4, AccountedLater
  <2>3. won.state = "active" /\ gate.state = "frozen" =>
           second >= gate.until \/ Cardinality(Recovered(gate, working)) >= RecoveryThreshold
        BY <1>3, <1>6
  <2> QED  BY <1>2, <1>3, <1>4, <1>6, <1>7, <2>1, <2>2, <2>3 DEF ObserveFacts
<1>8. CASE ProxyDown(winner, other)
  <2>1. winner = Direct  BY <1>8 DEF ProxyDown
  <2>2. lost = ProxyPathFailed(won, second, t)  BY <1>5, <1>8
  <2>3. new = FailuresWith(between, "proxy", t, second)
        BY <1>0, <1>1, <1>8, <2>1, ForgivenThenFailed DEF between
  <2>4. lost \in Gates  BY <1>2, <2>2, ProxyFailedType
  <2>5. /\ Accounted(lost, new, second)
        /\ lost.state = "frozen" /\ won.state = "active" =>
              /\ lost.reason = "proxy_outage" /\ lost.until = second + FreezeDuration
              /\ lost.recoveries = NoTargets /\ won.proxy # NoTargets
              /\ Cardinality(Failing(new["proxy"], second)) >= FailureThreshold
              /\ Cardinality({x \in Targets : new["proxy"][x] > 0}) >= FailureThreshold
        /\ lost.state = "frozen" /\ won.state = "frozen" =>
              /\ lost.reason = won.reason /\ lost.until >= won.until
              /\ lost.recoveries = IF lost.reason = "proxy_outage" THEN NoTargets ELSE won.recoveries
        /\ lost.state = "active" => lost.reason = IF won.state = "active" THEN won.reason ELSE "active"
        /\ lost.state = "active" /\ won.state = "frozen" => second >= won.until
    <3> DEFINE h == ProxyPathFailed(won, second, t)
               after == FailuresWith(between, "proxy", t, second)
    <3>1. Accounted(won, between, first) /\ first \in Nat /\ second \in Nat \ {0}  BY <1>3
    <3>2. /\ Accounted(h, after, second)
          /\ h.state = "frozen" /\ won.state = "active" =>
                /\ h.reason = "proxy_outage" /\ h.until = second + FreezeDuration
                /\ h.recoveries = NoTargets /\ won.proxy # NoTargets
                /\ Cardinality(Failing(after["proxy"], second)) >= FailureThreshold
                /\ Cardinality({x \in Targets : after["proxy"][x] > 0}) >= FailureThreshold
          /\ h.state = "frozen" /\ won.state = "frozen" =>
                /\ h.reason = won.reason /\ h.until >= won.until
                /\ h.recoveries = IF h.reason = "proxy_outage" THEN NoTargets ELSE won.recoveries
          /\ h.state = "active" => h.reason = IF won.state = "active" THEN won.reason ELSE "active"
          /\ h.state = "active" /\ won.state = "frozen" => second >= won.until
          BY <1>2, <1>4, <3>1, ProxyFailedStep
    <3> QED  BY <2>2, <2>3, <3>2
  <2>6. new \in Failures
    <3>1. between["both"] \in [Targets -> Nat] /\ between["proxy"] \in [Targets -> Nat]
          BY <1>4 DEF Failures
    <3>2. [between["proxy"] EXCEPT ![t] = second] \in [Targets -> Nat]  BY <3>1
    <3>3. /\ Recent(between["both"], second) \in [Targets -> Nat]
          /\ Recent([between["proxy"] EXCEPT ![t] = second], second) \in [Targets -> Nat]
          BY <3>1, <3>2, RecentType
    <3> QED  BY <2>3, <3>3 DEF FailuresWith, Failures
  <2>7. lost.state \in {"active", "frozen"}  BY <2>4 DEF Gates
  <2>8. ASSUME lost.state = "frozen", gate.state = "active"
        PROVE  /\ lost.reason = "proxy_outage" /\ lost.until = second + FreezeDuration
               /\ lost.recoveries = NoTargets
               /\ Cardinality(Failing(new["proxy"], second)) >= FailureThreshold
               /\ Cardinality({x \in Targets : new["proxy"][x] > 0}) >= FailureThreshold
    <3>1. won.state = "active"  BY <1>3, <1>6, <2>8
    <3> QED  BY <2>5, <2>8, <3>1
  <2>9. ASSUME lost.state = "frozen", gate.state = "frozen"
        PROVE  /\ lost.reason = gate.reason /\ lost.until >= gate.until
               /\ IF lost.reason = "proxy_outage"
                  THEN lost.recoveries = NoTargets ELSE Recovering(lost, working)
    <3>1. won.state = "frozen"
      <4>1. CASE won.state = "active"  BY <1>3, <2>5, <2>9, <4>1
      <4> QED  BY <1>6, <4>1
    <3>2. /\ lost.reason = won.reason /\ lost.until >= won.until
          /\ won.reason = gate.reason /\ won.until = gate.until /\ Recovering(won, working)
          /\ lost.recoveries = IF lost.reason = "proxy_outage" THEN NoTargets ELSE won.recoveries
          BY <1>3, <2>5, <2>9, <3>1
    <3>3. lost.reason # "proxy_outage" => Recovering(lost, working)
          BY <2>9, <3>1, <3>2 DEF Recovering
    <3> QED  BY <3>2, <3>3
  <2>10. ASSUME lost.state = "active", gate.state = "frozen"
         PROVE  /\ lost.reason # "proxy_outage"
                /\ \/ second >= gate.until
                   \/ Cardinality(Recovered(gate, working)) >= RecoveryThreshold
    <3>1. CASE won.state = "frozen"  BY <1>3, <2>5, <2>10, <3>1
    <3>2. CASE won.state = "active"
      <4>1. lost.reason = won.reason /\ won.reason # "proxy_outage"
            BY <1>3, <2>5, <2>10, <3>2
      <4>2. first >= gate.until => second >= gate.until  BY <1>6
      <4> QED  BY <1>3, <2>10, <3>2, <4>1, <4>2
    <3> QED  BY <1>6, <3>1, <3>2
  <2> QED  BY <1>2, <1>3, <1>8, <2>4, <2>5, <2>6, <2>8, <2>9, <2>10 DEF ObserveFacts
<1> QED  BY <1>7, <1>8

LEMMA EvidenceOfObserve ==
    ASSUME TypeOK, Evidence, NEW t \in Targets, NEW winner \in Paths, NEW other,
           Observe(t, winner, other)
    PROVE  Evidence' /\ FreezeIsEvidence /\ RecoveryIsEarned
<1> DEFINE working == worked \cup {<<t, winner>>}
<1>1. PICK first \in Nat \ {0}, second \in Nat \ {0}, third \in Nat \ {0} :
         /\ now =< first /\ first =< second /\ second =< third
         /\ gate' = Expire(LostAt(t, winner, other, first, second), third) /\ now' = third
         /\ failedAt' = IF ProxyDown(winner, other)
                        THEN [Forgiven(winner, second) EXCEPT !["proxy"][t] = second]
                        ELSE Forgiven(winner, first)
         /\ worked' = IF /\ ProxyDown(winner, other)
                         /\ LostAt(t, winner, other, first, second).reason = "proxy_outage"
                      THEN {} ELSE SeenWorking(t, winner)
      BY ObserveInstants
<1> DEFINE lost == LostAt(t, winner, other, first, second)
<1>2. /\ failedAt' = FailedAfter(t, winner, other, first, second)
      /\ ObserveFacts(t, winner, other, second, WonAt(t, winner, first), lost,
                      worked \cup {<<t, winner>>}, failedAt')
  <2>1. failedAt' = FailedAfter(t, winner, other, first, second)
        BY <1>1 DEF Forgiven, ForgivenOf, FailedAfter
  <2> QED  BY <1>1, <2>1, ObserveEvidence
<1>3. /\ lost \in Gates /\ failedAt' \in Failures
      /\ Accounted(lost, failedAt', second)
      /\ lost.state = "frozen" /\ gate.state = "active" =>
            /\ lost.reason = "proxy_outage" /\ lost.until = second + FreezeDuration
            /\ lost.recoveries = NoTargets
            /\ Cardinality(Failing(failedAt'["proxy"], second)) >= FailureThreshold
      /\ lost.state = "frozen" /\ gate.state = "frozen" =>
            /\ lost.reason = gate.reason /\ lost.until >= gate.until
            /\ IF ProxyDown(winner, other) /\ lost.reason = "proxy_outage"
               THEN lost.recoveries = NoTargets ELSE Recovering(lost, working)
      /\ lost.state = "active" /\ gate.state = "frozen" =>
            /\ lost.reason # "proxy_outage"
            /\ second >= gate.until \/ Cardinality(Recovered(gate, working)) >= RecoveryThreshold
      BY <1>2 DEF ObserveFacts
<1> HIDE DEF lost
<1>4. gate' = lost \/ (lost.state = "frozen" /\ third >= lost.until /\ gate' = ActiveGate("active"))
      BY <1>1, <1>3, ExpireStep DEF lost
<1>5. gate.state \in {"active", "frozen"} /\ gate.until \in Nat /\ lost.until \in Nat
      BY <1>3 DEF TypeOK, Gates
<1>6. Accounted(gate', failedAt', now')
      BY <1>1, <1>3, AccountedLater DEF lost
<1>7. gate.state = "frozen" =>
         worked' = IF ProxyDown(winner, other) /\ lost.reason = "proxy_outage" THEN {} ELSE working
      BY <1>1 DEF SeenWorking, lost
<1>8. Recovering(gate', worked')
  <2>1. CASE gate' = lost /\ lost.state = "frozen"
    <3>1. CASE lost.recoveries = NoTargets  BY <2>1, <3>1 DEF Recovering, NoTargets
    <3>2. CASE lost.recoveries # NoTargets  BY <1>3, <1>5, <1>7, <2>1, <3>2
    <3> QED  BY <3>1, <3>2
  <2>2. CASE gate'.state # "frozen"  BY <2>2 DEF Recovering
  <2> QED  BY <1>4, <2>1, <2>2 DEF ActiveGate
<1>9. FreezeIsEvidence
  <2>1. CASE gate'.state = "frozen" /\ gate.state = "active"
    <3>1. gate' = lost  BY <1>4, <2>1 DEF ActiveGate
    <3> QED  BY <1>3, <2>1, <3>1, FreezeShown
  <2> QED  BY <2>1 DEF FreezeIsEvidence
<1>10. RecoveryIsEarned
  <2> SUFFICES ASSUME gate.state = "frozen", gate'.state = "active"
               PROVE  now' >= gate.until \/ Cardinality(Recovered(gate, worked')) >= RecoveryThreshold
      BY DEF RecoveryIsEarned, Recovered
  <2>1. CASE lost.state = "frozen"
    <3>1. third >= lost.until /\ lost.until >= gate.until  BY <1>3, <1>4, <2>1
    <3> QED  BY <1>1, <1>5, <3>1
  <2>2. CASE lost.state = "active"
    <3>1. worked' = working  BY <1>3, <1>7, <2>2
    <3>2. second >= gate.until => third >= gate.until  BY <1>1, <1>5
    <3> QED  BY <1>1, <1>3, <2>2, <3>1, <3>2
  <2> QED  BY <1>3, <2>1, <2>2 DEF Gates
<1> QED  BY <1>6, <1>8, <1>9, <1>10 DEF Evidence

LEMMA EvidenceNext ==
    TypeOK /\ Evidence /\ [Next]_vars => Evidence' /\ [FreezeIsEvidence /\ RecoveryIsEarned]_vars
<1>1. TypeOK /\ Evidence /\ Next => Evidence' /\ FreezeIsEvidence /\ RecoveryIsEarned
      BY EvidenceOfPreferredPath, EvidenceOfBothFailed, EvidenceOfProxyFailed, EvidenceOfSuccess,
         EvidenceOfObserve DEF Next
<1>2. Evidence /\ UNCHANGED vars => Evidence'  BY DEF Evidence, vars, runtimeVars
<1> QED  BY <1>1, <1>2

LEMMA EvidenceInit == Init => Evidence
BY NothingCounted DEF Init, Evidence, Accounted, Recovering, ActiveGate

\* The gate freezes only when FailureThreshold distinct targets failed within
\* FailureWindow with nothing contradicting them, and thaws only in time or
\* after RecoveryThreshold distinct targets worked: health.Gate, however the
\* calls, expiries and extensions of several handlers interleave.
THEOREM GateIsTrue == Spec => GateFollowsEvidence
<1>1. Spec => []Evidence
  <2>1. TypeOK /\ Evidence /\ [Next]_vars => Evidence'  BY EvidenceNext
  <2> QED  BY <2>1, EvidenceInit, LearningTypes, PTL DEF Spec
<1>2. TypeOK /\ Evidence /\ [Next]_vars => [FreezeIsEvidence /\ RecoveryIsEarned]_vars
      BY EvidenceNext
<1> QED  BY <1>1, <1>2, LearningTypes, PTL DEF Spec, GateFollowsEvidence

-----------------------------------------------------------------------------
(* A live preference is kept.                                              *)

\* What a step may do to a live preference.
Kept(t) == \/ learned'[t].state = learned[t].state
           \/ streak'[t].path # learned[t].state
           \/ FreezesLearning

\* Learning keeps every live policy of another target, and turns one of its
\* own target only against a preference of the other path.
LEMMA LearnKeeps ==
    ASSUME NEW table \in Tables, NEW t \in Targets, NEW path \in Paths, NEW instant \in Nat,
           NEW x \in Targets, Live(table[x], instant), Preferred(table[x])
    PROVE  \/ Learn(table, t, path, instant)[x].state = table[x].state
           \/ x = t /\ table[x].state # path
<1> DEFINE room == Room(table, t, instant)
<1>1. room \in Tables /\ room[x] = table[x]  BY DEF Room, Pruned, Tables
<1> HIDE DEF room
<1>2. Learn(table, t, path, instant) \in {room, [room EXCEPT ![t] = Updated(@, path, instant)]}
      BY DEF Learn, room
<1>3. Updated(table[x], path, instant).state = table[x].state \/ table[x].state # path
      BY DEF Updated
<1> QED  BY <1>1, <1>2, <1>3 DEF Tables

LEMMA KeptByObserve ==
    ASSUME TypeOK, FrozenKnowsNothing, Evidence,
           NEW t \in Targets, NEW winner \in Paths, NEW other, Observe(t, winner, other),
           NEW x \in Targets, Preferred(learned[x]), Live(learned[x], now')
    PROVE  Kept(x)
<1>1. PICK first \in Nat \ {0}, second \in Nat \ {0}, third \in Nat \ {0} :
         LET won  == WonAt(t, winner, first)
             lost == LostAt(t, winner, other, first, second)
             table == Cleared(Cleared(learned, gate, won), won, lost)
         IN  /\ now =< first /\ first =< second /\ second =< third
             /\ gate' = Expire(lost, third) /\ now' = third
             /\ announced' = Announced(Announced(announced, gate, won), won, lost)
             /\ learned' = IF gate'.state = "active" /\ other = "strong"
                           THEN Learn(table, t, winner, third) ELSE table
             /\ failedAt' = IF ProxyDown(winner, other)
                            THEN [Forgiven(winner, second) EXCEPT !["proxy"][t] = second]
                            ELSE Forgiven(winner, first)
             /\ streak' = IF other = "strong" THEN [streak EXCEPT ![t] = Longer(@, winner)] ELSE streak
      BY ObserveInstants
<1> DEFINE won == WonAt(t, winner, first)
           lost == LostAt(t, winner, other, first, second)
           table == Cleared(Cleared(learned, gate, won), won, lost)
<1>2. /\ failedAt' = FailedAfter(t, winner, other, first, second)
      /\ ObserveFacts(t, winner, other, second, WonAt(t, winner, first), lost,
                      worked \cup {<<t, winner>>}, failedAt')
  <2>1. failedAt' = FailedAfter(t, winner, other, first, second)
        BY <1>1 DEF Forgiven, ForgivenOf, FailedAfter
  <2> QED  BY <1>1, <2>1, ObserveEvidence
<1>3. /\ won \in Gates /\ lost \in Gates
      /\ won.state = "frozen" => gate.state = "frozen"
      /\ lost.state = "frozen" /\ gate.state = "active" =>
            /\ lost.until = second + FreezeDuration
            /\ Cardinality({y \in Targets : failedAt'["proxy"][y] > 0}) >= FailureThreshold
      BY <1>2 DEF ObserveFacts
<1>4. gate.state = "active"
  <2>1. gate.state # "frozen"
        BY DEF FrozenKnowsNothing, Preferred, Empty, NoPolicy, Paths, Direct, Proxy
  <2> QED  BY <2>1 DEF TypeOK, Gates
<1>5. learned \in Tables /\ streak \in [Targets -> Streaks] /\ now \in Nat  BY DEF TypeOK
<1>6. /\ gate' = Expire(lost, third) /\ now' = third
      /\ announced' = Announced(Announced(announced, gate, won), won, lost)
      /\ learned' = IF gate'.state = "active" /\ other = "strong"
                    THEN Learn(table, t, winner, third) ELSE table
      /\ streak' = IF other = "strong" THEN [streak EXCEPT ![t] = Longer(@, winner)] ELSE streak
      BY <1>1
<1> HIDE DEF won, lost
<1>7. won.state = "active"  BY <1>3, <1>4 DEF Gates
<1>8. CASE lost.state = "active"
  <2>1. table = learned  BY <1>7, <1>8 DEF Cleared
  <2> HIDE DEF table
  <2>2. learned' = learned \/ (other = "strong" /\ learned' = Learn(learned, t, winner, third))
        BY <1>6, <2>1
  <2>3. CASE learned' = learned  BY <2>3 DEF Kept
  <2>4. CASE other = "strong" /\ learned' = Learn(learned, t, winner, third)
    <3>1. learned'[x].state = learned[x].state \/ (x = t /\ learned[x].state # winner)
          BY <1>5, <1>6, <2>4, LearnKeeps
    <3>2. streak'[t].path = winner  BY <1>5, <1>6, <2>4 DEF Longer
    <3> QED  BY <3>1, <3>2 DEF Kept
  <2> QED  BY <2>2, <2>3, <2>4
<1>9. CASE lost.state = "frozen"
  <2>1. gate' = lost \/ (third >= lost.until /\ gate' = ActiveGate("active"))
        BY <1>3, <1>6, ExpireStep
  <2>2. CASE gate' = lost  BY <1>9, <2>2 DEF Kept, FreezesLearning
  <2>3. CASE third >= lost.until
    <3>1. announced' = "frozen"  BY <1>6, <1>7, <1>9 DEF Announced, Changed
    <3>2. now' >= now + FreezeDuration
          BY <1>1, <1>3, <1>4, <1>5, <1>6, <1>9, <2>3, HealthAssumption
    <3> QED  BY <1>3, <1>4, <1>9, <3>1, <3>2 DEF Kept, FreezesLearning
  <2> QED  BY <2>1, <2>2, <2>3
<1> QED  BY <1>3, <1>8, <1>9 DEF Gates

\* The calls with a single transition: the table is cleared by a freeze that
\* the gate is still in, and PreferredPath forgets expired entries only.
LEMMA KeptByOthers ==
    ASSUME TypeOK, NEW t \in Targets,
           \/ PreferredPath(t)
           \/ ObserveBothPathsFailed(t) \/ ObserveProxyPathFailed(t) \/ ObservePathSucceeded(t),
           NEW x \in Targets, Live(learned[x], now')
    PROVE  Kept(x)
<1>1. PICK g : /\ gate' = g
               /\ \/ learned' = Cleared(learned, gate, g)
                  \/ learned' = Forgotten(Cleared(learned, gate, g), t, now')
      BY DEF PreferredPath, ObserveBothPathsFailed, ObserveProxyPathFailed, ObservePathSucceeded,
             Transition
<1>2. learned \in Tables  BY DEF TypeOK
<1>3. CASE g.state = "frozen"  BY <1>1, <1>3 DEF Kept, FreezesLearning
<1>4. CASE g.state # "frozen"
  <2>1. Cleared(learned, gate, g) = learned  BY <1>4 DEF Cleared
  <2>2. learned'[x] = learned[x]  BY <1>1, <1>2, <2>1 DEF Forgotten, Tables
  <2> QED  BY <2>2 DEF Kept
<1> QED  BY <1>3, <1>4

\* A live preference goes only when its own target contradicts it, or with
\* the whole table at a freeze: Engine.Observe never drops one to make room.
THEOREM PreferencesLast == Spec => LivePreferenceKept
<1> DEFINE Step == \A t \in Targets :
                      Preferred(learned[t]) /\ Live(learned[t], now') => Kept(t)
<1>1. TypeOK /\ FrozenKnowsNothing /\ Evidence /\ Next => Step
  <2> SUFFICES ASSUME TypeOK, FrozenKnowsNothing, Evidence, Next,
                      NEW x \in Targets, Preferred(learned[x]), Live(learned[x], now')
               PROVE  Kept(x)
      OBVIOUS
  <2>1. PICK t \in Targets :
           \/ PreferredPath(t)
           \/ ObserveBothPathsFailed(t) \/ ObserveProxyPathFailed(t) \/ ObservePathSucceeded(t)
           \/ \E winner \in Paths, other \in {"none", "weak", "strong"} : Observe(t, winner, other)
        BY DEF Next
  <2> QED  BY <2>1, KeptByOthers, KeptByObserve
<1>2. TypeOK /\ FrozenKnowsNothing /\ Evidence /\ [Next]_vars => [Step]_vars
      BY <1>1
<1>3. Spec => []Evidence
  <2>1. TypeOK /\ Evidence /\ [Next]_vars => Evidence'  BY EvidenceNext
  <2> QED  BY <2>1, EvidenceInit, LearningTypes, PTL DEF Spec
<1>4. LivePreferenceKept <=> [][Step]_vars
  <2>1. [Step]_vars <=> [\A t \in Targets :
           Preferred(learned[t]) /\ Live(learned[t], now') =>
              \/ learned'[t].state = learned[t].state
              \/ streak'[t].path # learned[t].state
              \/ FreezesLearning]_vars
        BY DEF Kept
  <2> QED  BY <2>1, PTL DEF LivePreferenceKept
<1> QED  BY <1>2, <1>3, <1>4, LearningTypes, FreezeIsTotal, PTL DEF Spec
=============================================================================
