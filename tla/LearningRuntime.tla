-------------------------- MODULE LearningRuntime --------------------------
(***************************************************************************)
(* runtimeLearningEngine in the legacy modes with the health gate enabled: *)
(* its mutex makes each call of a connection handler one step, in which    *)
(* the gate and the engine read the clock separately, and the gate decides *)
(* whether the engine may answer, learn and store evidence.                *)
(***************************************************************************)
EXTENDS HealthGate, EphemeralLearning

CONSTANTS Mode,      \* "shadow" or "ephemeral-auto"
          MaxClock   \* bound: the last instant of a behaviour

ASSUME ModeAssumption == Mode \in {"shadow", "ephemeral-auto"} /\ MaxClock \in Nat

VARIABLES
    gate,       \* the health gate
    learned,    \* the engine's table
    now,        \* the last clock reading
    announced,  \* the state in the last learning_health event
    rows,       \* Direct-over-Proxy rows enqueued since Proxy last worked,
                \* up to FailureThreshold
    \* History, read by no action:
    failedAt,   \* when a target failed, within the window and not contradicted
    worked,     \* successes during the freeze, since it was last extended
    streak      \* the last strong pairs of a target, all won by one path

runtimeVars == <<gate, learned, now, announced>>
vars == <<runtimeVars, rows, failedAt, worked, streak>>

Streaks == [path : Paths, wins : Nat]

TypeOK ==
    /\ gate \in Gates
    /\ learned \in Tables /\ Cardinality(Entries(learned)) =< MaxEntries
    /\ now \in Nat \ {0} /\ announced \in {"active", "frozen"} /\ rows \in Nat
    /\ failedAt \in [{"both", "proxy"} -> [Targets -> Nat]]
    /\ worked \subseteq Targets \X Paths
    /\ streak \in [Targets -> Streaks]

Init ==
    /\ gate = ActiveGate("active") /\ learned = Empty /\ now = 1
    /\ announced = "active" /\ rows = 0
    /\ failedAt = [kind \in {"both", "proxy"} |-> [t \in Targets |-> 0]]
    /\ worked = {}
    /\ streak = [t \in Targets |-> [path |-> Direct, wins |-> 0]]

Later(instant) == instant..MaxClock

\* Mutant: only a freeze of the whole environment is acted on.
Cleared_NotForProxyOutage(table, before, after) ==
    IF Changed(before, after) /\ after.reason = "global_outage" THEN Empty ELSE table

\* handleHealthTransition
Cleared(table, before, after) ==
    IF Changed(before, after) /\ after.state = "frozen" THEN Empty ELSE table
Announced(event, before, after) ==
    IF Changed(before, after) THEN after.state ELSE event

\* A call with a single transition of the gate.
Transition(g, instant) ==
    /\ gate' = g /\ now' = instant
    /\ announced' = Announced(announced, gate, g)

Longer(run, path) ==
    [path |-> path,
     wins |-> IF run.path # path THEN 1
              ELSE IF run.wins < Threshold(path) THEN run.wins + 1 ELSE run.wins]

None == [t \in Targets |-> 0]
Recent(failures, instant) ==
    [t \in Targets |-> IF failures[t] + FailureWindow >= instant THEN failures[t] ELSE 0]

SeenFailure(kind, t, instant) ==
    failedAt' = [k \in {"both", "proxy"} |->
        Recent(IF k = kind THEN [failedAt[k] EXCEPT ![t] = instant] ELSE failedAt[k], instant)]

\* What a success of path leaves of the failures seen.
Forgiven(path, instant) ==
    [failedAt EXCEPT !["both"] = None,
                     !["proxy"] = IF path = Proxy THEN None ELSE Recent(@, instant)]

SeenWorking(t, path) == IF gate.state = "frozen" THEN worked \cup {<<t, path>>} ELSE {}

-----------------------------------------------------------------------------
(* Calls of the sidecar's handlers.                                        *)

PreferredPath(t) ==
    \E checked \in Later(now) : \E asked \in Later(checked) :
        LET g     == Check(gate, checked)
            table == Cleared(learned, gate, g)
        IN
        /\ Transition(g, asked)
        /\ learned' = IF Mode = "shadow" \/ g.state = "frozen"
                      THEN table ELSE Forgotten(table, t, asked)
        /\ UNCHANGED <<rows, failedAt, worked, streak>>

ObserveBothPathsFailed(t) ==
    \E instant \in Later(now) :
        LET g == BothPathsFailed(gate, instant, t) IN
        /\ Transition(g, instant)
        /\ learned' = Cleared(learned, gate, g)
        /\ SeenFailure("both", t, instant)
        /\ worked' = {}
        /\ UNCHANGED <<rows, streak>>

\* The privacy policy left only the Proxy, and it failed.
ObserveProxyPathFailed(t) ==
    \E instant \in Later(now) :
        LET g == ProxyPathFailed(gate, instant, t) IN
        /\ Transition(g, instant)
        /\ learned' = Cleared(learned, gate, g)
        /\ SeenFailure("proxy", t, instant)
        /\ worked' = IF g.reason = "proxy_outage" THEN {} ELSE worked
        /\ UNCHANGED <<rows, streak>>

\* The privacy policy left only the Proxy, and it was ready.
ObservePathSucceeded(t) ==
    \E instant \in Later(now) :
        LET g == PathSucceeded(gate, instant, t, Proxy) IN
        /\ Transition(g, instant)
        /\ learned' = Cleared(learned, gate, g)
        /\ rows' = 0
        /\ failedAt' = Forgiven(Proxy, instant)
        /\ worked' = SeenWorking(t, Proxy)
        /\ UNCHANGED streak

\* A candidate won.  A strong failure of the other path makes the pair
\* evidence; one of the Proxy is a health signal as well.  The gate is asked
\* once more before anything is learned, and that question can thaw it too.
\* (The engine's own reading, later still, finds an active gate active.)
Observe(t, winner, other) ==
    \E first \in Later(now) : \E second \in Later(first) : \E third \in Later(second) :
        LET strong == other = "strong"
            proxyDown == strong /\ winner = Direct
            won    == PathSucceeded(gate, first, t, winner)
            lost   == IF proxyDown THEN ProxyPathFailed(won, second, t) ELSE won
            final  == Expire(lost, third)
            table  == Cleared(Cleared(learned, gate, won), won, lost)
            active == final.state = "active"
        IN
        /\ gate' = final /\ now' = third
        /\ announced' = Announced(Announced(announced, gate, won), won, lost)
        /\ learned' = IF active /\ strong THEN Learn(table, t, winner, third) ELSE table
        /\ rows' = IF winner = Proxy THEN 0
                   ELSE IF active /\ strong /\ rows < FailureThreshold THEN rows + 1 ELSE rows
        /\ failedAt' = IF proxyDown THEN [Forgiven(winner, second) EXCEPT !["proxy"][t] = second]
                                     ELSE Forgiven(winner, first)
        /\ worked' = IF proxyDown /\ lost.reason = "proxy_outage" THEN {} ELSE SeenWorking(t, winner)
        /\ streak' = IF strong THEN [streak EXCEPT ![t] = Longer(@, winner)] ELSE streak

Next ==
    \E t \in Targets :
        \/ PreferredPath(t)
        \/ ObserveBothPathsFailed(t) \/ ObserveProxyPathFailed(t) \/ ObservePathSucceeded(t)
        \/ \E winner \in Paths, other \in {"none", "weak", "strong"} : Observe(t, winner, other)

Spec == Init /\ [][Next]_vars

-----------------------------------------------------------------------------
(* Properties.                                                             *)

\* Learning is frozen as a whole: no preference or counter survives, or is
\* gained, while the gate is frozen, and the last event says so, although
\* thawing may happen silently, in a Snapshot in the middle of a call.
FrozenKnowsNothing ==
    gate.state = "frozen" => learned = Empty /\ announced = "frozen"

\* The gate freezes only when FailureThreshold distinct targets failed, all
\* within FailureWindow and with no success in between that contradicts it.
FreezeIsEvidence ==
    gate.state = "active" /\ gate'.state = "frozen" =>
        LET kind == IF gate'.reason = "global_outage" THEN "both" ELSE "proxy"
            at   == gate'.until - FreezeDuration
        IN  Cardinality({t \in Targets : /\ failedAt'[kind][t] > 0
                                         /\ failedAt'[kind][t] + FailureWindow >= at})
               >= FailureThreshold

\* A freeze ends in time, or by RecoveryThreshold distinct targets that worked
\* since it began or was extended: through the Proxy, if that was down.
RecoveryIsEarned ==
    gate.state = "frozen" /\ gate'.state = "active" =>
        \/ now' >= gate.until
        \/ Cardinality({t \in Targets : \E path \in Paths :
                           /\ <<t, path>> \in worked'
                           /\ gate.reason = "proxy_outage" => path = Proxy})
              >= RecoveryThreshold

\* However calls, expiries and extensions interleave, the gate changes its
\* state on evidence only.
GateFollowsEvidence == [][FreezeIsEvidence /\ RecoveryIsEarned]_vars

\* A path is preferred only after as many strong pairs in a row as its
\* threshold asks for, whatever freezes, expiries and refusals came between.
PreferenceIsEarned ==
    \A t \in Targets : Preferred(learned[t]) =>
        /\ streak[t].path = learned[t].state
        /\ streak[t].wins >= Threshold(learned[t].state)

\* Learning is frozen, or was during this call: then the call has seen enough
\* distinct targets fail, has said so, and has lasted as long as the freeze.
FreezesLearning ==
    \/ gate'.state = "frozen"
    \/ /\ Cardinality({t \in Targets : failedAt'["proxy"][t] > 0}) >= FailureThreshold
       /\ announced' = "frozen"
       /\ now' >= now + FreezeDuration

\* A live preference goes only when its own target contradicts it, or with
\* the whole table at a freeze: never to make room for another target.
LivePreferenceKept ==
    [][\A t \in Targets :
         Preferred(learned[t]) /\ Live(learned[t], now') =>
            \/ learned'[t].state = learned[t].state
            \/ streak'[t].path # learned[t].state
            \/ FreezesLearning]_vars

\* ADR-0017: of a Proxy outage at most N-1 evidence rows were enqueued before
\* the pair that freezes learning.
OutageRowsBounded ==
    gate.state = "frozen" /\ gate.reason = "proxy_outage" => rows < FailureThreshold
=============================================================================
