----------------------------- MODULE HealthGate -----------------------------
(***************************************************************************)
(* health.Gate as operators on a gate record: which failures and successes *)
(* freeze learning, extend a freeze, and end it.  Every operation takes    *)
(* the clock reading it makes.  ObserveNetworkProfileChanged and           *)
(* ObserveCaptivePortal are left out: nothing in the program calls them.   *)
(***************************************************************************)
EXTENDS Routing

CONSTANTS FailureThreshold,   \* distinct failing targets that freeze
          RecoveryThreshold,  \* distinct succeeding targets that thaw
          FailureWindow,      \* how long failures are counted together
          FreezeDuration

ASSUME HealthAssumption ==
    /\ FailureThreshold \in Nat /\ FailureThreshold >= 2
    /\ RecoveryThreshold \in Nat /\ RecoveryThreshold >= 2
    /\ FailureWindow \in Nat \ {0} /\ FreezeDuration \in Nat \ {0}

\* A set of targets and the instant its window opened; 0 is Go's zero time.
NoTargets  == [since |-> 0, members |-> {}]
TargetSets == [since : Nat, members : SUBSET Targets]

Reasons == {"active", "recovered", "global_outage", "proxy_outage"}
Gates == [state : {"active", "frozen"}, reason : Reasons, until : Nat,
          global : TargetSets, proxy : TargetSets, recoveries : TargetSets]

ActiveGate(reason) == [state |-> "active", reason |-> reason, until |-> 0,
                       global |-> NoTargets, proxy |-> NoTargets, recoveries |-> NoTargets]

\* The window is fixed at the first failure, not sliding.
Add(set, now, window, t) ==
    IF set.since = 0 \/ now - set.since > window
    THEN [since |-> now, members |-> {t}]
    ELSE [set EXCEPT !.members = @ \cup {t}]

Freeze(g, now, reason) ==
    [g EXCEPT !.state = "frozen", !.reason = reason,
              !.until = now + FreezeDuration, !.recoveries = NoTargets]

\* A relevant failure while frozen: recovery starts over, the freeze is longer.
Extend(g, now) ==
    [g EXCEPT !.recoveries = NoTargets,
              !.until = IF now + FreezeDuration > @ THEN now + FreezeDuration ELSE @]

Expire(g, now) == IF g.state = "frozen" /\ now >= g.until THEN ActiveGate("active") ELSE g

\* Every operation below is given a gate that Expire has been applied to.
AfterBothFailed(g, now, t) ==
    LET failing == Add(g.global, now, FailureWindow, t)
        counted == [g EXCEPT !.global = failing]
    IN  IF g.state = "frozen" THEN Extend(g, now)
        ELSE IF Cardinality(failing.members) >= FailureThreshold
             THEN Freeze(counted, now, "global_outage")
             ELSE counted

AfterProxyFailed(g, now, t) ==
    LET failing == Add(g.proxy, now, FailureWindow, t)
        counted == [g EXCEPT !.proxy = failing]
    IN  IF g.state = "frozen"
        THEN IF g.reason = "proxy_outage" THEN Extend(g, now) ELSE g
        ELSE IF Cardinality(failing.members) >= FailureThreshold
             THEN Freeze(counted, now, "proxy_outage")
             ELSE counted

\* Enough distinct targets end the freeze early.
AfterRecovery(g, now, t) ==
    LET recovering == Add(g.recoveries, now, FreezeDuration, t)
    IN  IF Cardinality(recovering.members) >= RecoveryThreshold
        THEN ActiveGate("recovered")
        ELSE [g EXCEPT !.recoveries = recovering]

\* Mutant: any success recovers any outage.
AfterSuccess_AnyPath(g, now, t, path) ==
    IF g.state = "active"
    THEN [g EXCEPT !.global = NoTargets, !.proxy = IF path = Proxy THEN NoTargets ELSE @]
    ELSE AfterRecovery(g, now, t)

\* Direct success says nothing about a Proxy outage.
AfterSuccess(g, now, t, path) ==
    CASE g.state = "active" ->
             [g EXCEPT !.global = NoTargets, !.proxy = IF path = Proxy THEN NoTargets ELSE @]
      [] g.state # "active" /\ g.reason = "proxy_outage" /\ path # Proxy -> g
      [] OTHER -> AfterRecovery(g, now, t)

Check(g, now)               == Expire(g, now)
BothPathsFailed(g, now, t)  == AfterBothFailed(Expire(g, now), now, t)
ProxyPathFailed(g, now, t)  == AfterProxyFailed(Expire(g, now), now, t)
PathSucceeded(g, now, t, p) == AfterSuccess(Expire(g, now), now, t, p)

\* Transition.Changed.  An expiry that leaves the gate active always changes
\* its state, so the code's second condition adds nothing.
Changed(before, after) == before.state # after.state \/ before.reason # after.reason
=============================================================================
