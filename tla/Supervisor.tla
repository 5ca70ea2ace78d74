----------------------------- MODULE Supervisor -----------------------------
(***************************************************************************)
(* supervisor.Supervisor with its CommandStarter: one monitor per service  *)
(* starts a child, waits for it, and starts it again after a backoff that  *)
(* doubles up to a cap; a stop interrupts every child and, after a grace   *)
(* period, kills it.  Monitors take no time between two waits, so that     *)
(* the promises about time can be stated.                                  *)
(***************************************************************************)
EXTENDS Naturals

CONSTANTS
    Services,
    MinBackoff, MaxBackoff,  \* of a restart
    StableAfter,             \* a run of this length clears the failures
    Grace,                   \* from the interrupt to the kill
    FailureCap               \* bound on the failures counted

ASSUME DurationAssumption ==
    /\ MinBackoff \in Nat \ {0} /\ MaxBackoff \in Nat /\ MinBackoff <= MaxBackoff
    /\ StableAfter \in Nat \ {0} /\ Grace \in Nat \ {0}
ASSUME CapAssumption == FailureCap \in Nat /\ MinBackoff * 2^FailureCap >= MaxBackoff

VARIABLES
    ctx,       \* whether the supervisor was told to stop
    run,       \* Run has returned
    pc,        \* of each monitor
    child,     \* its process
    failures,  \* consecutive failures, counted up to FailureCap + 1
    age,       \* time since the child was started, up to StableAfter
    timer,     \* time left of the backoff, or of the grace period
    event,     \* the last event of the service
    short,     \* history: failures since the last stable run
    down,      \* history: time since the last attempt ended
    stopping   \* history: time since the stop

vars == <<ctx, run, pc, child, failures, age, timer, event, short, down, stopping>>
history == <<short, down, stopping>>

TypeOK ==
    /\ ctx \in BOOLEAN /\ run \in BOOLEAN
    /\ pc \in [Services -> {"loop", "start", "wait", "backoff", "over"}]
    /\ child \in [Services -> {"none", "alive", "interrupted", "dead"}]
    /\ failures \in [Services -> 0 .. FailureCap + 1]
    /\ age \in [Services -> 0 .. StableAfter]
    /\ \A s \in Services : timer[s] \in 0 .. (IF pc[s] = "backoff" THEN MaxBackoff ELSE Grace)
    /\ event \in [Services -> {"none", "started", "stopped", "restart_scheduled"}]
    /\ short \in [Services -> 0 .. FailureCap + 1]
    /\ down \in [Services -> 0 .. MaxBackoff + 1] /\ stopping \in 0 .. Grace + 1

Init ==
    /\ ctx = FALSE /\ run = FALSE
    /\ pc = [s \in Services |-> "loop"] /\ child = [s \in Services |-> "none"]
    /\ failures = [s \in Services |-> 0] /\ age = [s \in Services |-> 0]
    /\ timer = [s \in Services |-> 0] /\ event = [s \in Services |-> "none"]
    /\ short = [s \in Services |-> 0] /\ down = [s \in Services |-> 0]
    /\ stopping = 0

Capped(n, cap) == IF n > cap THEN cap ELSE n
Count(n)       == Capped(n + 1, FailureCap + 1)

-----------------------------------------------------------------------------
\* Mutant: the cap is looked at only before the doubling.
restartBackoff_Overshoots(n) ==
    LET double[k \in Nat] ==
            IF k = 0 THEN MinBackoff
            ELSE IF double[k - 1] >= MaxBackoff THEN MaxBackoff ELSE 2 * double[k - 1]
    IN  double[IF n <= 1 THEN 0 ELSE n - 1]
restartBackoff(n) ==
    LET double[k \in Nat] ==
            IF k = 0 THEN MinBackoff
            ELSE IF double[k - 1] >= MaxBackoff \/ double[k - 1] > MaxBackoff \div 2
                 THEN MaxBackoff ELSE 2 * double[k - 1]
    IN  double[IF n <= 1 THEN 0 ELSE n - 1]

\* Both ends of an attempt lead here: restart_scheduled, then the timer.
Schedule(s, n) ==
    /\ failures' = [failures EXCEPT ![s] = n]
    /\ timer' = [timer EXCEPT ![s] = restartBackoff(n)]
    /\ event' = [event EXCEPT ![s] = "restart_scheduled"]
    /\ pc' = [pc EXCEPT ![s] = "backoff"]
    /\ down' = [down EXCEPT ![s] = 0]

Begin(s) ==
    /\ pc[s] = "loop"
    /\ pc' = [pc EXCEPT ![s] = IF ctx THEN "over" ELSE "start"]
    /\ UNCHANGED <<ctx, run, child, failures, age, timer, event, history>>

\* exec refuses a context that has ended.
StartSucceeds(s) ==
    /\ pc[s] = "start" /\ ~ctx
    /\ child' = [child EXCEPT ![s] = "alive"]
    /\ age' = [age EXCEPT ![s] = 0]
    /\ event' = [event EXCEPT ![s] = "started"]
    /\ pc' = [pc EXCEPT ![s] = "wait"]
    /\ UNCHANGED <<ctx, run, failures, timer, history>>

\* start_failed and restart_scheduled, with nothing in between.
StartFails(s) ==
    /\ pc[s] = "start"
    /\ Schedule(s, Count(failures[s]))
    /\ short' = [short EXCEPT ![s] = Count(@)]
    /\ UNCHANGED <<ctx, run, child, age, stopping>>

Exited(s) ==
    /\ pc[s] = "wait" /\ child[s] = "dead" /\ ~ctx
    /\ child' = [child EXCEPT ![s] = "none"]
    /\ Schedule(s, IF age[s] >= StableAfter THEN 1 ELSE Count(failures[s]))
    /\ short' = [short EXCEPT ![s] = IF age[s] >= StableAfter THEN 1 ELSE Count(@)]
    /\ UNCHANGED <<ctx, run, age, stopping>>

Stopped(s) ==
    /\ pc[s] = "wait" /\ child[s] = "dead" /\ ctx
    /\ child' = [child EXCEPT ![s] = "none"]
    /\ event' = [event EXCEPT ![s] = "stopped"]
    /\ pc' = [pc EXCEPT ![s] = "over"]
    /\ UNCHANGED <<ctx, run, failures, age, timer, history>>

TimerFires(s) ==
    /\ pc[s] = "backoff" /\ timer[s] = 0
    /\ pc' = [pc EXCEPT ![s] = "loop"]
    /\ UNCHANGED <<ctx, run, child, failures, age, timer, event, history>>

BackoffCanceled(s) ==
    /\ pc[s] = "backoff" /\ ctx
    /\ pc' = [pc EXCEPT ![s] = "over"]
    /\ timer' = [timer EXCEPT ![s] = 0]
    /\ UNCHANGED <<ctx, run, child, failures, age, event, history>>

Returns ==
    /\ ctx /\ ~run /\ \A s \in Services : pc[s] = "over"
    /\ run' = TRUE
    /\ UNCHANGED <<ctx, pc, child, failures, age, timer, event, history>>

-----------------------------------------------------------------------------
(* The children, and what exec does to them.                               *)

ChildExits(s) ==
    /\ child[s] \in {"alive", "interrupted"}
    /\ child' = [child EXCEPT ![s] = "dead"]
    /\ UNCHANGED <<ctx, run, pc, failures, age, timer, event, history>>

Interrupt(s) ==
    /\ ctx /\ child[s] = "alive"
    /\ child' = [child EXCEPT ![s] = "interrupted"]
    /\ timer' = [timer EXCEPT ![s] = Grace]
    /\ UNCHANGED <<ctx, run, pc, failures, age, event, history>>

Kill(s) ==
    /\ child[s] = "interrupted" /\ timer[s] = 0
    /\ child' = [child EXCEPT ![s] = "dead"]
    /\ UNCHANGED <<ctx, run, pc, failures, age, timer, event, history>>

Stop ==
    /\ ~ctx /\ ctx' = TRUE
    /\ UNCHANGED <<run, pc, child, failures, age, timer, event, history>>

\* A monitor that only waits, and so lets time pass.
Waits(s) ==
    \/ pc[s] = "wait" /\ child[s] = "alive" /\ ~ctx
    \/ pc[s] = "wait" /\ child[s] = "interrupted" /\ timer[s] > 0
    \/ pc[s] = "backoff" /\ timer[s] > 0 /\ ~ctx
    \/ pc[s] = "over"

Tick ==
    /\ \A s \in Services : Waits(s)
    /\ ~run /\ (ctx => \E s \in Services : pc[s] # "over")
    /\ age' = [s \in Services |-> Capped(age[s] + 1, StableAfter)]
    /\ timer' = [s \in Services |-> IF timer[s] = 0 THEN 0 ELSE timer[s] - 1]
    /\ down' = [s \in Services |-> Capped(down[s] + 1, MaxBackoff + 1)]
    /\ stopping' = IF ctx THEN Capped(stopping + 1, Grace + 1) ELSE 0
    /\ UNCHANGED <<ctx, run, pc, child, failures, event, short>>

Monitor(s) ==
    \/ Begin(s) \/ StartSucceeds(s) \/ StartFails(s) \/ Exited(s) \/ Stopped(s)
    \/ TimerFires(s) \/ BackoffCanceled(s)

Next ==
    \/ \E s \in Services : Monitor(s) \/ ChildExits(s) \/ Interrupt(s) \/ Kill(s)
    \/ Returns \/ Stop \/ Tick
    \/ run /\ UNCHANGED vars

Spec == Init /\ [][Next]_vars

\* Goroutines run and time passes; a child owes nothing, it may ignore the
\* interrupt and it may never exit.
Fairness ==
    /\ WF_vars(Returns) /\ WF_vars(Tick)
    /\ \A s \in Services : WF_vars(Monitor(s)) /\ WF_vars(Interrupt(s)) /\ WF_vars(Kill(s))
FairSpec == Spec /\ Fairness

-----------------------------------------------------------------------------
(* Properties.                                                             *)

\* ADR-0008: consecutive failures double the delay from the minimum to the
\* cap, and a run of StableAfter starts over, for each service on its own.  A
\* crash loop is neither faster nor slower than that, whatever the sibling
\* does: the time from the end of an attempt to the next is exactly this.
RestartsOnSchedule ==
    [][\A s \in Services :
        pc[s] = "loop" /\ pc'[s] = "start" /\ short[s] > 0 =>
            down[s] = Capped(MinBackoff * 2^(short[s] - 1), MaxBackoff)]_vars

\* When Run has returned no child is left behind, and no service's last word
\* is that it was started.
NoOrphans ==
    run => \A s \in Services : child[s] = "none" /\ event[s] # "started"

\* A child that ignores the interrupt holds the stop up by the grace period
\* and no longer, whatever else is waited for at that moment.
StopIsBounded == run \/ stopping <= Grace

\* A stop ends, with children that never exit by themselves.
StopEnds == ctx ~> run

\* No service is given up, however often it fails.
KeepsTrying == \A s \in Services : []<>(pc[s] = "start" \/ child[s] = "alive" \/ ctx)
=============================================================================
