----------------------------- MODULE MCStopping -----------------------------
(***************************************************************************)
(* What must happen in the end, of the parts that promise something of the *)
(* kind, on instances small enough for liveness: the first state says      *)
(* which part this is, the variables of the others never move.  A part     *)
(* that does not move owes nothing: no fair action of it is enabled in its *)
(* initial state, but for the supervisor, whose monitors start at once.    *)
(* The Sidecar is two parts over the same variables: "sidecar" has the     *)
(* TLSRacer that main.go installs, "plain" is the server without one.      *)
(***************************************************************************)
EXTENDS Supervisor

CONSTANTS Conns, Handlers, Targets, Capacities, QueueSize, TicksPerMs,
          ClockSteps, MaxClock, AllowClear

VARIABLES
    part,
    parent, guardCtx, listener, serve, inbound, closer, at,
    dial, deadline, lane, selected, reply, decision, payload,
    sideParent, sideCtx, sideListener, sideServe, sideInbound, sideCloser, sideAt,
    denied, plan, tried, result, chosen, remote, events, told,
    proc, cap, index, queue, inflight, stats, db, handler, dest, fixed, failed, winner,
    offer, now

Guard == INSTANCE Guard WITH ctx <- guardCtx, pc <- at, event <- decision
Sidecar == INSTANCE Sidecar WITH TLS <- TRUE,
    parent <- sideParent, ctx <- sideCtx, listener <- sideListener, serve <- sideServe,
    inbound <- sideInbound, closer <- sideCloser, pc <- sideAt
Plain == INSTANCE Sidecar WITH TLS <- FALSE,
    parent <- sideParent, ctx <- sideCtx, listener <- sideListener, serve <- sideServe,
    inbound <- sideInbound, closer <- sideCloser, pc <- sideAt
Learning == INSTANCE LastKnownGood WITH Conns <- Handlers, pc <- handler

guardVars   == <<parent, guardCtx, listener, serve, inbound, closer, at, dial, deadline, lane, selected,
                 reply, decision, payload>>
sidecarVars == <<sideParent, sideCtx, sideListener, sideServe, sideInbound, sideCloser,
                 sideAt, denied, plan, tried, result, chosen, remote, events, told>>
learnVars   == <<proc, cap, index, queue, inflight, stats, db, handler, dest, fixed, failed,
                 winner, offer, now>>

MCInit ==
    /\ part \in {"guard", "sidecar", "plain", "supervisor", "learning"}
    /\ Init /\ Guard!Init /\ Sidecar!Init /\ Learning!Init
    /\ part \notin {"sidecar", "plain"} => denied = {}

MCNext ==
    \/ /\ part = "guard" /\ Guard!Next
       /\ UNCHANGED <<part, vars, sidecarVars, learnVars>>
    \/ /\ part = "sidecar" /\ Sidecar!Next
       /\ UNCHANGED <<part, vars, guardVars, learnVars>>
    \/ /\ part = "plain" /\ Plain!Next
       /\ UNCHANGED <<part, vars, guardVars, learnVars>>
    \/ /\ part = "supervisor" /\ Next
       /\ UNCHANGED <<part, guardVars, sidecarVars, learnVars>>
    \/ /\ part = "learning" /\ Learning!Next
       /\ UNCHANGED <<part, vars, guardVars, sidecarVars>>

\* The fairness of each module.
MonitorsRun ==
    /\ WF_vars(part = "supervisor" /\ Returns)
    /\ WF_vars(part = "supervisor" /\ Tick)
    /\ \A s \in Services : /\ WF_vars(part = "supervisor" /\ Monitor(s))
                           /\ WF_vars(part = "supervisor" /\ Interrupt(s))
                           /\ WF_vars(part = "supervisor" /\ Kill(s))

\* With and without a TLSRacer, Sidecar!Fairness is of the same actions but for
\* Fails, which reports to nobody where there is no racer.
PlainFails == \A c \in Conns : WF_sidecarVars(Plain!Fails(c))

MCSpec ==
    /\ MCInit
    /\ [][MCNext]_<<part, vars, guardVars, sidecarVars, learnVars>>
    /\ MonitorsRun /\ Guard!Fairness /\ Sidecar!Fairness /\ PlainFails /\ Learning!Fairness

-----------------------------------------------------------------------------
(* Properties.                                                             *)

\* A stop ends, whatever it meets: Serve of the Guard returns and that of the
\* Sidecar, with and without the TLS paths, the supervisor does, and so does the
\* adaptive engine with its writer.
StopsEnd == /\ Guard!StopEnds /\ Sidecar!StopEnds
            /\ StopEnds /\ Learning!ShutdownEnds

\* Nobody is kept waiting for ever: a client whose request was read is answered
\* or cut off, so that a wedged engine costs it AdaptiveTimeout and not its
\* connection; and no service is given up, however often it fails.
NobodyIsForgotten ==
    /\ Guard!RequestIsAnswered
    /\ part = "supervisor" => KeepsTrying

\* What was learned is written.
Converges == Learning!Converges
=============================================================================
