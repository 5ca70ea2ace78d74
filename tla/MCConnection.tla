--------------------------- MODULE MCConnection ---------------------------
(***************************************************************************)
(* What becomes of one proxied connection, checked in one run: the first   *)
(* state says which call is looked at, the race of two candidates, the     *)
(* remembered path with its fallback, or the relay after either, and the   *)
(* variables of the others never move.                                     *)
(***************************************************************************)
EXTENDS Relay, Sequences

CONSTANT Timeout

\* The half of it that the remembered path gets is at least a tick.
ASSUME TimeoutAssumption == Timeout \in Nat /\ Timeout >= 2

VARIABLES
    call,
    main, started, received, winner, timer, raceCtx, rdial, rconn, rwatcher,
    rresult, results, draining,
    prompt, mayFall, stage, dial, watcher, conn, result, elapsed, firstCtx, pathCtx

Race == INSTANCE CandidateRace WITH
    context <- raceCtx, dial <- rdial, conn <- rconn, watcher <- rwatcher, result <- rresult
Fallback == INSTANCE PreferredFallback

raceVars == <<main, started, received, winner, timer, raceCtx, rdial, rconn, rwatcher,
              rresult, results, draining>>
fallVars == <<prompt, mayFall, stage, dial, watcher, conn, result, elapsed, firstCtx, pathCtx>>

InRace     == call = "race"
InFallback == call = "fallback"

MCInit ==
    /\ call \in {"race", "fallback", "relay"}
    /\ Init /\ Race!Init /\ Fallback!Init
    /\ call # "relay" => canHalfClose = Sides /\ ~handedClosed
    /\ call # "fallback" => prompt = FALSE /\ mayFall = FALSE

MCNext ==
    \/ InRace /\ Race!Next /\ UNCHANGED <<call, vars, fallVars>>
    \/ InFallback /\ Fallback!Next /\ UNCHANGED <<call, vars, raceVars>>
    \/ call = "relay" /\ Next /\ UNCHANGED <<call, raceVars, fallVars>>

\* The fairness of each module, for the call that is made (in the relay no
\* fair action is enabled before something else has happened).
MCFairness ==
    /\ \A c \in Race!Candidates : /\ WF_raceVars(InRace /\ Race!MustEnd(c))
                                  /\ WF_raceVars(InRace /\ Race!WatcherFires(c))
    /\ WF_raceVars(InRace /\ Race!Select) /\ WF_raceVars(InRace /\ Race!Drain)
    /\ WF_raceVars(InRace /\ Race!HeadStartEnds) /\ WF_raceVars(InRace /\ Race!DeadlinePasses)
    /\ WF_fallVars(InFallback /\ Fallback!MustEnd)
    /\ WF_fallVars(InFallback /\ Fallback!WatcherFires)
    /\ WF_fallVars(InFallback /\ Fallback!Tick)
    /\ Fairness
MCSpec == MCInit /\ [][MCNext]_<<call, vars, raceVars, fallVars>> /\ MCFairness

-----------------------------------------------------------------------------
(* Properties, besides those of Relay.                                     *)

CallTypeOK == TypeOK /\ Race!TypeOK /\ Fallback!TypeOK

\* A race of two and a fallback with two contexts leak no connection: every one
\* of them has somebody who will use or close it, and a call that failed has
\* left nothing open.
ConnectionsOwned ==
    /\ CallTypeOK
    /\ Race!EveryConnectionOwned /\ Race!BothFailedIsFinal /\ Fallback!OneConnectionAtATime

\* What is handed to the learner as the other path's outcome is what that path
\* did: neither the winner's cancellation nor a shutdown counts as its failure.
BlameIsEarned == Race!LoserNotBlamed /\ Fallback!OverwriteIsEarned

\* What the sidecar relies on, of a race as of a fallback: it ends once and in
\* time, leaves the fallback half of that, gives out at most one connection,
\* never closes that one itself (unless its time ran out) and closes every other.
Promise == INSTANCE RaceOutcome WITH
    Candidates <- Race!Candidates,
    open    <- IF InRace THEN Race!Held ELSE Fallback!Held,
    outcome <- IF InRace THEN Race!Outcome ELSE Fallback!Outcome,
    chosen  <- IF InRace THEN Race!Chosen ELSE Fallback!Chosen,
    expired <- IF InRace THEN Race!Expired ELSE Fallback!Expired
StepsAsPromised ==
    /\ Promise!Init /\ [][Promise!Next]_Promise!vars
    /\ Fallback!FallbackHasHalfTheTime
KeepsPromise == StepsAsPromised /\ (call # "relay" => Promise!Liveness)
=============================================================================
