------------------------- MODULE PreferredFallback -------------------------
(***************************************************************************)
(* TLSRacer.ConnectPreferredWithFallback: the remembered path alone, for   *)
(* half of the time, then the opposite path for what is left; and          *)
(* TLSRacer.ConnectPath, one path for all of it.  The two contexts, the    *)
(* dial with its ClientHello and ServerHello, and the watcher that closes  *)
(* its connection.                                                         *)
(***************************************************************************)
EXTENDS Naturals

CONSTANT Timeout  \* the total, in ticks

First      == "preferred"
Second     == "opposite"
Candidates == {First, Second}

VARIABLES
    prompt,    \* whether goroutines are never late by a tick
    mayFall,   \* ConnectPreferredWithFallback, or ConnectPath
    stage,     \* the path being tried, or how the call returned
    dial,      \* where its tlsReadyDialer.Dial is
    watcher,   \* its watcher
    conn,      \* each path's connection
    result,    \* what each path's Dial returned
    elapsed,   \* ticks since the call
    firstCtx,  \* the context of the first attempt, and how it ended
    pathCtx    \* the context of the call

contexts == <<elapsed, firstCtx, pathCtx>>
vars == <<prompt, mayFall, stage, dial, watcher, conn, result, contexts>>

Contexts == {"live", "deadline", "canceled"}

TypeOK ==
    /\ prompt \in BOOLEAN /\ mayFall \in BOOLEAN
    /\ stage \in Candidates \cup {"won_first", "won_second", "failed"}
    /\ dial \in {"base", "handshake", "closing", "none"}
    /\ watcher \in {"off", "armed", "fired"}
    /\ conn \in [Candidates -> {"none", "open", "closed"}]
    /\ result \in [Candidates -> {"none", "ready", "failed", "timeout", "canceled"}]
    /\ elapsed \in 0..Timeout
    /\ firstCtx \in Contexts /\ pathCtx \in Contexts

Init ==
    /\ prompt \in BOOLEAN /\ mayFall \in BOOLEAN
    /\ stage = First /\ dial = "base" /\ watcher = "off"
    /\ conn = [c \in Candidates |-> "none"]
    /\ result = [c \in Candidates |-> "none"]
    /\ elapsed = 0 /\ firstCtx = "live" /\ pathCtx = "live"

\* Half of it, only if there is a second attempt.
FirstBudget == IF mayFall THEN Timeout \div 2 ELSE Timeout

\* The context the running Dial was given.
Context == IF stage = First THEN firstCtx ELSE pathCtx

-----------------------------------------------------------------------------
(* tlsReadyDialer.Dial of the path being tried.                            *)

Trying == stage \in Candidates

\* The failure classes ask the context first, the error second; the read
\* deadline may pass an instant before the context ends.
FailureClass == CASE Context = "live" -> {"failed", "timeout"}
                  [] Context = "deadline" -> {"timeout"}
                  [] Context = "canceled" -> {"canceled"}

BaseFails ==
    /\ Trying /\ dial = "base"
    /\ \E f \in FailureClass : result' = [result EXCEPT ![stage] = f]
    /\ dial' = "closing"
    /\ UNCHANGED <<prompt, mayFall, stage, watcher, conn, contexts>>

\* socks5.DialContext looks at its context last.
BaseConnects ==
    /\ Trying /\ dial = "base" /\ Context = "live"
    /\ dial' = "handshake"
    /\ conn' = [conn EXCEPT ![stage] = "open"]
    /\ watcher' = "armed"
    /\ UNCHANGED <<prompt, mayFall, stage, result, contexts>>

WatcherFires ==
    /\ Trying /\ watcher = "armed" /\ Context # "live"
    /\ watcher' = "fired"
    /\ conn' = [conn EXCEPT ![stage] = "closed"]
    /\ UNCHANGED <<prompt, mayFall, stage, dial, result, contexts>>

HandshakeFails ==
    /\ Trying /\ dial = "handshake"
    /\ \E f \in FailureClass : result' = [result EXCEPT ![stage] = f]
    /\ dial' = "closing"
    /\ conn' = [conn EXCEPT ![stage] = "closed"]
    /\ UNCHANGED <<prompt, mayFall, stage, watcher, contexts>>

HandshakeReady ==
    /\ Trying /\ dial = "handshake" /\ conn[stage] = "open"
    /\ result' = [result EXCEPT ![stage] = "ready"]
    /\ dial' = "closing"
    /\ UNCHANGED <<prompt, mayFall, stage, watcher, conn, contexts>>

-----------------------------------------------------------------------------
(* connectPath returns, and the caller goes on.                            *)

\* The deferred stopWatcher has waited for the watcher.
Returned == Trying /\ dial = "closing"

Succeeds ==
    /\ Returned /\ result[stage] = "ready"
    /\ stage' = IF stage = First THEN "won_first" ELSE "won_second"
    /\ dial' = "none" /\ watcher' = "off"
    /\ UNCHANGED <<prompt, mayFall, conn, result, contexts>>

\* Mutant: a path that is slow is tried beside the other one.
FallsBack_Parallel ==
    /\ stage = First /\ mayFall /\ result[First] # "ready"
    /\ Returned \/ firstCtx = "deadline"
    /\ stage' = Second /\ dial' = "base" /\ watcher' = "off"
    /\ UNCHANGED <<prompt, mayFall, conn, result, contexts>>

\* One attempt on the opposite path, whatever made the first one fail.
FallsBack ==
    /\ Returned /\ stage = First /\ mayFall /\ result[First] # "ready"
    /\ stage' = Second /\ dial' = "base" /\ watcher' = "off"
    /\ UNCHANGED <<prompt, mayFall, conn, result, contexts>>

GivesUp ==
    /\ Returned /\ result[stage] # "ready"
    /\ stage = Second \/ ~mayFall
    /\ stage' = "failed" /\ dial' = "none" /\ watcher' = "off"
    /\ UNCHANGED <<prompt, mayFall, conn, result, contexts>>

-----------------------------------------------------------------------------
(* Time and the caller's context.                                          *)

Ended(ctx, how) == IF ctx = "live" THEN how ELSE ctx

\* Something must still happen at this instant.
Due == \/ dial = "closing" /\ Trying
       \/ Trying /\ Context # "live"
       \/ Trying /\ dial = "handshake" /\ conn[stage] = "closed"

Tick ==
    /\ elapsed < Timeout
    /\ prompt => ~Due
    /\ elapsed' = elapsed + 1
    /\ pathCtx' = IF elapsed' = Timeout THEN Ended(pathCtx, "deadline") ELSE pathCtx
    /\ firstCtx' = IF elapsed' >= FirstBudget THEN Ended(firstCtx, "deadline") ELSE firstCtx
    /\ UNCHANGED <<prompt, mayFall, stage, dial, watcher, conn, result>>

\* The connection's context ends: the server is shutting down.
ParentCancels ==
    /\ pathCtx = "live" /\ Trying
    /\ pathCtx' = "canceled" /\ firstCtx' = Ended(firstCtx, "canceled")
    /\ UNCHANGED <<prompt, mayFall, stage, dial, watcher, conn, result, elapsed>>

Finished == ~Trying /\ UNCHANGED vars

Next == \/ BaseFails \/ BaseConnects \/ WatcherFires
        \/ HandshakeFails \/ HandshakeReady
        \/ Succeeds \/ FallsBack \/ GivesUp
        \/ Tick \/ ParentCancels
        \/ Finished

Spec == Init /\ [][Next]_vars

\* As in CandidateRace: a Dial has to end once its context has, or once its
\* connection is closed; time passes; peers owe nothing.
MustEnd == \/ BaseFails /\ Context # "live"
           \/ HandshakeFails /\ conn[stage] = "closed"
           \/ Succeeds \/ FallsBack \/ GivesUp
Fairness == WF_vars(MustEnd) /\ WF_vars(WatcherFires) /\ WF_vars(Tick)
FairSpec == Spec /\ Fairness

-----------------------------------------------------------------------------
(* Properties.                                                             *)

\* ADR-0039: the mapping is followed by one candidate at a time; the second
\* path is dialled only when nothing of the first is left, and no connection
\* survives a call that failed.
OneConnectionAtATime ==
    /\ stage # First => conn[First] # "open" \/ stage = "won_first"
    /\ stage \in {First, "won_first"} => conn[Second] = "none"
    /\ stage = "failed" => \A c \in Candidates : conn[c] # "open"

\* The pair that overwrites the mapping is evidence: the remembered path
\* failed or timed out by itself, it was never abandoned by a shutdown, which
\* would have stopped the opposite path too.
OverwriteIsEarned == stage = "won_second" => result[First] \in {"failed", "timeout"}

\* ADR-0039: "A silent remembered path can consume no more than half the
\* total readiness budget before fallback."  (Prompt goroutines.)
FallbackHasHalfTheTime ==
    [][prompt /\ stage = First /\ stage' = Second => 2 * elapsed =< Timeout]_vars

\* The view of this call that RaceOutcome has.
Held    == {c \in Candidates : conn[c] = "open"}
Outcome == CASE stage \in {"won_first", "won_second"} -> "won"
             [] stage = "failed" -> "failed"
             [] Trying -> "pending"
Chosen  == CASE stage = "won_first" -> {First}
             [] stage = "won_second" -> {Second}
             [] stage \notin {"won_first", "won_second"} -> {}
Expired == firstCtx # "live"
=============================================================================
