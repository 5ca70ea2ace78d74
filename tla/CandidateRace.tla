--------------------------- MODULE CandidateRace ---------------------------
(***************************************************************************)
(* Racer.Race with two tlsReadyDialer candidates: the selecting goroutine, *)
(* one goroutine per started candidate, the watcher goroutine each of them *)
(* keeps while its handshake runs, the result channel, the head-start      *)
(* timer, the race context and the goroutine that drains the losers.       *)
(***************************************************************************)
EXTENDS Naturals, Sequences, FiniteSets

First      == "preferred"  \* the candidate launched at once
Second     == "opposite"   \* the one launched by the timer or a failure
Candidates == {First, Second}

VARIABLES
    main,      \* the selecting goroutine: "select", or how Race returned
    started,   \* candidates whose goroutine was launched
    received,  \* candidates whose result the selecting goroutine has read
    winner,    \* the candidate Race returned, or "none"
    timer,     \* the head-start timer
    context,   \* raceCtx, and who ended it
    dial,      \* where each candidate's Dial is
    conn,      \* its connection
    watcher,   \* closeConnectionOnCancel's goroutine
    result,    \* what Dial returns
    results,   \* the channel, capacity 2
    draining   \* results drainLosers still waits for

mainVars == <<main, started, received, winner, timer, draining>>
dialVars == <<dial, conn, watcher, result>>
vars     == <<mainVars, context, dialVars, results>>

TypeOK ==
    /\ main \in {"select", "won", "both_failed", "context_ended"}
    /\ started \subseteq Candidates /\ received \subseteq started
    /\ winner \in Candidates \cup {"none"}
    /\ timer \in {"running", "expired", "off"}
    /\ context \in {"live", "parent_canceled", "deadline", "race_returned"}
    /\ dial \in [Candidates -> {"idle", "base", "handshake", "closing", "sent"}]
    /\ conn \in [Candidates -> {"none", "open", "closed"}]
    /\ watcher \in [Candidates -> {"off", "armed", "fired"}]
    /\ result \in [Candidates -> {"none", "ready", "failed", "timeout", "canceled"}]
    /\ results \in Seq(Candidates) /\ Len(results) =< 2
    /\ draining \in 0..2

Init ==
    /\ main = "select"
    /\ started = {First} /\ received = {} /\ winner = "none"
    /\ timer = "running" /\ context = "live" /\ draining = 0
    /\ dial = [c \in Candidates |-> IF c = First THEN "base" ELSE "idle"]
    /\ conn = [c \in Candidates |-> "none"]
    /\ watcher = [c \in Candidates |-> "off"]
    /\ result = [c \in Candidates |-> "none"]
    /\ results = <<>>

-----------------------------------------------------------------------------
(* tlsReadyDialer.Dial in its own goroutine, and its watcher.              *)

\* The failure classes ask the context first, the error second.
FailureClass == CASE context = "live"     -> {"failed", "timeout"}
                  [] context = "deadline" -> {"timeout"}
                  [] OTHER                -> {"canceled"}

Send(c) == /\ dial' = [dial EXCEPT ![c] = "sent"]
           /\ results' = Append(results, c)

BaseFails(c) ==
    /\ dial[c] = "base"
    /\ \E f \in FailureClass : result' = [result EXCEPT ![c] = f]
    /\ Send(c)
    /\ UNCHANGED <<mainVars, context, conn, watcher>>

\* socks5.DialContext looks at the context last, so it had not ended yet.
BaseConnects(c) ==
    /\ dial[c] = "base" /\ context = "live"
    /\ dial' = [dial EXCEPT ![c] = "handshake"]
    /\ conn' = [conn EXCEPT ![c] = "open"]
    /\ watcher' = [watcher EXCEPT ![c] = "armed"]
    /\ UNCHANGED <<mainVars, context, result, results>>

\* ctx.Done closes the connection; also between the gate's success and
\* close(stop), because the watcher then picks among two ready cases.
WatcherFires(c) ==
    /\ watcher[c] = "armed" /\ context # "live"
    /\ watcher' = [watcher EXCEPT ![c] = "fired"]
    /\ conn' = [conn EXCEPT ![c] = "closed"]
    /\ UNCHANGED <<mainVars, context, dial, result, results>>

\* Writing ClientHello or awaiting ServerHello fails; Dial closes the conn.
HandshakeFails(c) ==
    /\ dial[c] = "handshake"
    /\ \E f \in FailureClass : result' = [result EXCEPT ![c] = f]
    /\ dial' = [dial EXCEPT ![c] = "closing"]
    /\ conn' = [conn EXCEPT ![c] = "closed"]
    /\ UNCHANGED <<mainVars, context, watcher, results>>

\* Mutant: the candidate that is ready ends the race context itself.
HandshakeReady_CancelsRace(c) ==
    /\ dial[c] = "handshake" /\ conn[c] = "open"
    /\ result' = [result EXCEPT ![c] = "ready"]
    /\ dial' = [dial EXCEPT ![c] = "closing"]
    /\ context' = IF context = "live" THEN "race_returned" ELSE context
    /\ UNCHANGED <<mainVars, conn, watcher, results>>

\* A complete ServerHello was read before anything closed the connection.
HandshakeReady(c) ==
    /\ dial[c] = "handshake" /\ conn[c] = "open"
    /\ result' = [result EXCEPT ![c] = "ready"]
    /\ dial' = [dial EXCEPT ![c] = "closing"]
    /\ UNCHANGED <<mainVars, context, conn, watcher, results>>

\* The deferred stopWatcher waits for the watcher, then the result is sent.
Return(c) ==
    /\ dial[c] = "closing"
    /\ watcher' = [watcher EXCEPT ![c] = "off"]
    /\ Send(c)
    /\ UNCHANGED <<mainVars, context, conn, result>>

-----------------------------------------------------------------------------
(* The selecting goroutine: the loop of Race.                              *)

Launch(c) == started' = started \cup {c} /\ dial' = [dial EXCEPT ![c] = "base"]

\* The deferred or explicit cancel of every way out of Race.
Cancel == context' = IF context = "live" THEN "race_returned" ELSE context

\* Mutant: the losers still on their way are forgotten.
ReturnRace_NoDrain(how, read) ==
    /\ main' = how
    /\ Cancel
    /\ UNCHANGED draining

\* Outstanding results go to drainLosers, which runs after Race has returned.
ReturnRace(how, read) ==
    /\ main' = how
    /\ Cancel
    /\ draining' = Cardinality(started) - Cardinality(read)

OnDone ==
    /\ main = "select" /\ context # "live"
    /\ ReturnRace("context_ended", received)
    /\ UNCHANGED <<started, received, winner, timer, dialVars, results>>

OnTimer ==
    /\ main = "select" /\ timer = "expired"
    /\ timer' = "off"
    /\ IF Second \in started THEN UNCHANGED <<started, dial>> ELSE Launch(Second)
    /\ UNCHANGED <<main, received, winner, draining, context, conn, watcher, result, results>>

OnReady ==
    /\ main = "select" /\ results # <<>>
    /\ result[Head(results)] = "ready"
    /\ winner' = Head(results)
    /\ received' = received \cup {Head(results)}
    /\ results' = Tail(results)
    /\ ReturnRace("won", received')
    /\ UNCHANGED <<started, timer, dialVars>>

\* An early failure of the preferred candidate launches the other one at
\* once; when both have been read as failures the race is lost.
OnFailure ==
    LET c == Head(results) IN
    /\ main = "select" /\ results # <<>>
    /\ result[c] # "ready"
    /\ received' = received \cup {c}
    /\ results' = Tail(results)
    /\ IF c = First /\ Second \notin started
       THEN /\ timer' = "off"
            /\ Launch(Second)
            /\ UNCHANGED <<main, context, draining>>
       ELSE /\ UNCHANGED <<timer, started, dial>>
            /\ IF received' = Candidates
               THEN ReturnRace("both_failed", received')
               ELSE UNCHANGED <<main, context, draining>>
    /\ UNCHANGED <<winner, conn, watcher, result>>

\* drainLosers: one result at a time, closing what it carries.
Drain ==
    LET c == Head(results) IN
    /\ draining > 0 /\ results # <<>>
    /\ draining' = draining - 1
    /\ results' = Tail(results)
    /\ conn' = [conn EXCEPT ![c] = IF result[c] = "ready" THEN "closed" ELSE @]
    /\ UNCHANGED <<main, started, received, winner, timer, context, dial, watcher, result>>

-----------------------------------------------------------------------------
(* Time and the caller.                                                    *)

HeadStartEnds ==
    /\ timer = "running" /\ main = "select"
    /\ timer' = "expired"
    /\ UNCHANGED <<main, started, received, winner, draining, context, dialVars, results>>

\* Timeout exceeds HeadStart, but the race context is created first and a
\* goroutine may be late: no order of the two is assumed.
DeadlinePasses ==
    /\ context = "live"
    /\ context' = "deadline"
    /\ UNCHANGED <<mainVars, dialVars, results>>

\* The connection's own context ends: the server is shutting down.
ParentCancels ==
    /\ context = "live"
    /\ context' = "parent_canceled"
    /\ UNCHANGED <<mainVars, dialVars, results>>

-----------------------------------------------------------------------------
Candidate(c) == \/ BaseFails(c) \/ BaseConnects(c)
                \/ HandshakeFails(c) \/ HandshakeReady(c)
                \/ WatcherFires(c) \/ Return(c)
Select == OnDone \/ OnTimer \/ OnReady \/ OnFailure

Finished == main # "select" /\ draining = 0 /\ UNCHANGED vars

Next == \/ \E c \in Candidates : Candidate(c)
        \/ Select \/ Drain
        \/ HeadStartEnds \/ DeadlinePasses \/ ParentCancels
        \/ Finished

Spec == Init /\ [][Next]_vars

\* Goroutines run and time passes; peers owe nothing. A Dial has to end only
\* once its context has, or once its connection has been closed under it.
MustEnd(c) == \/ BaseFails(c) /\ context # "live"
              \/ HandshakeFails(c) /\ conn[c] = "closed"
              \/ Return(c)
Fairness ==
    /\ \A c \in Candidates : WF_vars(MustEnd(c)) /\ WF_vars(WatcherFires(c))
    /\ WF_vars(Select) /\ WF_vars(Drain)
    /\ WF_vars(HeadStartEnds) /\ WF_vars(DeadlinePasses)

FairSpec == Spec /\ Fairness

-----------------------------------------------------------------------------
(* Properties.                                                             *)

\* No connection is ever without somebody who will use or close it: its own
\* Dial, a result that the loop or the draining goroutine will read (and
\* these wait for exactly as many as will come), or the caller.
Unread == Cardinality({c \in started : dial[c] # "sent"}) + Len(results)
EveryConnectionOwned ==
    /\ Unread = IF main = "select" THEN Cardinality(started) - Cardinality(received)
                                   ELSE draining
    /\ \A c \in Candidates : conn[c] = "open" =>
          \/ dial[c] \in {"handshake", "closing"}
          \/ \E i \in DOMAIN results : results[i] = c
          \/ main = "won" /\ winner = c

\* A candidate that the race reports beside the winner, or as one of two
\* failures, was never cancelled by the race itself: "canceled" appears there
\* only when the caller went away, so winning costs no path its reputation.
LoserNotBlamed ==
    main # "select" =>
        \A c \in received : result[c] = "canceled" => context = "parent_canceled"

\* The race is lost only when both candidates were tried to the end, and
\* then leaves nothing behind.
BothFailedIsFinal ==
    main = "both_failed" =>
        /\ draining = 0 /\ results = <<>>
        /\ \A c \in Candidates : conn[c] # "open" /\ result[c] \notin {"none", "ready"}

\* The view of the race that RaceOutcome has.
Held    == {c \in Candidates : conn[c] = "open"}
Outcome == CASE main = "select" -> "pending"
             [] main = "won" -> "won"
             [] main \in {"both_failed", "context_ended"} -> "failed"
Chosen  == IF main = "won" THEN {winner} ELSE {}
Expired == context \in {"deadline", "parent_canceled"}

\* RaceResult "owns the selected connection. The caller must close it.": the
\* connection Race returns is open.
ReturnedConnectionOpen == main = "won" => conn[winner] = "open"
=============================================================================
