--------------------------- MODULE EvidenceStore ---------------------------
(***************************************************************************)
(* The evidence table of the legacy modes: processes that open it, prune,  *)
(* trim and register their session, the writer goroutine that appends,     *)
(* assesses and trims, and a shutdown with a deadline.  Every transaction  *)
(* is a step of its own and may fail.  The writer's counters are printed   *)
(* and never read; those of the policy writer are in LastKnownGood.        *)
(***************************************************************************)
EXTENDS DurableAssessment, Sequences

CONSTANTS Procs,      \* processes on the same database
          MaxRows,    \* max_evidence_rows
          TrimEvery,  \* 256 in the code
          QueueSize, Retention,
          MayStepBack, \* whether the wall clock may be set back
          MaxClock, MaxStarts, MaxOffers, MaxFaults  \* bounds

ASSUME EvidenceAssumption ==
    /\ IsFiniteSet(Procs) /\ MayStepBack \in BOOLEAN
    /\ \A n \in {MaxRows, TrimEvery, QueueSize, Retention} : n \in Nat \ {0}
    /\ \A n \in {MaxClock, MaxStarts, MaxOffers, MaxFaults} : n \in Nat

VARIABLES
    sessions,   \* the table of sessions
    rows,       \* the table of strong evidence
    nextId,     \* its AUTOINCREMENT counter
    now,        \* the wall clock
    life,       \* where each process is
    session,    \* its session ID
    queue,      \* requests its writer has not taken
    step,       \* where its writer is with the request it took
    current,    \* that request
    since,      \* writesSinceTrim
    verdict,    \* the last assessment it published
    starts, offers, faults,  \* what the bounds count
    untrimmed   \* history: rows of dead processes no trim has seen yet

tables == <<sessions, rows, nextId>>
writer == <<queue, step, current, since>>
vars == <<tables, now, life, session, writer, verdict, starts, offers, faults, untrimmed>>

Requests  == [target : Targets, direction : Paths, at : Nat]
NoRequest == [target |-> 0, direction |-> 0, at |-> 0]
NoVerdict == [target |-> 0, state |-> "none"]

Down    == {"down", "clean"}
Opening == {"pruning", "trimming", "starting"}
Writing == {"up", "closing", "expired"}
Alive   == Opening \cup Writing \cup {"finaltrim"}

TypeOK ==
    /\ sessions \subseteq 1..starts /\ nextId \in Nat
    /\ \A r \in rows : /\ r.target \in Targets /\ r.direction \in Paths
                       /\ r.id \in 1..nextId /\ r.session \in 1..starts /\ r.at \in 0..MaxClock
    /\ now \in 0..MaxClock
    /\ life \in [Procs -> Down \cup Alive]
    /\ session \in [Procs -> 0..starts]
    /\ \A p \in Procs : /\ queue[p] \in Seq(Requests) /\ Len(queue[p]) =< QueueSize
                        /\ current[p] \in Requests \cup {NoRequest}
    /\ step \in [Procs -> {"idle", "assess", "count"}]
    /\ since \in [Procs -> Nat] /\ untrimmed \in Nat
    /\ verdict \in [Procs -> [target : Targets \cup {0},
                              state : Verdicts \cup {"none", "no_evidence"}]]
    /\ starts \in 0..MaxStarts /\ offers \in 0..MaxOffers /\ faults \in 0..MaxFaults

Init ==
    /\ sessions = {} /\ rows = {} /\ nextId = 0 /\ now = 0
    /\ life = [p \in Procs |-> "down"] /\ session = [p \in Procs |-> 0]
    /\ queue = [p \in Procs |-> <<>>] /\ step = [p \in Procs |-> "idle"]
    /\ current = [p \in Procs |-> NoRequest] /\ since = [p \in Procs |-> 0]
    /\ verdict = [p \in Procs |-> NoVerdict]
    /\ starts = 0 /\ offers = 0 /\ faults = 0 /\ untrimmed = 0

Newer(r, s) == r.at > s.at \/ (r.at = s.at /\ r.id > s.id)

\* Mutant: the order reversed.
Trimmed_Oldest(table) ==
    {r \in table : Cardinality({s \in table : Newer(r, s)}) < MaxRows}
Trimmed(table) ==
    {r \in table : Cardinality({s \in table : Newer(s, r)}) < MaxRows}
Unexpired(table, cutoff) == {r \in table : r.at >= cutoff}

\* Mutant: sessions are removed by what they lost, not by what is left.
Keep_ByLoss(kept) ==
    /\ rows' = kept
    /\ sessions' = {s \in sessions : \A r \in rows \ kept : r.session # s}
    /\ UNCHANGED nextId
\* The end of PruneEvidence and of TrimEvidenceTo.
Keep(kept) ==
    /\ rows' = kept
    /\ sessions' = {s \in sessions : \E r \in kept : r.session = s}
    /\ UNCHANGED nextId

Moves(p, from, to) == life[p] = from /\ life' = [life EXCEPT ![p] = to]

\* A transaction of p fails: busy, full, interrupted.
Fault == faults < MaxFaults /\ faults' = faults + 1 /\ UNCHANGED <<tables, untrimmed>>

\* TrimEvidenceTo as one transaction.
Trim == Keep(Trimmed(rows)) /\ untrimmed' = 0 /\ UNCHANGED faults

-----------------------------------------------------------------------------
(* openDurableLearning after Open succeeded, up to the writer goroutine.   *)

Start(p) ==
    /\ life[p] \in Down /\ life' = [life EXCEPT ![p] = "pruning"]
    /\ starts < MaxStarts /\ starts' = starts + 1
    /\ session' = [session EXCEPT ![p] = starts']
    /\ verdict' = [verdict EXCEPT ![p] = NoVerdict]
    /\ UNCHANGED <<tables, now, writer, offers, faults, untrimmed>>

Prune(p) ==
    /\ Moves(p, "pruning", "trimming")
    /\ Keep(Unexpired(rows, now - Retention))
    /\ UNCHANGED <<now, session, writer, verdict, starts, offers, faults, untrimmed>>

TrimAtStart(p) ==
    /\ Moves(p, "trimming", "starting")
    /\ Trim
    /\ UNCHANGED <<now, session, writer, verdict, starts, offers>>

\* The session row, then the writer with an empty queue.
StartSession(p) ==
    /\ Moves(p, "starting", "up")
    /\ sessions' = sessions \cup {session[p]}
    /\ queue' = [queue EXCEPT ![p] = <<>>]
    /\ step' = [step EXCEPT ![p] = "idle"]
    /\ current' = [current EXCEPT ![p] = NoRequest]
    /\ since' = [since EXCEPT ![p] = 0]
    /\ UNCHANGED <<rows, nextId, now, session, verdict, starts, offers, faults, untrimmed>>

OpenFails(p) ==
    /\ life[p] \in Opening /\ life' = [life EXCEPT ![p] = "down"]
    /\ Fault
    /\ UNCHANGED <<now, session, writer, verdict, starts, offers>>

-----------------------------------------------------------------------------
(* The runtime's Enqueue and the writer goroutine.                         *)

\* A strong pair was observed; a full queue drops it.
Enqueue(p, t, path) ==
    /\ life[p] = "up" /\ offers < MaxOffers /\ offers' = offers + 1
    /\ queue' = IF Len(queue[p]) < QueueSize
                THEN [queue EXCEPT ![p] = Append(@, [target |-> t, direction |-> path, at |-> now])]
                ELSE queue
    /\ UNCHANGED <<tables, now, life, session, step, current, since, verdict, starts, faults,
                   untrimmed>>

Take(p) ==
    /\ life[p] \in Writing /\ step[p] = "idle" /\ queue[p] # <<>>
    /\ queue' = [queue EXCEPT ![p] = Tail(@)]
    /\ UNCHANGED <<now, life, session, since, verdict, starts, offers>>

\* AppendStrongEvidence: the session is a foreign key.
AppendRow(p) ==
    /\ Take(p)
    /\ session[p] \in sessions
    /\ LET request == Head(queue[p]) IN
       /\ rows' = rows \cup {[id |-> nextId + 1, session |-> session[p], target |-> request.target,
                              direction |-> request.direction, at |-> request.at]}
       /\ current' = [current EXCEPT ![p] = request]
    /\ nextId' = nextId + 1
    /\ step' = [step EXCEPT ![p] = "assess"]
    /\ UNCHANGED <<sessions, faults, untrimmed>>

\* An error is counted, and neither callback runs.
AppendFails(p) ==
    /\ Take(p)
    /\ \/ session[p] \notin sessions /\ UNCHANGED <<tables, faults, untrimmed>>
       \/ Fault
    /\ UNCHANGED <<step, current>>

\* Mutant: the retention is taken from the writer's clock.
Cutoff_FromNow(p) == now - Retention
\* From the observation, however late the writer is.
Cutoff(p) == current[p].at - Retention

\* OnWritten: the assessment of the row's target over its retention.
Assess(p) ==
    /\ life[p] \in Writing /\ step[p] = "assess"
    /\ \/ /\ verdict' = [verdict EXCEPT ![p] =
                 [target |-> current[p].target,
                  state  |-> Evaluate(Summarize(rows, current[p].target, Cutoff(p)))]]
          /\ UNCHANGED <<tables, faults, untrimmed>>
       \/ Fault /\ UNCHANGED verdict
    /\ step' = [step EXCEPT ![p] = "count"]
    /\ UNCHANGED <<now, life, session, queue, current, since, starts, offers>>

\* Mutant: a trim that fails counts as done.
Count_ForgetsFailure(p) ==
    /\ life[p] \in Writing /\ step[p] = "count"
    /\ IF since[p] + 1 < TrimEvery
       THEN since' = [since EXCEPT ![p] = @ + 1] /\ UNCHANGED <<tables, faults, untrimmed>>
       ELSE (Trim \/ Fault) /\ since' = [since EXCEPT ![p] = 0]
    /\ step' = [step EXCEPT ![p] = "idle"]
    /\ current' = [current EXCEPT ![p] = NoRequest]
    /\ UNCHANGED <<now, life, session, queue, verdict, starts, offers>>

\* OnProcessed: a failed trim leaves the counter, so the next row tries again.
Count(p) ==
    /\ life[p] \in Writing /\ step[p] = "count"
    /\ \/ /\ since[p] + 1 < TrimEvery
          /\ since' = [since EXCEPT ![p] = @ + 1]
          /\ UNCHANGED <<tables, faults, untrimmed>>
       \/ since[p] + 1 >= TrimEvery /\ Trim /\ since' = [since EXCEPT ![p] = 0]
       \/ since[p] + 1 >= TrimEvery /\ Fault /\ since' = [since EXCEPT ![p] = @ + 1]
    /\ step' = [step EXCEPT ![p] = "idle"]
    /\ current' = [current EXCEPT ![p] = NoRequest]
    /\ UNCHANGED <<now, life, session, queue, verdict, starts, offers>>

-----------------------------------------------------------------------------
(* durableLearningRuntime.Close, after the last handler; and the crash.    *)

Close(p) ==
    /\ Moves(p, "up", "closing")
    /\ UNCHANGED <<tables, now, session, writer, verdict, starts, offers, faults, untrimmed>>

Drained(p) ==
    /\ queue[p] = <<>> /\ step[p] = "idle"
    /\ Moves(p, "closing", "finaltrim")
    /\ UNCHANGED <<tables, now, session, writer, verdict, starts, offers, faults, untrimmed>>

\* The deadline passes first: no trim, no close, and the process exits while
\* the writer may still be at work.
Deadline(p) ==
    /\ Moves(p, "closing", "expired")
    /\ UNCHANGED <<tables, now, session, writer, verdict, starts, offers, faults, untrimmed>>

\* What a process that ends leaves to the next trim.
Written(p) == IF life[p] \in Writing \cup {"finaltrim"}
              THEN since[p] + (IF step[p] = "idle" THEN 0 ELSE 1) ELSE 0
Gone(p) ==
    /\ queue' = [queue EXCEPT ![p] = <<>>] /\ step' = [step EXCEPT ![p] = "idle"]
    /\ current' = [current EXCEPT ![p] = NoRequest] /\ since' = [since EXCEPT ![p] = 0]

FinalTrim(p) ==
    /\ \/ Moves(p, "finaltrim", "clean") /\ Trim
       \/ /\ Moves(p, "finaltrim", "down")
          /\ faults < MaxFaults /\ faults' = faults + 1
          /\ untrimmed' = untrimmed + Written(p)
          /\ UNCHANGED tables
    /\ Gone(p)
    /\ UNCHANGED <<now, session, verdict, starts, offers>>

\* A crash, or the exit that follows a missed deadline.
Exit(p) ==
    /\ life[p] \in Alive /\ life' = [life EXCEPT ![p] = "down"]
    /\ untrimmed' = untrimmed + Written(p)
    /\ Gone(p)
    /\ UNCHANGED <<tables, now, session, verdict, starts, offers, faults>>

Clock ==
    /\ \/ now < MaxClock /\ now' = now + 1
       \/ MayStepBack /\ now > 0 /\ now' = now - 1
    /\ UNCHANGED <<tables, life, session, writer, verdict, starts, offers, faults, untrimmed>>

Next ==
    \/ Clock
    \/ \E p \in Procs :
        \/ Start(p) \/ Prune(p) \/ TrimAtStart(p) \/ StartSession(p) \/ OpenFails(p)
        \/ \E t \in Targets, path \in Paths : Enqueue(p, t, path)
        \/ AppendRow(p) \/ AppendFails(p) \/ Assess(p) \/ Count(p)
        \/ Close(p) \/ Drained(p) \/ Deadline(p) \/ FinalTrim(p) \/ Exit(p)

Spec == Init /\ [][Next]_vars

-----------------------------------------------------------------------------
(* Properties.                                                             *)

\* ADR-0036 promises a ceiling "exact on startup/shutdown and at most 255 over
\* while running".  What the code keeps is weaker, and this is all of it.
\* However trims fail, processes die and deadlines pass, the table is over its
\* ceiling by no more rows than were written since the last trim: those that
\* running writers count, and those their dead predecessors left.
RowsAccounted ==
    Cardinality(rows) =< MaxRows + untrimmed + MapThenSumSet(Written, Procs)

\* A writer owes 256 rows at most, one more than the ADR says because the trim
\* comes after the row that makes it due, and one more for every transaction
\* that failed.  The ceiling is exact when every process has just opened the
\* table or closed it in time; a missed deadline, a crash, or a second writer
\* that is at work, is no such end.
CeilingKept ==
    /\ \A p \in Procs : Written(p) =< TrimEvery + faults
    /\ (\A p \in Procs : life[p] \in {"starting", "clean"}) => Cardinality(rows) =< MaxRows

\* No cleaning of one process, in any order with another's appends, leaves a
\* row without its session.
ReferencesHold == \A r \in rows : r.session \in sessions

\* TrimEvidenceTo keeps the newest observations: a row that is deleted before
\* its retention is over has MaxRows newer ones that stay.
KeepsNewest ==
    \A r \in rows \ rows' :
        \/ r.at < now - Retention
        \/ Cardinality({s \in rows' : Newer(s, r)}) >= MaxRows
NewestKept == [][KeepsNewest]_vars

\* Catalog, StartSession: a "durable independent-session row".  As long as a
\* writer works, the session its rows refer to is registered, so that no
\* append of it fails for good.
SessionStaysRegistered ==
    \A p \in Procs : life[p] \in Writing => session[p] \in sessions

\* The assessment that follows a row is made over that row too: nothing
\* removes it, or ages it out, between its append and the query.
AssessmentSeesItsRow ==
    \A p \in Procs : life[p] \in Writing /\ step[p] = "assess" =>
        Summarize(rows, current[p].target, Cutoff(p)).wins[current[p].direction] >= 1

\* ADR-0015: repeated wins in one session never substitute for independent
\* sessions, and one contradicting row within the retention forbids any
\* suggestion: what suggests a path was learned in SessionsNeeded runs.
SuggestsIndependently ==
    \A p \in Procs : verdict'[p] # verdict[p] /\ verdict'[p].state \in Paths =>
        LET recent == {r \in rows : /\ r.target = verdict'[p].target
                                    /\ r.at >= current[p].at - Retention}
        IN  /\ starts >= SessionsNeeded[verdict'[p].state]
            /\ \A r \in recent : r.direction = verdict'[p].state
            /\ Cardinality({r.session : r \in recent}) >= SessionsNeeded[verdict'[p].state]
SuggestionIsIndependent == [][SuggestsIndependently]_vars

\* learning report: every row within the retention is counted once and every
\* target with evidence has one verdict.
ReportAddsUp ==
    LET cutoff == now - Retention
        report == Report(ListTargetSummaries(rows, cutoff))
    IN  /\ report.rows = Cardinality(Unexpired(rows, cutoff))
        /\ report.targets = MapThenSumSet(LAMBDA v : report.verdicts[v], Verdicts)
        /\ \A path \in Paths :
             report.evidence[path] =
                 Cardinality({r \in Unexpired(rows, cutoff) : r.direction = path})
=============================================================================
