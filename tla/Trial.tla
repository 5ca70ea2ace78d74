------------------------------- MODULE Trial -------------------------------
(***************************************************************************)
(* A controlled trial as it is recorded and read again: an engine and a    *)
(* guard, started with or without the planned session, record what their   *)
(* connections do; recording is paused and resumed, the recorder prunes    *)
(* its oldest file, the files are cleared, a process is killed, and the    *)
(* report and the assessment read whatever the directory then holds.       *)
(***************************************************************************)
EXTENDS TrialAssessment

CONSTANTS Base,      \* the declared original path of the configuration
          MaxTime,   \* bounds: the clock,
          MaxOther,  \* the events of the other processes,
          Decisions, \* and what is enumerated: <<path, other, took>> of a decision,
          Endings,   \* <<up, down, took, canceled, ends>> of a relay,
          Events,    \* and <<session, event>> of another process
          Window,    \* the planned window
          Legacy     \* what an older version may have left in the directory

ASSUME TrialAssumption ==
    /\ Base \in PathNames /\ Scopes # {} /\ IsFiniteSet(Conns) /\ "" \notin Conns
    /\ {MaxOther, Window, MaxInt64, MinCommittedSelections} \subseteq Nat /\ MaxTime \in Nat \ {0}
    /\ \A d \in Decisions : d[1] \in PathNames /\ d[2] \in Others(d[1]) /\ d[3] \in Nat
    /\ \A e \in Endings : /\ e[1] \in Nat /\ e[2] \in Nat /\ e[3] \in Nat /\ e[4] \in BOOLEAN
                         /\ \A i \in {1, 2} : e[5][i] \in EndReasons \ {"canceled"}
    /\ \A e \in Events :
           /\ e[1] \in {"planned", "stray"}
           /\ \/ e[2] = SupervisorEvent
              \/ \E s \in Scopes : \/ \E lane \in {"adaptive", "original", ""} : e[2] = GuardEvent(s, lane)
                                  \/ e[2] \in {HealthEvent(<<>>), HealthEvent(<<s>>), AssessmentEvent(s)}
    /\ {"planned", "stray"} \subseteq Sessions
    /\ \A rows \in Legacy :
           /\ rows \in Seq({rows[i] : i \in DOMAIN rows})
           /\ \A i \in DOMAIN rows :
                 rows[i].at = 0 /\ rows[i].schema < SchemaVersion /\ Reportable(rows[i], "engine")

VARIABLES now, engine,  \* the session the running engine was started with, or "down"
          conns,        \* what happened to each connection, whether recorded or not
          dir, paused,
          others,       \* how many events the other processes emitted
          lost,         \* the time of the youngest event that is not in dir
          refused       \* the recorder refused an event the program emitted
vars == <<now, engine, conns, dir, paused, others, lost, refused>>

Scope == CHOOSE s \in Scopes : TRUE
Idle == [st |-> "idle", id |-> "", session |-> "", path |-> "", at |-> 0, up |-> 0, down |-> 0,
         canceled |-> FALSE, ended |-> 0]

Max2(a, b) == IF a >= b THEN a ELSE b

Init ==
    /\ now = 1 /\ engine = "down" /\ paused \in BOOLEAN /\ others = 0 /\ lost = 0 /\ refused = FALSE
    /\ conns = [c \in Conns |-> Idle]
    /\ \E rows \in Legacy :
           dir = [s \in {Sources[i] : i \in DOMAIN Sources} |-> IF s = "engine" THEN rows ELSE <<>>]

Tick == now < MaxTime /\ now' = now + 1 /\ UNCHANGED <<engine, conns, dir, paused, others, lost, refused>>

\* runtimeEventSink.Emit and Record: a paused recorder drops the event.
Emit(session, event) ==
    LET row == [event EXCEPT !.session = session, !.at = now]
    IN  IF paused \/ ~Recordable(event)
        THEN /\ lost' = now /\ UNCHANGED dir
             /\ refused' = (refused \/ ~Recordable(event))
        ELSE /\ dir' = [dir EXCEPT ![row.source] = Append(@, row)]
             /\ UNCHANGED <<lost, refused>>

\* resolveRuntimeTrialSession: the planned session is passed, or one is made up.
Start(session) ==
    /\ engine = "down" /\ engine' = session
    /\ UNCHANGED <<now, conns, dir, paused, others, lost, refused>>

\* The process dies: its connections end without a relay event.
Kill ==
    /\ engine # "down" /\ engine' = "down"
    /\ conns' = [c \in Conns |-> IF conns[c].st = "open" THEN [conns[c] EXCEPT !.st = "gone"]
                                 ELSE conns[c]]
    /\ UNCHANGED <<now, dir, paused, others, lost, refused>>

\* The terminal event of a connection that is committed; no identifier at all
\* when the random source failed.
Decide(c, id, path, other, took) ==
    /\ engine # "down" /\ conns[c].st = "idle" /\ id \in {c, ""}
    /\ conns' = [conns EXCEPT ![c] = [Idle EXCEPT !.st = "open", !.id = id, !.session = engine,
                                                  !.path = path, !.at = now]]
    /\ Emit(engine, DecisionEvent(id, Scope, Base, path, other, took))
    /\ UNCHANGED <<now, engine, paused, others>>

\* The terminal event of one that is not.
Fail(c, id) ==
    /\ engine # "down" /\ conns[c].st = "idle" /\ id \in {c, ""}
    /\ conns' = [conns EXCEPT ![c] = [Idle EXCEPT !.st = "failed", !.id = id, !.session = engine, !.at = now]]
    /\ Emit(engine, DiagnosticEvent(id, Scope, Base))
    /\ UNCHANGED <<now, engine, paused, others>>

RelayEnded(c, up, down, took, canceled, ends) ==
    /\ conns[c].st = "open"
    /\ conns' = [conns EXCEPT ![c] = [@ EXCEPT !.st = "ended", !.up = up, !.down = down,
                                              !.canceled = canceled, !.ended = now]]
    /\ Emit(engine, RelayEvent(conns[c].id, Scope, Base, conns[c].path, up, down, took, canceled, ends))
    /\ UNCHANGED <<now, engine, paused, others>>

\* A guard or a supervisor of any session, and the engine's other events.
OtherEmits(session, event) ==
    /\ others < MaxOther /\ others' = others + 1
    /\ event.source = "engine" => engine = session
    /\ Emit(session, event)
    /\ UNCHANGED <<now, engine, conns, paused>>

Pause  == ~paused /\ paused' = TRUE /\ UNCHANGED <<now, engine, conns, dir, others, lost, refused>>
Resume == paused /\ paused' = FALSE /\ UNCHANGED <<now, engine, conns, dir, others, lost, refused>>

\* The recorder removes its oldest file; here a file is one line.
Prune ==
    /\ dir["engine"] # <<>>
    /\ dir' = [dir EXCEPT !["engine"] = Tail(@)]
    /\ lost' = Max2(lost, Head(dir["engine"]).at)
    /\ UNCHANGED <<now, engine, conns, paused, others, refused>>

Clear ==
    /\ paused /\ \E s \in DOMAIN dir : dir[s] # <<>>
    /\ dir' = [s \in DOMAIN dir |-> <<>>] /\ lost' = now
    /\ UNCHANGED <<now, engine, conns, paused, others, refused>>

Next ==
    \/ Tick \/ Kill \/ Pause \/ Resume \/ Prune \/ Clear
    \/ \E s \in {"planned", "stray"} : Start(s)
    \/ \E e \in Events : OtherEmits(e[1], e[2])
    \/ \E c \in Conns, id \in Conns \cup {""} : \/ Fail(c, id)
                                            \/ \E d \in Decisions : Decide(c, id, d[1], d[2], d[3])
    \/ \E c \in Conns, e \in Endings : RelayEnded(c, e[1], e[2], e[3], e[4], e[5])

Spec == Init /\ [][Next]_vars

-----------------------------------------------------------------------------
Report(since) == BuildReport(dir, since, "planned", paused)
\* runTrialAssess: the plan is not older than the trial, nor the window longer.
AssessSince == IF now >= Window + 1 THEN now - Window ELSE 1

\* The connections with a committed terminal, and with a relay, since then.
Selected(since) == {c \in Conns : conns[c].st \in {"open", "gone", "ended"} /\ conns[c].at >= since}
Relayed(since)  == {c \in Conns : conns[c].st = "ended" /\ conns[c].ended >= since}

TypeOK ==
    /\ now \in 1 .. MaxTime /\ engine \in {"planned", "stray", "down"} /\ paused \in BOOLEAN
    /\ others \in 0 .. MaxOther /\ lost \in 0 .. MaxTime /\ refused \in BOOLEAN
    /\ \A c \in Conns : conns[c].st \in {"idle", "open", "failed", "gone", "ended"}
                       /\ conns[c].id \in {c, ""}
    /\ \A s \in DOMAIN dir : \A i \in DOMAIN dir[s] :
           dir[s][i].at \in 1 .. now \/ dir[s][i].schema < SchemaVersion

\* The recorder keeps every event the program emits: none of its own checks
\* contradicts what the connection handlers produce.
NothingRefused == ~refused

\* Whatever the recorder kept, the report reads: no event that passes the
\* writer's validation fails the reader's.
RowsAreReadable == Readable(dir)

\* A report of rows that were written whole and can be read fails only for a sum
\* that does not fit 64 bits: no crash between two rows, restart, pause, prune or
\* cut of the window makes the terminal and the relay of a connection contradict
\* each other.  Half-written rows and errors of the disk are outside the model.
ReportFailsOnlyByOverflow ==
    \A since \in 1 .. now : ReportOk(dir, since) \/ Overflows(Included(dir, since))

\* The counters of decisions, of relays and of pairs, kept by three different
\* parts of the report, agree in every report (ADR-0026's exact invariants), so
\* report.internal_consistency never fails on a directory the program wrote.
CountersAgree(lines, report) == Pairable(lines) => Consistent(report)

\* What the report says of the connections is what happened to them: never
\* more than that, and exactly that where nothing was dropped or pruned.
TellsTheTruth(r, since) ==
    LET selected == Selected(since)
        relayed == Relayed(since)
        identified == {c \in Conns : conns[c].id # ""}
        truth == [ready   |-> Cardinality(selected),
                  direct  |-> Cardinality({c \in selected : conns[c].path = Direct}),
                  changed |-> Cardinality({c \in selected : conns[c].path # Base}),
                  failed  |-> Cardinality({c \in Conns : conns[c].st = "failed" /\ conns[c].at >= since}),
                  relays  |-> Cardinality(relayed),
                  cut     |-> Cardinality({c \in relayed : conns[c].canceled}),
                  moved   |-> Cardinality({c \in relayed : conns[c].path # Base})]
        said == [ready |-> r.Adaptive.Ready, direct |-> r.Adaptive.SelectedDirect,
                 changed |-> r.DeclaredBaseline.ChangedFromDeclared,
                 failed |-> r.Adaptive.FailedBeforeReadiness,
                 relays |-> r.Relay.Outcomes, cut |-> r.Relay.Canceled,
                 moved |-> r.DeclaredBaseline.ChangedRelayOutcomes]
    IN  /\ \A f \in DOMAIN truth : said[f] <= truth[f]
        /\ lost < since =>
             /\ said = truth
             /\ r.ConnectionScope.UnmatchedRelayOutcomes
                  = Cardinality((relayed \ selected) \cap identified)
             /\ r.ConnectionScope.CommittedDecisionsWithoutOutcome
                  = Cardinality((selected \ relayed) \cap identified)

\* Both, of every window of the trial; where an older version left rows, the
\* counters agree in a report that includes them, too.
ReportsAreTrue ==
    /\ \A since \in 1 .. now :
           LET report == Report(since)
           IN  CountersAgree(Included(dir, since), report) /\ TellsTheTruth(report, since)
    /\ (\E l \in Included(dir, 0) : Row(l).at = 0) => CountersAgree(Included(dir, 0), Report(0))

\* A percentile is a value that was measured, with at least that share of the
\* measurements at or below it and less than that share below it.
RankIsNearest ==
    LET took == Values(Relays(Included(dir, 0)), LAMBDA row : row.took)
        ranks == summarizeMilliseconds(took).Ranks
        share(v, Below(_, _)) == 100 * Cardinality({l \in DOMAIN took : Below(took[l], v)})
    IN  \A i \in DOMAIN ranks :
            LET wanted == <<50, 95, 99>>[i] * Cardinality(DOMAIN took)
            IN  share(ranks[i], LAMBDA a, b : a <= b) >= wanted
                /\ share(ranks[i], LAMBDA a, b : a < b) < wanted

\* A window is ready for analysis only if it was earned: recording stands
\* still, everything in it belongs to the planned session, the planned session
\* really served that many connections, and, when nothing was dropped,
\* really as many of them ended, and as few of those by cancellation.
ReadyIsEarned ==
    LET since == AssessSince
        selected == Selected(since)
        relayed == Relayed(since)
        planned == {c \in Conns : conns[c].session = "planned"}
    IN  ReadyForDescriptiveAnalysis(Report(since)) =>
            /\ paused
            /\ \A l \in Included(dir, since) : Row(l).session = "planned"
            /\ Cardinality(selected \cap planned) >= MinCommittedSelections
            /\ (lost < since /\ \A c \in Conns : conns[c].st # "idle" => conns[c].id # "") =>
                   /\ selected \subseteq planned
                   /\ AtLeast(Cardinality(selected \cap relayed), Cardinality(selected \cup relayed),
                              MinPairCompleteness)
                   /\ AtMost(Cardinality({c \in relayed : conns[c].canceled}), Cardinality(relayed),
                             MaxCancellation)
=============================================================================
