------------------------ MODULE ObservationReport ------------------------
(***************************************************************************)
(* smartroute observations report: the aggregate BuildReport computes from  *)
(* the lines of an observation directory.  dir[s] is what the files of     *)
(* source s hold, in the order in which they are read.  A line is a place, *)
(* <<source, position>>, and the row that stands there.  The code counts   *)
(* while it reads; here each counter is the number of lines it counts.     *)
(***************************************************************************)
EXTENDS ObservationRow, FiniteSets
LOCAL INSTANCE FiniteSetsExt

CONSTANT MaxInt64

Row(l) == l[2]
Sum(lines, Value(_)) == MapThenSumSet(LAMBDA l : Value(Row(l)), lines)

-----------------------------------------------------------------------------
(* Percentiles of a distribution: a value of each of finitely many lines.  *)

\* values is sorted; positions count from 1.
nearestRank(values, percentile) ==
    LET index == (percentile * Len(values) + 99) \div 100 IN values[IF index < 1 THEN 1 ELSE index]

\* The lines in an order in which their values ascend.
Ascending(values) ==
    LET n == Cardinality(DOMAIN values)
    IN  CHOOSE order \in [1 .. n -> DOMAIN values] :
            \A i, j \in 1 .. n : i < j => order[i] # order[j] /\ values[order[i]] <= values[order[j]]

summarizeMilliseconds(values) ==
    LET order == Ascending(values)
        sorted == [i \in DOMAIN order |-> values[order[i]]]
    IN  [Samples |-> Len(sorted),
         Ranks |-> IF DOMAIN values = {} THEN <<>>
                   ELSE <<nearestRank(sorted, 50), nearestRank(sorted, 95), nearestRank(sorted, 99)>>]

\* The values of an optional field, of the lines that have it.
Values(lines, Field(_)) ==
    [l \in {k \in lines : Present(Field(Row(k)))} |-> Field(Row(l))[1]]

-----------------------------------------------------------------------------
(* What is counted.                                                        *)

Committed(row) == row.type = "decision" /\ row.committed = <<TRUE>>

\* The opposite path failed by itself: it was not canceled, nor never started.
StrongFailure(o) ==
    ~o.success /\ o.stage >= StageOutbound /\ o.class \notin {"canceled", "not_started"}

OppositeFailed(row) ==
    Present(row.other) /\ StrongFailure(row.other[1]) /\ row.other[1].path # row.path

Selections(lines) == {l \in lines : Committed(Row(l))}

AdaptiveReport(lines) ==
    LET ready == Selections(lines)
        outcomes == Cardinality({l \in lines : Row(l).type \in TerminalTypes})
        opposite(path) == Cardinality({l \in ready : Row(l).path = path /\ OppositeFailed(Row(l))})
        alone == Cardinality({l \in ready : ~Present(Row(l).other)})
    IN  [ReadinessOutcomes |-> outcomes, Ready |-> Cardinality(ready),
         FailedBeforeReadiness |-> outcomes - Cardinality(ready),
         SelectedDirect |-> Cardinality({l \in ready : Row(l).path = Direct}),
         SelectedProxy  |-> Cardinality({l \in ready : Row(l).path = Proxy}),
         NoCompletedOpposite |-> alone,
         DirectFailedProxySucceeded |-> opposite(Proxy),
         DirectSucceededProxyFailed |-> opposite(Direct),
         OtherCompletedOutcomes |-> Cardinality(ready) - alone - opposite(Proxy) - opposite(Direct),
         DecisionReadinessLatencyMS |-> summarizeMilliseconds(Values(ready, LAMBDA row : row.latency))]

GuardReport(lines) ==
    LET decisions == {l \in lines : Row(l).type = "guard_decision"}
        lane(name) == Cardinality({l \in decisions : Row(l).lane = name})
    IN  [Decisions |-> Cardinality(decisions), AdaptiveSelected |-> lane("adaptive"),
         OriginalSelected |-> lane("original"),
         Unavailable |-> Cardinality(decisions) - lane("adaptive") - lane("original")]

Relays(lines) == {l \in lines : Row(l).type = "relay_outcome"}
Up(row)   == row.up[1]
Down(row) == row.down[1]

RelayPath(relays, path) ==
    LET taken == {l \in relays : Row(l).path = path}
    IN  [Connections |-> Cardinality(taken), ClientToRemoteBytes |-> Sum(taken, Up),
         RemoteToClientBytes |-> Sum(taken, Down)]

EndCounts(relays, way) ==
    [reason \in EndReasons \cup {""} |-> Cardinality({l \in relays : Row(l).ends[way] = reason})]

RelayReport(lines) ==
    LET relays == Relays(lines)
    IN  [Outcomes |-> Cardinality(relays),
         Ended    |-> Cardinality({l \in relays : Row(l).term = "ended"}),
         Canceled |-> Cardinality({l \in relays : Row(l).term = "canceled"}),
         WithRemoteToClientBytes |-> Cardinality({l \in relays : Down(Row(l)) > 0}),
         ClientToRemoteBytes |-> Sum(relays, Up), RemoteToClientBytes |-> Sum(relays, Down),
         Path |-> [path \in PathNames |-> RelayPath(relays, path)],
         Ends |-> <<EndCounts(relays, 1), EndCounts(relays, 2)>>,
         DurationMS |-> summarizeMilliseconds(Values(relays, LAMBDA row : row.took))]

\* The sums are checked as they grow; they grow only.
Overflows(lines) == Sum(Relays(lines), Up) > MaxInt64 \/ Sum(Relays(lines), Down) > MaxInt64

Changed(row) == row.base # "" /\ row.path # row.base

DeclaredBaselineReport(lines) ==
    LET selections == Selections(lines)
        scoped == {l \in selections : Row(l).base # ""}
        changed == {l \in selections : Changed(Row(l))}
        relays == Relays(lines)
        declared == {l \in relays : Row(l).base # ""}
        moved == {l \in relays : Changed(Row(l))}
    IN  [ScopedSelections |-> Cardinality(scoped),
         UnscopedSelections |-> Cardinality(selections) - Cardinality(scoped),
         SameAsDeclared |-> Cardinality(scoped) - Cardinality(changed),
         ChangedFromDeclared |-> Cardinality(changed),
         DirectInsteadOfProxy |-> Cardinality({l \in changed : Row(l).path = Direct}),
         ProxyInsteadOfDirect |-> Cardinality({l \in changed : Row(l).path = Proxy}),
         ScopedRelayOutcomes |-> Cardinality(declared),
         UnscopedRelayOutcomes |-> Cardinality(relays) - Cardinality(declared),
         ChangedRelayOutcomes |-> Cardinality(moved),
         ChangedClientToRemoteBytes |-> Sum(moved, Up),
         ChangedRemoteToClientBytes |-> Sum(moved, Down)]

-----------------------------------------------------------------------------
(* connectionPairer.                                                       *)

\* Mutant: the lines without an identifier are paired with each other.
Scoped_All(lines) == lines
Scoped(lines) == {l \in lines : Row(l).conn # ""}
Ids(lines) == {Row(l).conn : l \in lines}
Terminals(lines) == {l \in Scoped(lines) : Row(l).type \in TerminalTypes}
Outcomes(lines)  == Scoped(Relays(lines))

Duplicated(lines) == Cardinality(Ids(lines)) # Cardinality(lines)
Of(lines, id) == Row(CHOOSE l \in lines : Row(l).conn = id)

Agree(terminal, outcome) ==
    terminal.path = outcome.path /\ terminal.base = outcome.base /\ terminal.target = outcome.target

Pairable(lines) ==
    LET terminals == Terminals(lines)
        outcomes == Outcomes(lines)
    IN  /\ ~Duplicated(terminals) /\ ~Duplicated(outcomes)
        /\ \A id \in Ids(terminals) \cap Ids(outcomes) :
               Committed(Of(terminals, id)) /\ Agree(Of(terminals, id), Of(outcomes, id))

ConnectionScopeReport(lines) ==
    LET scoped == Terminals(lines)
        unscoped == {l \in lines : Row(l).conn = ""}
        terminals == Ids(scoped)
        committed == Ids(Selections(scoped))
        outcomes == Ids(Outcomes(lines))
        ofType(some, type) == Cardinality({l \in some : Row(l).type = type})
    IN  [ScopedCommittedDecisions   |-> Cardinality(committed),
         UnscopedCommittedDecisions |-> Cardinality(Selections(unscoped)),
         ScopedDecisions   |-> ofType(scoped, "decision"),
         ScopedDiagnostics |-> ofType(scoped, "diagnostic"),
         UnscopedDecisions   |-> ofType(unscoped, "decision"),
         UnscopedDiagnostics |-> ofType(unscoped, "diagnostic"),
         UnscopedRelayOutcomes |-> Cardinality(Relays(unscoped)),
         ScopedRelayOutcomes |-> Cardinality(outcomes),
         PairedRelayOutcomes |-> Cardinality(outcomes \cap terminals),
         UnmatchedRelayOutcomes |-> Cardinality(outcomes \ terminals),
         CommittedDecisionsWithoutOutcome |-> Cardinality(committed \ outcomes)]

-----------------------------------------------------------------------------
(* BuildReport.                                                            *)

\* Every line is validated; the lines older than since are then left out.
Readable(dir) ==
    \A s \in 1 .. Len(Sources) : \A i \in 1 .. Len(dir[Sources[s]]) :
        Reportable(dir[Sources[s]][i], Sources[s])

Included(dir, since) ==
    LET places == UNION {{s} \X DOMAIN dir[s] : s \in DOMAIN dir}
    IN  {<<p, dir[p[1]][p[2]]>> : p \in {q \in places : dir[q[1]][q[2]].at >= since}}

SessionsIn(lines) == {Row(l).session : l \in lines} \ {""}
Profiles(lines) == {Row(l).target[1] : l \in {k \in lines : Present(Row(k).target)}}

ReportOk(dir, since) ==
    LET lines == Included(dir, since)
    IN  Readable(dir) /\ Pairable(lines) /\ ~Overflows(lines)

BuildReport(dir, since, expected, paused) ==
    LET lines == Included(dir, since)
        ofType(type) == Cardinality({l \in lines : Row(l).type = type})
    IN  [RecordingPaused |-> paused, EventsIncluded |-> Cardinality(lines),
         TargetScopesObserved |-> Cardinality(Profiles(lines)),
         TrialSessionsObserved |-> Cardinality(SessionsIn(lines)),
         UnscopedEvents |-> Cardinality({l \in lines : Row(l).session = ""}),
         ExpectedTrialSessionMatched |-> expected \in SessionsIn(lines),
         UnexpectedTrialSessionEvents |-> Cardinality({l \in lines : Row(l).session \notin {"", expected}}),
         HealthTransitions |-> ofType("learning_health"),
         DurableAssessments |-> ofType("durable_learning_assessment"),
         ConnectionScope |-> ConnectionScopeReport(lines),
         DeclaredBaseline |-> DeclaredBaselineReport(lines),
         Adaptive |-> AdaptiveReport(lines), Relay |-> RelayReport(lines), Guard |-> GuardReport(lines)]
=============================================================================
