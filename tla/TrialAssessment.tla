-------------------------- MODULE TrialAssessment --------------------------
(***************************************************************************)
(* trial.AssessObservations: the data-quality gate over a report.  Ratios  *)
(* are kept as fractions and compared by cross-multiplication.             *)
(***************************************************************************)
EXTENDS ObservationReport

CONSTANTS MinCommittedSelections, \* thresholds fixed by the plan;
          MinScope,               \* a ratio is <<numerator, denominator>>
          MinPairCompleteness,
          MaxCancellation

\* ratio(n, d) against a threshold, and a ratio of nothing is no ratio.
AtLeast(n, d, min) == d > 0 /\ n * min[2] >= min[1] * d
AtMost(n, d, max)  == d > 0 /\ n * max[2] <= max[1] * d

SelectionsOf(report) == report.ConnectionScope.ScopedCommittedDecisions
                        + report.ConnectionScope.UnscopedCommittedDecisions

\* report.internal_consistency.  The counters are never negative.
Consistent(report) ==
    LET c == report.ConnectionScope
        b == report.DeclaredBaseline
        r == report.Relay
    IN  /\ SelectionsOf(report) = b.ScopedSelections + b.UnscopedSelections
        /\ b.ScopedSelections = b.SameAsDeclared + b.ChangedFromDeclared
        /\ b.ChangedFromDeclared = b.DirectInsteadOfProxy + b.ProxyInsteadOfDirect
        /\ b.ScopedRelayOutcomes + b.UnscopedRelayOutcomes = r.Outcomes
        /\ b.ChangedRelayOutcomes <= b.ScopedRelayOutcomes
        /\ r.Canceled <= r.Outcomes
        /\ c.ScopedCommittedDecisions
             = c.PairedRelayOutcomes + c.CommittedDecisionsWithoutOutcome
        /\ c.ScopedRelayOutcomes = c.PairedRelayOutcomes + c.UnmatchedRelayOutcomes

\* Mutant: the planned session is there, whatever else is.
SessionScope_Matched(report) == report.UnscopedEvents = 0 /\ report.ExpectedTrialSessionMatched
SessionScope(report) ==
    /\ report.TrialSessionsObserved = 1 /\ report.UnscopedEvents = 0
    /\ report.ExpectedTrialSessionMatched /\ report.UnexpectedTrialSessionEvents = 0

Checks(report) ==
    LET c == report.ConnectionScope
        b == report.DeclaredBaseline
    IN  [recording_paused |-> report.RecordingPaused,
         session_scope |-> SessionScope(report),
         internal_consistency |-> Consistent(report),
         committed_selections |-> SelectionsOf(report) >= MinCommittedSelections,
         scope_connection |-> AtLeast(c.ScopedCommittedDecisions, SelectionsOf(report), MinScope),
         scope_baseline |-> AtLeast(b.ScopedSelections,
                                    b.ScopedSelections + b.UnscopedSelections, MinScope),
         pair_completeness |-> AtLeast(c.PairedRelayOutcomes,
                                       c.PairedRelayOutcomes + c.UnmatchedRelayOutcomes
                                         + c.CommittedDecisionsWithoutOutcome, MinPairCompleteness),
         cancellation |-> AtMost(report.Relay.Canceled, report.Relay.Outcomes, MaxCancellation)]

ReadyForDescriptiveAnalysis(report) ==
    LET checks == Checks(report) IN \A id \in DOMAIN checks : checks[id]
=============================================================================
