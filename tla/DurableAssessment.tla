------------------------- MODULE DurableAssessment -------------------------
(***************************************************************************)
(* Stored evidence as store.Summarize and ListTargetSummaries count it,    *)
(* and the verdict and report of learning.DurableEvaluator on the counts.  *)
(* A row is [id, target, session, direction, at].                          *)
(***************************************************************************)
EXTENDS Routing, Integers, FiniteSetsExt

CONSTANTS WinsNeeded,      \* of each direction, for a suggestion
          SessionsNeeded   \* distinct sessions, of each direction

\* NewDurableEvaluator
ASSUME ThresholdAssumption ==
    /\ WinsNeeded \in [Paths -> Nat] /\ SessionsNeeded \in [Paths -> Nat]
    /\ \A path \in Paths : WinsNeeded[path] >= 2 /\ SessionsNeeded[path] >= 2

\* Mutant: COUNT(session_id) for COUNT(DISTINCT session_id).
Summarize_CountsAll(rows, target, cutoff) ==
    LET of(path) == {r \in rows : r.target = target /\ r.direction = path /\ r.at >= cutoff}
    IN  [wins     |-> [path \in Paths |-> Cardinality(of(path))],
         sessions |-> [path \in Paths |-> Cardinality(of(path))]]

Summarize(rows, target, cutoff) ==
    LET of(path) == {r \in rows : r.target = target /\ r.direction = path /\ r.at >= cutoff}
    IN  [wins     |-> [path \in Paths |-> Cardinality(of(path))],
         sessions |-> [path \in Paths |-> Cardinality({r.session : r \in of(path)})]]

Supported(summary, path) ==
    /\ summary.wins[path] >= WinsNeeded[path]
    /\ summary.sessions[path] >= SessionsNeeded[path]

\* The state of the assessment; a suggestion is the path it suggests.
Evaluate(summary) ==
    LET winners == {path \in Paths : summary.wins[path] > 0} IN
    CASE winners = {}    -> "no_evidence"
      [] winners = Paths -> "conflicting"
      [] winners = {Direct} -> IF Supported(summary, Direct) THEN Direct ELSE "insufficient"
      [] winners = {Proxy}  -> IF Supported(summary, Proxy) THEN Proxy ELSE "insufficient"

ListTargetSummaries(rows, cutoff) ==
    [t \in {r.target : r \in {s \in rows : s.at >= cutoff}} |-> Summarize(rows, t, cutoff)]

\* Report adds up the summaries it is given, one target after the other.
Verdicts == {"insufficient", "conflicting"} \cup Paths
NoReport == [targets |-> 0, rows |-> 0, evidence |-> [path \in Paths |-> 0],
             verdicts |-> [v \in Verdicts |-> 0]]

Counted(summary, report) ==
    [targets  |-> report.targets + 1,
     rows     |-> report.rows + summary.wins[Direct] + summary.wins[Proxy],
     evidence |-> [path \in Paths |-> report.evidence[path] + summary.wins[path]],
     verdicts |-> [report.verdicts EXCEPT ![Evaluate(summary)] = @ + 1]]

Report(summaries) ==
    FoldSet(LAMBDA t, report : Counted(summaries[t], report), NoReport, DOMAIN summaries)
=============================================================================
