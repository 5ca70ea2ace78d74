--------------------------- MODULE ObservationRow ---------------------------
(***************************************************************************)
(* One line of an observation file: what the processes emit, what the      *)
(* recorder lets through, and what the report accepts when it reads the    *)
(* line again.  A pointer field is a sequence of at most one value.        *)
(* Reasons and identifiers are classes: absent, well formed, or not.       *)
(***************************************************************************)
EXTENDS Naturals, Sequences

CONSTANTS Conns, Scopes, Sessions

Direct == "direct"
Proxy  == "proxy"
PathNames == {Direct, Proxy}
Sources == <<"engine", "guard", "supervisor">>
TerminalTypes == {"decision", "diagnostic"}
SchemaVersion == 5
StageOutbound == 2   \* Stage: dns 1, outbound 2, tcp 3, tls 4
StageTCP == 3
StageTLS == 4

EndReasons == {"eof", "timeout", "reset", "closed", "io_error", "canceled"}

\* An absent value of every field; the constructors below fill some in.
Empty == [schema |-> SchemaVersion, source |-> "engine", type |-> "", session |-> "", conn |-> "",
          base |-> "", path |-> "", lane |-> "", reason |-> "", target |-> <<>>, committed |-> <<>>,
          obs |-> <<>>, other |-> <<>>, latency |-> <<>>, up |-> <<>>, down |-> <<>>,
          took |-> <<>>, ends |-> <<"", "">>, term |-> "", at |-> 0]

Observation(path, ok, stage, class) ==
    [path |-> path, success |-> ok, stage |-> stage, class |-> class]

-----------------------------------------------------------------------------
(* What runServe, runGuard and runSupervise emit.  An identifier that could *)
(* not be generated is empty.                                              *)

DecisionEvent(conn, scope, base, path, other, took) ==
    [Empty EXCEPT !.type = "decision", !.conn = conn, !.target = <<scope>>, !.base = base,
                  !.path = path, !.reason = "known", !.committed = <<TRUE>>,
                  !.obs = <<Observation(path, TRUE, StageTLS, "")>>, !.other = other,
                  !.latency = <<took>>]

\* Its latency is known, and is not handed on.
DiagnosticEvent(conn, scope, base) ==
    [Empty EXCEPT !.type = "diagnostic", !.conn = conn, !.target = <<scope>>, !.base = base,
                  !.reason = "known"]

\* Mutant: a relay that was cut keeps the ends its copiers saw.
RelayEnds_AsSeen(canceled, ends) == ends
\* Bidirectional: a canceled relay ends both ways as canceled.
RelayEnds(canceled, ends) == IF canceled THEN <<"canceled", "canceled">> ELSE ends

RelayEvent(conn, scope, base, path, up, down, took, canceled, ends) ==
    [Empty EXCEPT !.type = "relay_outcome", !.conn = conn, !.target = <<scope>>, !.base = base,
                  !.path = path, !.up = <<up>>, !.down = <<down>>, !.took = <<took>>,
                  !.ends = RelayEnds(canceled, ends),
                  !.term = IF canceled THEN "canceled" ELSE "ended"]

GuardEvent(scope, lane) ==
    [Empty EXCEPT !.source = "guard", !.type = "guard_decision", !.target = <<scope>>,
                  !.lane = lane, !.reason = "known", !.committed = <<lane # "">>]

SupervisorEvent == [Empty EXCEPT !.source = "supervisor", !.type = "supervisor"]

\* A network-wide transition has no target.
HealthEvent(target) == [Empty EXCEPT !.type = "learning_health", !.target = target, !.reason = "known"]

AssessmentEvent(scope) ==
    [Empty EXCEPT !.type = "durable_learning_assessment", !.target = <<scope>>, !.reason = "known"]

\* The opposite observation of a decision: none, strong, canceled or too early.
Others(path) ==
    LET o == IF path = Direct THEN Proxy ELSE Direct
    IN  {<<>>, <<Observation(o, FALSE, StageOutbound, "tls_failed")>>, <<Observation(o, FALSE, StageOutbound, "canceled")>>,
         <<Observation(o, TRUE, StageTLS, "")>>}

-----------------------------------------------------------------------------
(* Recorder.Record.                                                        *)

CanceledConsistently(e) ==
    /\ e.term = "canceled" => e.ends = <<"canceled", "canceled">>
    /\ e.term = "ended"    => \A i \in {1, 2} : e.ends[i] # "canceled"

Recordable(e) ==
    /\ e.conn \in Conns \cup {""}
    /\ e.base \in PathNames \cup {""}
    /\ e.base # "" => e.type \in TerminalTypes \cup {"relay_outcome"}
    /\ IF e.type = "relay_outcome"
       THEN /\ e.term \in {"ended", "canceled"}
            /\ \A i \in {1, 2} : e.ends[i] \in EndReasons
            /\ CanceledConsistently(e)
       ELSE e.ends = <<"", "">>

-----------------------------------------------------------------------------
(* scanReportFile and validateReportEvent, on a line of the file of source. *)

EventTypes == TerminalTypes \cup {"guard_decision", "supervisor", "learning_health",
                                  "durable_learning_assessment", "relay_outcome"}

Present(pointer) == pointer # <<>>

\* Observation.UnmarshalJSON refuses what Validate refuses.
ValidObservation(o) ==
    /\ o.path \in PathNames
    /\ IF o.success THEN o.stage >= StageOutbound ELSE o.class # ""

WellFormed(row, source) ==
    /\ \A i \in 1 .. Len(row.obs) : ValidObservation(row.obs[i])
    /\ \A i \in 1 .. Len(row.other) : ValidObservation(row.other[i])
    /\ row.schema \in 1 .. SchemaVersion
    /\ row.source = source /\ row.type \in EventTypes
    /\ row.reason \in {"", "known"}
    /\ row.session \in Sessions \cup {""}
    /\ row.conn # "" => row.schema >= 3 /\ row.conn \in Conns
    /\ row.base # "" => /\ row.schema >= 4 /\ row.base \in PathNames
                        /\ row.type \in TerminalTypes \cup {"relay_outcome"}
    /\ \A i \in 1 .. Len(row.target) : row.target[i] \in Scopes
    /\ row.type # "relay_outcome" =>
           /\ row.up = <<>> /\ row.down = <<>> /\ row.took = <<>>
           /\ row.term = "" /\ row.ends = <<"", "">>

Complete(row) ==
    LET targeted == Present(row.target) /\ row.reason # ""
    IN  CASE row.type = "decision" ->
                 /\ targeted /\ Present(row.committed) /\ Present(row.obs)
                 /\ row.path \in PathNames /\ row.obs[1].path = row.path
                 /\ row.committed[1] => row.obs[1].success /\ row.obs[1].stage >= StageTCP
          [] row.type \in {"diagnostic", "durable_learning_assessment"} -> targeted
          [] row.type = "guard_decision" -> targeted /\ Present(row.committed)
          [] row.type = "learning_health" -> row.reason # ""
          [] row.type = "supervisor" -> row.target = <<>>
          [] row.type = "relay_outcome" ->
                 /\ row.schema >= 2 /\ Present(row.target)
                 /\ Present(row.up) /\ Present(row.down) /\ Present(row.took)
                 /\ row.up[1] \in Nat /\ row.down[1] \in Nat /\ row.took[1] \in Nat
                 /\ row.path \in PathNames /\ row.term \in {"ended", "canceled"}
                 /\ IF row.schema < SchemaVersion THEN row.ends = <<"", "">>
                    ELSE /\ \A i \in {1, 2} : row.ends[i] \in EndReasons
                         /\ CanceledConsistently(row)

Reportable(row, source) == WellFormed(row, source) /\ Complete(row)
=============================================================================
