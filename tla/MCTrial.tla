------------------------------ MODULE MCTrial ------------------------------
(***************************************************************************)
(* A controlled trial from its plan to its assessment, bounded in four     *)
(* ways in one run; the first state says which.  "engine": the connections *)
(* of the engine alone, on a new directory.  "mixed": one connection among *)
(* the events of a guard, a supervisor and the learner, on a directory an  *)
(* older version may have used.  "checks": everything preflight may find,  *)
(* at three times.  "edits": one field of the saved report is edited, the  *)
(* configuration changes, preflight runs again.                            *)
(***************************************************************************)
EXTENDS Trial, PreflightInputs, TLC
CONSTANTS c1, c2, host,
          Config, Configs,    \* the configuration, and those it may change to
          Inputs, FewInputs,  \* what preflight may find, and may find in "edits"
          MaxAge, Tolerance

ASSUME PlanningAssumption ==
    /\ Inputs \cup FewInputs \subseteq Findings
    /\ MaxAge \in Nat /\ Tolerance \in Nat

VARIABLES part, in, config, saved, ran, edits

\* What an older version may have left: nothing, or an early relay outcome
\* without identifier, declaration or directional ends.
MCLegacy ==
    {<<>>,
     <<[Empty EXCEPT !.schema = 2, !.type = "relay_outcome", !.target = <<host>>, !.path = Direct,
                     !.up = <<0>>, !.down = <<1>>, !.took = <<0>>, !.term = "ended"]>>}

MCDecisions == {<<Direct, <<>>, 0>>,
                <<Proxy, <<Observation(Direct, FALSE, StageOutbound, "tls_failed")>>, 1>>}
\* A canceled relay leaves its copiers with whatever error each met first.
MCEndings == {<<1, 0, 1, TRUE, <<"eof", "closed">>>>, <<0, 1, 0, FALSE, <<"eof", "reset">>>>}
MCEvents == {<<"stray", GuardEvent(host, "adaptive")>>, <<"planned", GuardEvent(host, "")>>,
             <<"planned", SupervisorEvent>>, <<"planned", AssessmentEvent(host)>>,
             <<"planned", HealthEvent(<<>>)>>}

MCHalf == <<1, 2>>
MCTwo == {c1, c2}
Symmetry == Permutations(Conns)

Registered == INSTANCE Preflight WITH
    Configs <- {Config}, MaxEdits <- 0, MaxTime <- MaxTime + 1
Edited == INSTANCE Preflight WITH
    Inputs <- FewInputs, MaxEdits <- 1

recording == <<engine, conns, dir, paused, others, lost, refused>>
planning  == <<in, config, saved, ran, edits>>

NothingPlanned == in = Good /\ config = Config /\ saved = <<>> /\ ran = {} /\ edits = 0

\* Nothing is recorded while the plan is made.
Blank == Init /\ dir["engine"] = <<>> /\ ~paused
Recording == part \in {"engine", "mixed"}
\* A bound of "engine": no direct relay is canceled there, as it may be in "mixed".
FewCanceled == \A c \in Conns : conns[c].canceled => conns[c].path = Proxy

MCInit ==
    \/ part = "engine" /\ Init /\ dir["engine"] = <<>> /\ NothingPlanned
    \/ part = "mixed" /\ Init /\ NothingPlanned
    \/ part = "checks" /\ Registered!Init /\ Blank
    \/ part = "edits" /\ Edited!Init /\ Blank
MCNext ==
    \/ part = "engine" /\ Next /\ others' = others /\ FewCanceled' /\ UNCHANGED <<part, planning>>
    \/ part = "mixed" /\ Next /\ Cardinality({c \in Conns : conns'[c].st # "idle"}) <= 1
                      /\ UNCHANGED <<part, planning>>
    \/ part = "checks" /\ Registered!Next /\ UNCHANGED <<part, recording>>
    \/ part = "edits" /\ Edited!Next /\ UNCHANGED <<part, recording>>
MCSpec == MCInit /\ [][MCNext]_<<part, now, recording, planning>>

-----------------------------------------------------------------------------
(* The properties of Trial and Preflight, of the part that runs.           *)

\* What the connections emit the recorder keeps, and what it keeps the report
\* reads: two sets of rules that were written twice agree.
EventsReadable == Recording => TypeOK /\ NothingRefused /\ RowsAreReadable

\* The report of whole rows fails for no other reason than a sum too large, its
\* counters agree, what they say is what happened, and its percentiles are
\* nearest ranks.
ReportIsTrue ==
    Recording => ReportFailsOnlyByOverflow /\ ReportsAreTrue /\ RankIsNearest

\* A window that is ready for analysis was earned.
ReadinessIsEarned == Recording => ReadyIsEarned

\* Preflight calls ready what has every prerequisite, LoadAssessmentPlan accepts
\* exactly that, and with one field of the file edited, the digest left as it is,
\* what it accepts was still fixed before the trial.
PreflightIsSound ==
    /\ part = "checks" => Registered!ReadyIsJustified /\ Registered!ReadyIsAccepted
    /\ part = "edits" => Edited!ReadyIsAccepted /\ Edited!PlanIsPreregistered
=============================================================================
