----------------------------- MODULE Preflight -----------------------------
(***************************************************************************)
(* The pre-registration of a trial: smartroute trial preflight checks the  *)
(* prerequisites and fixes a plan, its report is kept in a file, and       *)
(* trial assess later accepts that file or refuses it.  In between the     *)
(* configuration may change and the file may be edited.                    *)
(*                                                                         *)
(* A digest is injective: it is modelled by what it is the digest of.  A   *)
(* window counts half seconds.                                             *)
(***************************************************************************)
EXTENDS Integers, Sequences, FiniteSets

CONSTANTS Configs,    \* configurations that differ in nothing the checks read
          Inputs,     \* what preflight finds: configuration, flags, files
          MaxAge,     \* the oldest lab report, in the units of time
          Tolerance,  \* the future a lab report may come from (five minutes)
          MaxEdits,   \* bound: edits of the saved report
          MaxTime     \* bound: the clock

Statuses == {"pass", "warn", "fail"}
PreflightReportVersion == 1
AssessmentPlanVersion == 1

-----------------------------------------------------------------------------
(* The plan.                                                               *)

ThresholdsValid(t) == t[1] >= 1 /\ t[2] >= 0 /\ t[2] <= t[3]  \* <<selections, numerator, denominator>>

\* NewAssessmentPlan
PlanOk(in) == in.sessionValid /\ in.window > 0 /\ in.window % 2 = 0 /\ ThresholdsValid(in.thresholds)

Payload(plan) == [version |-> plan.version, session |-> plan.session, config |-> plan.config,
                  notBefore |-> plan.notBefore, seconds |-> plan.seconds, thresholds |-> plan.thresholds]

NewAssessmentPlan(in, config, now) ==
    LET payload == [version |-> AssessmentPlanVersion, session |-> "planned", config |-> config,
                    notBefore |-> now, seconds |-> in.window \div 2, thresholds |-> in.thresholds]
    IN  [version |-> payload.version, session |-> payload.session, config |-> payload.config,
         notBefore |-> payload.notBefore, seconds |-> payload.seconds,
         thresholds |-> payload.thresholds, digest |-> payload]

\* AssessmentPlan.Validate
PlanValid(plan) ==
    /\ plan.version = AssessmentPlanVersion /\ plan.notBefore > 0 /\ plan.seconds > 0
    /\ ThresholdsValid(plan.thresholds) /\ plan.digest = Payload(plan)

-----------------------------------------------------------------------------
(* The checks, as sequences of <<identifier, status>>.                     *)

Check(id, status) == <<<<id, status>>>>
PassIf(id, ok) == Check(id, IF ok THEN "pass" ELSE "fail")

checkPrivacy(in) ==
    PassIf("privacy.direct_probes",
           in.privacy = "privacy-first" \/ (in.privacy = "explicit-opt-in" /\ in.ackDirect))

checkObservation(in) ==
    PassIf("observation.enabled", in.recording)
    \o Check("privacy.cleartext_hostname",
             IF ~in.cleartext THEN "pass" ELSE IF in.ackCleartext THEN "warn" ELSE "fail")
    \o IF in.control = "unreadable" THEN Check("observation.paused", "fail")
       ELSE PassIf("observation.paused", in.control = "paused")
            \o Check("observation.existing_files", IF in.files = 0 THEN "pass" ELSE "warn")

LearningMode(in) ==
    Check("learning.mode",
          CASE in.mode \in {"auto", "shadow"} -> "pass"
            [] in.mode = "ephemeral-auto" -> IF in.ackEphemeral THEN "warn" ELSE "fail"
            [] in.mode = "durable-auto" -> "warn"
            [] OTHER -> "fail")

Both(status) == Check("learning.persistence", status) \o Check("learning.backup", status)

\* The backup can be verified and its status equals the store's.
BackupMatches(in) == in.backup = "matching"

LearningStore(in) ==
    CASE ~in.persistence ->
             Check("learning.persistence", "warn")
             \o Check("learning.backup", IF in.backup = "none" THEN "pass" ELSE "warn")
      [] in.persistence /\ "irregular" \in {in.database, in.key} -> Both("fail")
      [] in.persistence /\ in.database = "absent" /\ in.key = "absent" -> Both("pass")
      [] in.persistence /\ {in.database, in.key} = {"absent", "regular"} -> Both("fail")
      [] in.persistence /\ in.database = "regular" /\ in.key = "regular" ->
             IF ~in.opens THEN Both("fail")
             ELSE Check("learning.persistence", "pass") \o PassIf("learning.backup", BackupMatches(in))

fresh(generatedAt, now) ==
    generatedAt # 0 /\ generatedAt <= now + Tolerance /\ now - generatedAt <= MaxAge

\* A lab report that decodes and proves its gates, and how old it is.
LabOk(lab, now) == lab.proves /\ fresh(lab.at, now)

Checks(in, now) ==
    PassIf("assessment.plan", PlanOk(in))
    \o PassIf("config.valid", in.configValid)
    \o checkPrivacy(in)
    \o PassIf("baseline.original_path", in.ackOriginal)
    \o checkObservation(in)
    \o LearningMode(in) \o LearningStore(in)
    \o PassIf("lab.testlab", LabOk(in.testlab, now))
    \o PassIf("lab.mihomo", LabOk(in.mihomo, now))
    \o Check("safety.active_clash", "pass")

CountsOf(checks) ==
    [status \in Statuses |-> Cardinality({i \in DOMAIN checks : checks[i][2] = status})]

PreflightReport(in, config, now) ==
    LET checks == Checks(in, now)
    IN  [version |-> PreflightReportVersion, at |-> now, checks |-> checks,
         counts |-> CountsOf(checks), ready |-> CountsOf(checks)["fail"] = 0, claims |-> FALSE,
         plan |-> IF PlanOk(in) THEN <<NewAssessmentPlan(in, config, now)>> ELSE <<>>]

-----------------------------------------------------------------------------
(* LoadAssessmentPlan.                                                     *)

Required == {"assessment.plan", "config.valid", "privacy.direct_probes", "baseline.original_path",
             "observation.enabled", "privacy.cleartext_hostname", "observation.paused",
             "observation.existing_files", "learning.mode", "learning.persistence",
             "learning.backup", "lab.testlab", "lab.mihomo", "safety.active_clash"}
\* Mutant: the warning of a disabled store is not among those accepted.
AllowedWarnings_NoStore == {"privacy.cleartext_hostname", "observation.existing_files", "learning.mode"}
AllowedWarnings == {"privacy.cleartext_hostname", "observation.existing_files", "learning.mode",
                    "learning.persistence", "learning.backup"}

validateReadyPreflightReport(report) ==
    /\ {report.checks[i][1] : i \in DOMAIN report.checks} = Required
    /\ Len(report.checks) = Cardinality(Required)      \* and none of them twice
    /\ \A i \in DOMAIN report.checks : report.checks[i][2] = "warn" => report.checks[i][1] \in AllowedWarnings
    /\ report.counts = CountsOf(report.checks) /\ report.counts["fail"] = 0 /\ report.ready

Accepts(report, config) ==
    /\ report.version = PreflightReportVersion /\ report.plan # <<>>
    /\ validateReadyPreflightReport(report)
    /\ report.at = report.plan[1].notBefore /\ ~report.claims
    /\ PlanValid(report.plan[1])
    /\ report.plan[1].config = config

-----------------------------------------------------------------------------
VARIABLES now, in, config,
          saved,   \* the report file: <<>> or <<report>>
          ran,     \* the runs of preflight so far: <<what was found, configuration, time>>
          edits    \* how often the file was edited since preflight wrote it
vars == <<now, in, config, saved, ran, edits>>

Init == /\ now = 1 /\ in \in Inputs /\ config \in Configs
        /\ saved = <<>> /\ ran = {} /\ edits = 0

Tick == now < MaxTime /\ now' = now + 1 /\ UNCHANGED <<in, config, saved, ran, edits>>

RunPreflight ==
    /\ saved' = <<PreflightReport(in, config, now)>> /\ edits' = 0
    /\ ran' = ran \cup {<<in, config, now>>}
    /\ UNCHANGED <<now, in, config>>

ConfigChanges == config' \in Configs \ {config} /\ UNCHANGED <<now, in, saved, ran, edits>>

\* One field of the file is changed by hand: a check, a count, the verdict, a
\* time or a value of the plan, whose digest is left as it is.
Edits(r) ==
    {[r EXCEPT !.ready = ~@], [r EXCEPT !.at = @ + 1], [r EXCEPT !.version = @ + 1]}
    \cup {[r EXCEPT !.checks[i] = <<@[1], status>>] : i \in DOMAIN r.checks, status \in Statuses}
    \cup {[r EXCEPT !.checks = SubSeq(@, 1, i - 1) \o SubSeq(@, i + 1, Len(@))] : i \in DOMAIN r.checks}
    \cup {[r EXCEPT !.counts[status] = n] : status \in Statuses, n \in 0 .. 1}
    \cup IF r.plan = <<>> THEN {}
         ELSE {[r EXCEPT !.plan[1].session = "chosen"], [r EXCEPT !.plan[1].notBefore = @ + 1],
               [r EXCEPT !.plan[1].seconds = @ + 1], [r EXCEPT !.plan[1].thresholds[1] = @ + 1]}
              \cup {[r EXCEPT !.plan[1].config = c] : c \in Configs}

Edit ==
    /\ saved # <<>> /\ edits < MaxEdits
    /\ \E r \in Edits(saved[1]) \ {saved[1]} : saved' = <<r>>
    /\ edits' = edits + 1
    /\ UNCHANGED <<now, in, config, ran>>

Next == Tick \/ RunPreflight \/ ConfigChanges \/ Edit
Spec == Init /\ [][Next]_vars

-----------------------------------------------------------------------------
\* A trial may start only with everything it needs: what Ready says, said of the
\* inputs at once.
Justified(i, t) ==
    /\ i.configValid /\ i.sessionValid /\ i.window \in {2 * n : n \in 1 .. i.window}
    /\ ThresholdsValid(i.thresholds) /\ i.ackOriginal
    /\ i.privacy = "privacy-first" \/ (i.privacy = "explicit-opt-in" /\ i.ackDirect)
    /\ i.recording /\ i.control = "paused" /\ (i.cleartext => i.ackCleartext)
    /\ i.mode \in {"auto", "shadow", "ephemeral-auto", "durable-auto"}
    /\ i.mode = "ephemeral-auto" => i.ackEphemeral
    /\ i.persistence /\ {i.database, i.key} # {"absent"} =>
           i.database = "regular" /\ i.key = "regular" /\ i.opens /\ i.backup = "matching"
    /\ \A lab \in {i.testlab, i.mihomo} :
           lab.proves /\ lab.at > 0 /\ lab.at \in t - MaxAge .. t + Tolerance

\* Preflight says ready exactly when every prerequisite holds.
ReadyIsJustified ==
    edits = 0 => \A i \in DOMAIN saved : saved[i].ready <=> Justified(in, saved[i].at)

\* What preflight called ready is accepted as long as the configuration is the
\* same, and what it did not call ready never is: producer and consumer of the
\* file agree on every path through the checks.
ReadyIsAccepted ==
    edits = 0 => \A i \in DOMAIN saved : Accepts(saved[i], config)
                                            <=> saved[i].ready /\ saved[i].plan[1].config = config

\* The plan is fixed before the trial: after up to MaxEdits changes of one field
\* each, an accepted plan is one that preflight made and called ready, earlier,
\* for this very configuration, with this session, window and thresholds.  It
\* detects a slip, not a forger: the digest has no key, and who writes it anew
\* with the plan makes a plan that is accepted.
PlanIsPreregistered ==
    \A i \in DOMAIN saved : Accepts(saved[i], config) =>
        \E r \in ran : /\ Justified(r[1], r[3]) /\ r[2] = config /\ r[3] <= now
                       /\ saved[i].plan[1] = NewAssessmentPlan(r[1], r[2], r[3])
=============================================================================
