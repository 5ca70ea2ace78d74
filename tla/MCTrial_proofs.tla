--------------------------- MODULE MCTrial_proofs ---------------------------
(***************************************************************************)
(* Proofs about a trial: what preflight calls ready and assess accepts,    *)
(* that every event the program emits is kept and can be read again, that  *)
(* a report never says more than what happened, and that a trial assessed  *)
(* as ready has earned it.                                                 *)
(***************************************************************************)
EXTENDS MCTrial, FiniteSetTheorems, WellFoundedInduction, TLAPS

Held(s) == {s[k] : k \in DOMAIN s}

-----------------------------------------------------------------------------
(* The checks, as the set of what they say.                                *)

LEMMA Joined ==
    ASSUME NEW S, NEW U, NEW s \in Seq(S), NEW u \in Seq(U)
    PROVE  /\ s \o u \in Seq(S \cup U)
           /\ Len(s \o u) = Len(s) + Len(u)
           /\ Held(s \o u) = Held(s) \cup Held(u)
<1> DEFINE w == s \o u
<1>0. s \in Seq(S \cup U) /\ u \in Seq(S \cup U)
  OBVIOUS
<1>1. w \in Seq(S \cup U) /\ Len(w) = Len(s) + Len(u) /\ Len(s) \in Nat /\ Len(u) \in Nat
  BY <1>0
<1>2. DOMAIN s = 1 .. Len(s) /\ DOMAIN u = 1 .. Len(u) /\ DOMAIN w = 1 .. Len(w)
  BY <1>1
<1>3. \A k \in 1 .. Len(s) : w[k] = s[k]
  OBVIOUS
<1>4. \A k \in 1 .. Len(u) : w[Len(s) + k] = u[k]
  OBVIOUS
<1>5. ASSUME NEW k \in 1 .. Len(w) PROVE w[k] \in Held(s) \cup Held(u)
  <2>1. CASE k <= Len(s)
    BY <2>1, <1>1, <1>2, <1>3 DEF Held
  <2>2. CASE k > Len(s)
    <3>1. k - Len(s) \in 1 .. Len(u) /\ Len(s) + (k - Len(s)) = k
      BY <2>2, <1>1
    <3>2. w[k] = u[k - Len(s)]
      BY <3>1, <1>4
    <3> QED BY <3>1, <3>2, <1>2 DEF Held
  <2> QED BY <2>1, <2>2, <1>1
<1>6. \A k \in 1 .. Len(s) : k \in 1 .. Len(w)
  BY <1>1
<1>7. \A k \in 1 .. Len(u) : Len(s) + k \in 1 .. Len(w)
  BY <1>1
<1> HIDE DEF w
<1>8. Held(w) \subseteq Held(s) \cup Held(u)
  <2> SUFFICES ASSUME NEW k \in DOMAIN w PROVE w[k] \in Held(s) \cup Held(u)
    BY DEF Held
  <2> QED BY <1>2, <1>5
<1>9. Held(s) \subseteq Held(w)
  BY <1>2, <1>3, <1>6 DEF Held
<1>10. Held(u) \subseteq Held(w)
  BY <1>2, <1>4, <1>7 DEF Held
<1>11. Held(w) = Held(s) \cup Held(u)
  BY <1>8, <1>9, <1>10
<1> QED BY <1>1, <1>11 DEF w

\* What a sequence of checks comes to.
Tells(s, n, said) == s \in Seq(said) /\ Len(s) = n /\ Held(s) = said

LEMMA Together ==
    ASSUME NEW s, NEW u, NEW n, NEW m, NEW said, NEW also,
           Tells(s, n, said), Tells(u, m, also)
    PROVE  Tells(s \o u, n + m, said \cup also)
<1>1. s \in Seq(said) /\ u \in Seq(also)
  BY DEF Tells
<1>2. /\ s \o u \in Seq(said \cup also)
      /\ Len(s \o u) = Len(s) + Len(u)
      /\ Held(s \o u) = Held(s) \cup Held(u)
  BY ONLY <1>1, Joined
<1> QED BY <1>2 DEF Tells

LEMMA OneCheck ==
    ASSUME NEW id, NEW status
    PROVE  Tells(Edited!Check(id, status), 1, {<<id, status>>})
<1> DEFINE p == <<id, status>>
           s == <<p>>
<1>2. s \in Seq({p}) /\ Len(s) = 1 /\ DOMAIN s = {1} /\ s[1] = p
  OBVIOUS
<1> HIDE DEF s, p
<1>3. Held(s) = {p}
  BY <1>2 DEF Held
<1> QED BY <1>2, <1>3 DEF Edited!Check, Tells, s, p

Verdict(ok) == IF ok THEN "pass" ELSE "fail"

LEMMA OnePassIf ==
    ASSUME NEW id, NEW ok \in BOOLEAN
    PROVE  Tells(Edited!PassIf(id, ok), 1, {<<id, Verdict(ok)>>})
BY OneCheck DEF Edited!PassIf, Verdict

CleartextStatus(i) == IF ~i.cleartext THEN "pass" ELSE IF i.ackCleartext THEN "warn" ELSE "fail"
ModeStatus(i) ==
    IF i.mode \in {"auto", "shadow"} THEN "pass"
    ELSE IF i.mode = "ephemeral-auto" THEN (IF i.ackEphemeral THEN "warn" ELSE "fail")
    ELSE IF i.mode = "durable-auto" THEN "warn" ELSE "fail"
StoreSound(i) == i.database = "regular" /\ i.key = "regular" /\ i.opens
StoreAbsent(i) == i.database = "absent" /\ i.key = "absent"
StoreStatus(i) == IF ~i.persistence THEN "warn" ELSE Verdict(StoreAbsent(i) \/ StoreSound(i))
BackupStatus(i) ==
    IF ~i.persistence THEN (IF i.backup = "none" THEN "pass" ELSE "warn")
    ELSE Verdict(StoreAbsent(i) \/ (StoreSound(i) /\ i.backup = "matching"))
PrivacyOk(i) == i.privacy = "privacy-first" \/ (i.privacy = "explicit-opt-in" /\ i.ackDirect)

LEMMA PrivacyTells ==
    ASSUME NEW i \in Findings
    PROVE  Tells(Edited!checkPrivacy(i), 1, {<<"privacy.direct_probes", Verdict(PrivacyOk(i))>>})
BY OneCheck DEF Edited!checkPrivacy, Edited!PassIf, Verdict, PrivacyOk

LEMMA ModeTells ==
    ASSUME NEW i \in Findings
    PROVE  Tells(Edited!LearningMode(i), 1, {<<"learning.mode", ModeStatus(i)>>})
<1>2. Edited!LearningMode(i) = Edited!Check("learning.mode", ModeStatus(i))
  BY DEF Edited!LearningMode, ModeStatus
<1> QED BY <1>2, OneCheck

LEMMA TwoChecks ==
    ASSUME NEW id, NEW status, NEW jd, NEW other
    PROVE  Tells(Edited!Check(id, status) \o Edited!Check(jd, other), 2,
                 {<<id, status>>} \cup {<<jd, other>>})
<1>1. 1 + 1 = 2
  OBVIOUS
<1>2. Tells(Edited!Check(id, status), 1, {<<id, status>>})
  BY OneCheck
<1>3. Tells(Edited!Check(jd, other), 1, {<<jd, other>>})
  BY OneCheck
<1> QED BY ONLY <1>1, <1>2, <1>3, Together

LEMMA StoreTells ==
    ASSUME NEW i \in Findings
    PROVE  Tells(Edited!LearningStore(i), 2,
                 {<<"learning.persistence", StoreStatus(i)>>} \cup {<<"learning.backup", BackupStatus(i)>>})
<1> USE DEF Edited!LearningStore, StoreStatus, BackupStatus, StoreSound, StoreAbsent, Verdict,
            Edited!Both, Edited!PassIf, Edited!BackupMatches
<1>1. i.persistence \in BOOLEAN /\ i.opens \in BOOLEAN
      /\ i.database \in {"absent", "regular", "irregular"} /\ i.key \in {"absent", "regular", "irregular"}
  BY DEF Findings
<1>3. Edited!LearningStore(i) = Edited!Check("learning.persistence", StoreStatus(i))
                                \o Edited!Check("learning.backup", BackupStatus(i))
  <2>1. CASE ~i.persistence
    BY <2>1
  <2>2. CASE i.persistence /\ "irregular" \in {i.database, i.key}
    BY <2>2
  <2>3. CASE i.persistence /\ StoreAbsent(i)
    <3>1. "irregular" \notin {i.database, i.key} /\ {i.database, i.key} # {"absent", "regular"}
      BY <2>3
    <3> QED BY <2>3, <3>1
  <2>4. CASE i.persistence /\ {i.database, i.key} = {"absent", "regular"}
    <3>1. /\ i.database = "absent" => i.key = "regular"
          /\ i.database = "regular" => i.key = "absent"
          /\ i.database # "irregular" /\ i.key # "irregular"
      BY <2>4
    <3> QED BY <2>4, <3>1
  <2>5. CASE i.persistence /\ i.database = "regular" /\ i.key = "regular"
    <3>1. CASE i.opens
      BY <3>1, <2>5
    <3>2. CASE ~i.opens
      BY <3>2, <2>5
    <3> QED BY <3>1, <3>2
  <2> QED BY <1>1, <2>1, <2>2, <2>3, <2>4, <2>5
<1> HIDE DEF Edited!LearningStore, StoreStatus, BackupStatus
<1> QED BY <1>3, TwoChecks

Recorded(i) ==
    {<<"observation.enabled", Verdict(i.recording)>>}
    \cup {<<"privacy.cleartext_hostname", CleartextStatus(i)>>}
Control(i) ==
    IF i.control = "unreadable" THEN {<<"observation.paused", "fail">>}
    ELSE {<<"observation.paused", Verdict(i.control = "paused")>>}
         \cup {<<"observation.existing_files", IF i.files = 0 THEN "pass" ELSE "warn">>}
ControlLen(i) == IF i.control = "unreadable" THEN 1 ELSE 2

LEMMA ObservationTells ==
    ASSUME NEW i \in Findings
    PROVE  Tells(Edited!checkObservation(i), 2 + ControlLen(i), Recorded(i) \cup Control(i))
<1> DEFINE first == Edited!Check("observation.enabled", Verdict(i.recording))
                    \o Edited!Check("privacy.cleartext_hostname", CleartextStatus(i))
           last == IF i.control = "unreadable" THEN Edited!Check("observation.paused", "fail")
                   ELSE Edited!Check("observation.paused", Verdict(i.control = "paused"))
                        \o Edited!Check("observation.existing_files", IF i.files = 0 THEN "pass" ELSE "warn")
<1>1. Edited!checkObservation(i) = first \o last
  BY DEF Edited!checkObservation, Edited!PassIf, Verdict, CleartextStatus
<1>2. Tells(first, 2, Recorded(i))
  BY TwoChecks DEF Recorded
<1>3. Tells(last, ControlLen(i), Control(i))
  <2>1. CASE i.control = "unreadable"
    BY <2>1, OneCheck DEF ControlLen, Control
  <2>2. CASE i.control # "unreadable"
    BY <2>2, TwoChecks DEF ControlLen, Control
  <2> QED BY <2>1, <2>2
<1> HIDE DEF first, last
<1> QED BY <1>1, <1>2, <1>3, Together

Said(i, t) ==
    {<<"assessment.plan", Verdict(Edited!PlanOk(i))>>}
    \cup {<<"config.valid", Verdict(i.configValid)>>}
    \cup {<<"privacy.direct_probes", Verdict(PrivacyOk(i))>>}
    \cup {<<"baseline.original_path", Verdict(i.ackOriginal)>>}
    \cup (Recorded(i) \cup Control(i))
    \cup {<<"learning.mode", ModeStatus(i)>>}
    \cup ({<<"learning.persistence", StoreStatus(i)>>} \cup {<<"learning.backup", BackupStatus(i)>>})
    \cup {<<"lab.testlab", Verdict(Edited!LabOk(i.testlab, t))>>}
    \cup {<<"lab.mihomo", Verdict(Edited!LabOk(i.mihomo, t))>>}
    \cup {<<"safety.active_clash", "pass">>}

\* The checks of one run are 14, or 13 when the recorder cannot be read, and
\* say exactly this.
LEMMA ChecksTell ==
    ASSUME NEW i \in Findings, NEW t
    PROVE  Tells(Edited!Checks(i, t), 12 + ControlLen(i), Said(i, t))
<1> DEFINE n == ControlLen(i)
           k1 == Edited!PassIf("assessment.plan", Edited!PlanOk(i))
           k2 == Edited!PassIf("config.valid", i.configValid)
           k3 == Edited!checkPrivacy(i)
           k4 == Edited!PassIf("baseline.original_path", i.ackOriginal)
           k5 == Edited!checkObservation(i)
           k6 == Edited!LearningMode(i)
           k7 == Edited!LearningStore(i)
           k8 == Edited!PassIf("lab.testlab", Edited!LabOk(i.testlab, t))
           k9 == Edited!PassIf("lab.mihomo", Edited!LabOk(i.mihomo, t))
           k10 == Edited!Check("safety.active_clash", "pass")
           s1 == {<<"assessment.plan", Verdict(Edited!PlanOk(i))>>}
           s2 == {<<"config.valid", Verdict(i.configValid)>>}
           s3 == {<<"privacy.direct_probes", Verdict(PrivacyOk(i))>>}
           s4 == {<<"baseline.original_path", Verdict(i.ackOriginal)>>}
           s5 == Recorded(i) \cup Control(i)
           s6 == {<<"learning.mode", ModeStatus(i)>>}
           s7 == {<<"learning.persistence", StoreStatus(i)>>} \cup {<<"learning.backup", BackupStatus(i)>>}
           s8 == {<<"lab.testlab", Verdict(Edited!LabOk(i.testlab, t))>>}
           s9 == {<<"lab.mihomo", Verdict(Edited!LabOk(i.mihomo, t))>>}
           s10 == {<<"safety.active_clash", "pass">>}
<1>0. n \in Nat
  BY DEF ControlLen
<1>1. Tells(k1, 1, s1)
  BY OneCheck DEF Edited!PassIf, Verdict
<1>2. Tells(k2, 1, s2)
  BY OneCheck DEF Edited!PassIf, Verdict
<1>3. Tells(k3, 1, s3)
  BY PrivacyTells
<1>4. Tells(k4, 1, s4)
  BY OneCheck DEF Edited!PassIf, Verdict
<1>5. Tells(k5, 2 + n, s5)
  BY ObservationTells
<1>6. Tells(k6, 1, s6)
  BY ModeTells
<1>7. Tells(k7, 2, s7)
  BY StoreTells
<1>8. Tells(k8, 1, s8)
  BY OneCheck DEF Edited!PassIf, Verdict
<1>9. Tells(k9, 1, s9)
  BY OneCheck DEF Edited!PassIf, Verdict
<1>10. Tells(k10, 1, s10)
  BY OneCheck
<1>11. Edited!Checks(i, t) = k1 \o k2 \o k3 \o k4 \o k5 \o k6 \o k7 \o k8 \o k9 \o k10
  BY DEF Edited!Checks
<1>12. Said(i, t) = s1 \cup s2 \cup s3 \cup s4 \cup s5 \cup s6 \cup s7 \cup s8 \cup s9 \cup s10
  BY DEF Said
<1> HIDE DEF n, k1, k2, k3, k4, k5, k6, k7, k8, k9, k10, s1, s2, s3, s4, s5, s6, s7, s8, s9, s10
<1> DEFINE q2 == k1 \o k2
           q3 == q2 \o k3
           q4 == q3 \o k4
           q5 == q4 \o k5
           q6 == q5 \o k6
           q7 == q6 \o k7
           q8 == q7 \o k8
           q9 == q8 \o k9
           u2 == s1 \cup s2
           u3 == u2 \cup s3
           u4 == u3 \cup s4
           u5 == u4 \cup s5
           u6 == u5 \cup s6
           u7 == u6 \cup s7
           u8 == u7 \cup s8
           u9 == u8 \cup s9
<1>13. Edited!Checks(i, t) = q9 \o k10 /\ Said(i, t) = u9 \cup s10
  BY <1>11, <1>12
<1>22. Tells(q2, 1 + 1, u2)
  BY <1>1, <1>2, Together
<1>23. Tells(q3, 1 + 1 + 1, u3)
  <2> HIDE DEF q2, u2
  <2> QED BY <1>22, <1>3, Together
<1>24. Tells(q4, 1 + 1 + 1 + 1, u4)
  <2> HIDE DEF q3, u3
  <2> QED BY <1>23, <1>4, Together
<1>25. Tells(q5, (1 + 1 + 1 + 1) + (2 + n), u5)
  <2> HIDE DEF q4, u4
  <2> QED BY <1>24, <1>5, Together
<1>25a. (1 + 1 + 1 + 1) + (2 + n) = 6 + n
  BY <1>0
<1>26. Tells(q6, 6 + n + 1, u6)
  <2> HIDE DEF q5, u5
  <2> QED BY <1>25, <1>25a, <1>6, Together
<1>27. Tells(q7, (6 + n + 1) + 2, u7)
  <2> HIDE DEF q6, u6
  <2> QED BY <1>26, <1>7, Together
<1>28. Tells(q8, ((6 + n + 1) + 2) + 1, u8)
  <2> HIDE DEF q7, u7
  <2> QED BY <1>27, <1>8, Together
<1>29. Tells(q9, (((6 + n + 1) + 2) + 1) + 1, u9)
  <2> HIDE DEF q8, u8
  <2> QED BY <1>28, <1>9, Together
<1>30. Tells(q9 \o k10, ((((6 + n + 1) + 2) + 1) + 1) + 1, u9 \cup s10)
  <2> HIDE DEF q9, u9
  <2> QED BY <1>29, <1>10, Together
<1>31. ((((6 + n + 1) + 2) + 1) + 1) + 1 = 12 + n
  BY <1>0
<1> HIDE DEF q9, u9
<1> QED BY <1>13, <1>30, <1>31 DEF n

-----------------------------------------------------------------------------
(* Ready.                                                                  *)

LEMMA SameCardinality ==
    ASSUME NEW S
    PROVE  Edited!Cardinality(S) = Cardinality(S)
BY DEF Edited!Cardinality, Cardinality

LEMMA NoneFails ==
    ASSUME NEW s, NEW n \in Nat, NEW said, Tells(s, n, said)
    PROVE  Edited!CountsOf(s)["fail"] = 0 <=> \A x \in said : x[2] # "fail"
<1> DEFINE failing == {k \in DOMAIN s : s[k][2] = "fail"}
<1>1. DOMAIN s = 1 .. n /\ Held(s) = said
  BY DEF Tells
<1>2. IsFiniteSet(DOMAIN s)
  BY <1>1, FS_Interval
<1>3. IsFiniteSet(failing)
  BY <1>2, FS_Subset
<1>4. Edited!CountsOf(s)["fail"] = Cardinality(failing)
  BY SameCardinality DEF Edited!CountsOf, Edited!Statuses
<1>5. failing = {} <=> \A x \in said : x[2] # "fail"
  BY <1>1 DEF Held
<1> HIDE DEF failing
<1> QED BY <1>3, <1>4, <1>5, FS_EmptySet

Passed(i, t) ==
    /\ Edited!PlanOk(i) /\ i.configValid /\ PrivacyOk(i) /\ i.ackOriginal
    /\ i.recording /\ CleartextStatus(i) # "fail" /\ i.control = "paused"
    /\ ModeStatus(i) # "fail" /\ StoreStatus(i) # "fail" /\ BackupStatus(i) # "fail"
    /\ Edited!LabOk(i.testlab, t) /\ Edited!LabOk(i.mihomo, t)

LEMMA PassedSaysSo ==
    ASSUME NEW i \in Findings, NEW t
    PROVE  (\A x \in Said(i, t) : x[2] # "fail") <=> Passed(i, t)
<1>1. \A ok \in BOOLEAN : Verdict(ok) # "fail" <=> ok
  BY DEF Verdict
<1>2. ASSUME \A x \in Said(i, t) : x[2] # "fail" PROVE Passed(i, t)
  <2>1. \A id, status : <<id, status>> \in Said(i, t) => status # "fail"
    <3> SUFFICES ASSUME NEW id, NEW status, <<id, status>> \in Said(i, t) PROVE status # "fail"
      OBVIOUS
    <3>1. <<id, status>>[2] # "fail"
      BY <1>2
    <3> QED BY <3>1
  <2>2. /\ Verdict(Edited!PlanOk(i)) # "fail" /\ Verdict(i.configValid) # "fail"
        /\ Verdict(PrivacyOk(i)) # "fail" /\ Verdict(i.ackOriginal) # "fail"
    <3>1. /\ <<"assessment.plan", Verdict(Edited!PlanOk(i))>> \in Said(i, t)
          /\ <<"config.valid", Verdict(i.configValid)>> \in Said(i, t)
          /\ <<"privacy.direct_probes", Verdict(PrivacyOk(i))>> \in Said(i, t)
          /\ <<"baseline.original_path", Verdict(i.ackOriginal)>> \in Said(i, t)
      BY DEF Said
    <3> QED BY ONLY <2>1, <3>1
  <2>3. Verdict(i.recording) # "fail" /\ CleartextStatus(i) # "fail"
    <3>1. /\ <<"observation.enabled", Verdict(i.recording)>> \in Said(i, t)
          /\ <<"privacy.cleartext_hostname", CleartextStatus(i)>> \in Said(i, t)
      BY DEF Said, Recorded
    <3> QED BY ONLY <2>1, <3>1
  <2>4. i.control = "paused"
    <3>1. i.control = "unreadable" => <<"observation.paused", "fail">> \in Said(i, t)
      BY DEF Said, Control
    <3>2. i.control # "unreadable" => <<"observation.paused", Verdict(i.control = "paused")>> \in Said(i, t)
      BY DEF Said, Control
    <3>3. i.control # "paused" => Verdict(i.control = "paused") = "fail"
      BY DEF Verdict
    <3> QED BY <2>1, <3>1, <3>2, <3>3
  <2>5. /\ ModeStatus(i) # "fail" /\ StoreStatus(i) # "fail" /\ BackupStatus(i) # "fail"
        /\ Verdict(Edited!LabOk(i.testlab, t)) # "fail" /\ Verdict(Edited!LabOk(i.mihomo, t)) # "fail"
    <3>1. /\ <<"learning.mode", ModeStatus(i)>> \in Said(i, t)
          /\ <<"learning.persistence", StoreStatus(i)>> \in Said(i, t)
          /\ <<"learning.backup", BackupStatus(i)>> \in Said(i, t)
          /\ <<"lab.testlab", Verdict(Edited!LabOk(i.testlab, t))>> \in Said(i, t)
          /\ <<"lab.mihomo", Verdict(Edited!LabOk(i.mihomo, t))>> \in Said(i, t)
      BY DEF Said
    <3> QED BY ONLY <2>1, <3>1
  <2> QED BY <2>2, <2>3, <2>4, <2>5 DEF Passed, Verdict
<1>3. ASSUME Passed(i, t), NEW x \in Said(i, t) PROVE x[2] # "fail"
  <2>1. CASE x \in Recorded(i)
    BY <1>3, <2>1 DEF Passed, Recorded, Verdict
  <2>2. CASE x \in Control(i)
    BY <1>3, <2>2 DEF Passed, Control, Verdict
  <2>3. CASE x \notin Recorded(i) /\ x \notin Control(i)
    BY <1>3, <2>3 DEF Passed, Said, Verdict
  <2> QED BY <2>1, <2>2, <2>3
<1> QED BY <1>2, <1>3

LEMMA PassedIsJustified ==
    ASSUME NEW i \in Findings, NEW t \in Nat
    PROVE  Passed(i, t) <=> Edited!Justified(i, t)
<1>1. /\ i.window \in Int /\ i.persistence \in BOOLEAN
      /\ i.database \in {"absent", "regular", "irregular"} /\ i.key \in {"absent", "regular", "irregular"}
      /\ i.testlab.at \in Nat /\ i.mihomo.at \in Nat
  BY DEF Findings
<1>2. i.window > 0 /\ i.window % 2 = 0 <=> i.window \in {2 * n : n \in 1 .. i.window}
  <2>1. ASSUME i.window > 0, i.window % 2 = 0 PROVE i.window \in {2 * n : n \in 1 .. i.window}
    <3>1. i.window \div 2 \in 1 .. i.window /\ i.window = 2 * (i.window \div 2)
      BY <2>1, <1>1
    <3> QED BY <3>1
  <2>2. ASSUME NEW n \in 1 .. i.window, i.window = 2 * n PROVE i.window > 0 /\ i.window % 2 = 0
    BY <2>2, <1>1
  <2> QED BY <2>1, <2>2
<1>3. CleartextStatus(i) # "fail" <=> (i.cleartext => i.ackCleartext)
  BY DEF CleartextStatus
<1>4. ModeStatus(i) # "fail" <=> /\ i.mode \in {"auto", "shadow", "ephemeral-auto", "durable-auto"}
                                 /\ i.mode = "ephemeral-auto" => i.ackEphemeral
  BY DEF ModeStatus
<1>5. {i.database, i.key} # {"absent"} <=> ~StoreAbsent(i)
  BY DEF StoreAbsent
<1>6. StoreStatus(i) # "fail" /\ BackupStatus(i) # "fail" <=>
          (i.persistence /\ {i.database, i.key} # {"absent"} =>
              i.database = "regular" /\ i.key = "regular" /\ i.opens /\ i.backup = "matching")
  <2>1. CASE ~i.persistence
    BY <2>1 DEF StoreStatus, BackupStatus
  <2>2. CASE i.persistence /\ StoreAbsent(i)
    BY <2>2, <1>5 DEF StoreStatus, BackupStatus, Verdict
  <2>3. CASE i.persistence /\ ~StoreAbsent(i)
    BY <2>3, <1>5 DEF StoreStatus, BackupStatus, Verdict, StoreSound
  <2> QED BY <1>1, <2>1, <2>2, <2>3
<1>7. MaxAge \in Int /\ Tolerance \in Int
  BY PlanningAssumption
<1>8. ASSUME NEW lab, lab.at \in Nat
      PROVE  Edited!LabOk(lab, t) <=> lab.proves /\ lab.at > 0 /\ lab.at \in t - MaxAge .. t + Tolerance
  BY <1>7, <1>8 DEF Edited!LabOk, Edited!fresh
<1>9. Edited!LabOk(i.testlab, t) /\ Edited!LabOk(i.mihomo, t) <=>
          \A lab \in {i.testlab, i.mihomo} :
              lab.proves /\ lab.at > 0 /\ lab.at \in t - MaxAge .. t + Tolerance
  BY <1>1, <1>8
<1> QED BY <1>2, <1>3, <1>4, <1>6, <1>9 DEF Passed, Edited!Justified, Edited!PlanOk, PrivacyOk

-----------------------------------------------------------------------------
(* What assess requires is what preflight checks.                          *)

LEMMA OneMore ==
    ASSUME NEW S, NEW x, NEW n \in Nat, IsFiniteSet(S), Cardinality(S) = n, x \notin S
    PROVE  IsFiniteSet(S \cup {x}) /\ Cardinality(S \cup {x}) = n + 1
BY FS_AddElement

Sized(S, n) == IsFiniteSet(S) /\ Cardinality(S) = n

LEMMA OneMoreSized ==
    ASSUME NEW S, NEW x, NEW n \in Nat, Sized(S, n), x \notin S
    PROVE  Sized(S \cup {x}, n + 1)
BY OneMore DEF Sized

LEMMA FourteenRequired == Edited!Cardinality(Edited!Required) = 14
<1> DEFINE r0 == {}
           r1 == r0 \cup {"assessment.plan"}
           r2 == r1 \cup {"config.valid"}
           r3 == r2 \cup {"privacy.direct_probes"}
           r4 == r3 \cup {"baseline.original_path"}
           r5 == r4 \cup {"observation.enabled"}
           r6 == r5 \cup {"privacy.cleartext_hostname"}
           r7 == r6 \cup {"observation.paused"}
           r8 == r7 \cup {"observation.existing_files"}
           r9 == r8 \cup {"learning.mode"}
           r10 == r9 \cup {"learning.persistence"}
           r11 == r10 \cup {"learning.backup"}
           r12 == r11 \cup {"lab.testlab"}
           r13 == r12 \cup {"lab.mihomo"}
           r14 == r13 \cup {"safety.active_clash"}
<1>0. Sized(r0, 0)
  BY FS_EmptySet DEF Sized
<1>1. Sized(r1, 1)
  <2>1. "assessment.plan" \notin r0
    OBVIOUS
  <2>2. 0 + 1 = 1
    OBVIOUS
  <2> HIDE DEF r0
  <2> QED BY ONLY <1>0, <2>1, <2>2, OneMoreSized DEF r1
<1>2. Sized(r2, 2)
  <2>1. "config.valid" \notin r1
    OBVIOUS
  <2>2. 1 + 1 = 2
    OBVIOUS
  <2> HIDE DEF r1
  <2> QED BY ONLY <1>1, <2>1, <2>2, OneMoreSized DEF r2
<1>3. Sized(r3, 3)
  <2>1. "privacy.direct_probes" \notin r2
    OBVIOUS
  <2>2. 2 + 1 = 3
    OBVIOUS
  <2> HIDE DEF r2
  <2> QED BY ONLY <1>2, <2>1, <2>2, OneMoreSized DEF r3
<1>4. Sized(r4, 4)
  <2>1. "baseline.original_path" \notin r3
    OBVIOUS
  <2>2. 3 + 1 = 4
    OBVIOUS
  <2> HIDE DEF r3
  <2> QED BY ONLY <1>3, <2>1, <2>2, OneMoreSized DEF r4
<1>5. Sized(r5, 5)
  <2>1. "observation.enabled" \notin r4
    OBVIOUS
  <2>2. 4 + 1 = 5
    OBVIOUS
  <2> HIDE DEF r4
  <2> QED BY ONLY <1>4, <2>1, <2>2, OneMoreSized DEF r5
<1>6. Sized(r6, 6)
  <2>1. "privacy.cleartext_hostname" \notin r5
    OBVIOUS
  <2>2. 5 + 1 = 6
    OBVIOUS
  <2> HIDE DEF r5
  <2> QED BY ONLY <1>5, <2>1, <2>2, OneMoreSized DEF r6
<1>7. Sized(r7, 7)
  <2>1. "observation.paused" \notin r6
    OBVIOUS
  <2>2. 6 + 1 = 7
    OBVIOUS
  <2> HIDE DEF r6
  <2> QED BY ONLY <1>6, <2>1, <2>2, OneMoreSized DEF r7
<1>8. Sized(r8, 8)
  <2>1. "observation.existing_files" \notin r7
    OBVIOUS
  <2>2. 7 + 1 = 8
    OBVIOUS
  <2> HIDE DEF r7
  <2> QED BY ONLY <1>7, <2>1, <2>2, OneMoreSized DEF r8
<1>9. Sized(r9, 9)
  <2>1. "learning.mode" \notin r8
    OBVIOUS
  <2>2. 8 + 1 = 9
    OBVIOUS
  <2> HIDE DEF r8
  <2> QED BY ONLY <1>8, <2>1, <2>2, OneMoreSized DEF r9
<1>10. Sized(r10, 10)
  <2>1. "learning.persistence" \notin r9
    OBVIOUS
  <2>2. 9 + 1 = 10
    OBVIOUS
  <2> HIDE DEF r9
  <2> QED BY ONLY <1>9, <2>1, <2>2, OneMoreSized DEF r10
<1>11. Sized(r11, 11)
  <2>1. "learning.backup" \notin r10
    OBVIOUS
  <2>2. 10 + 1 = 11
    OBVIOUS
  <2> HIDE DEF r10
  <2> QED BY ONLY <1>10, <2>1, <2>2, OneMoreSized DEF r11
<1>12. Sized(r12, 12)
  <2>1. "lab.testlab" \notin r11
    OBVIOUS
  <2>2. 11 + 1 = 12
    OBVIOUS
  <2> HIDE DEF r11
  <2> QED BY ONLY <1>11, <2>1, <2>2, OneMoreSized DEF r12
<1>13. Sized(r13, 13)
  <2>1. "lab.mihomo" \notin r12
    OBVIOUS
  <2>2. 12 + 1 = 13
    OBVIOUS
  <2> HIDE DEF r12
  <2> QED BY ONLY <1>12, <2>1, <2>2, OneMoreSized DEF r13
<1>14. Sized(r14, 14)
  <2>1. "safety.active_clash" \notin r13
    OBVIOUS
  <2>2. 13 + 1 = 14
    OBVIOUS
  <2> HIDE DEF r13
  <2> QED BY ONLY <1>13, <2>1, <2>2, OneMoreSized DEF r14
<1>15. Edited!Required = r14
  BY DEF Edited!Required
<1> HIDE DEF r14
<1> QED BY <1>14, <1>15, SameCardinality DEF Sized

LEMMA SaidIsRequired ==
    ASSUME NEW i \in Findings, NEW t, i.control # "unreadable"
    PROVE  {x[1] : x \in Said(i, t)} = Edited!Required
<1>1. \A x \in Said(i, t) : x[1] \in Edited!Required
  BY DEF Said, Recorded, Control, Edited!Required
<1>2. \A id, status : <<id, status>> \in Said(i, t) => id \in {x[1] : x \in Said(i, t)}
  <2> SUFFICES ASSUME NEW id, NEW status, <<id, status>> \in Said(i, t)
               PROVE  \E x \in Said(i, t) : x[1] = id
    OBVIOUS
  <2>1. <<id, status>>[1] = id
    OBVIOUS
  <2> QED BY <2>1
<1>3. /\ <<"assessment.plan", Verdict(Edited!PlanOk(i))>> \in Said(i, t)
      /\ <<"config.valid", Verdict(i.configValid)>> \in Said(i, t)
      /\ <<"privacy.direct_probes", Verdict(PrivacyOk(i))>> \in Said(i, t)
      /\ <<"baseline.original_path", Verdict(i.ackOriginal)>> \in Said(i, t)
  BY DEF Said
<1>4. /\ <<"observation.enabled", Verdict(i.recording)>> \in Said(i, t)
      /\ <<"privacy.cleartext_hostname", CleartextStatus(i)>> \in Said(i, t)
  BY DEF Said, Recorded
<1>5. /\ <<"observation.paused", Verdict(i.control = "paused")>> \in Said(i, t)
      /\ <<"observation.existing_files", IF i.files = 0 THEN "pass" ELSE "warn">> \in Said(i, t)
  BY DEF Said, Control
<1>6. /\ <<"learning.mode", ModeStatus(i)>> \in Said(i, t)
      /\ <<"learning.persistence", StoreStatus(i)>> \in Said(i, t)
      /\ <<"learning.backup", BackupStatus(i)>> \in Said(i, t)
      /\ <<"lab.testlab", Verdict(Edited!LabOk(i.testlab, t))>> \in Said(i, t)
      /\ <<"lab.mihomo", Verdict(Edited!LabOk(i.mihomo, t))>> \in Said(i, t)
      /\ <<"safety.active_clash", "pass">> \in Said(i, t)
  BY DEF Said
<1>7. \A id \in Edited!Required : id \in {x[1] : x \in Said(i, t)}
  <2>1. "assessment.plan" \in {x[1] : x \in Said(i, t)}
    BY ONLY <1>2, <1>3
  <2>2. "config.valid" \in {x[1] : x \in Said(i, t)}
    BY ONLY <1>2, <1>3
  <2>3. "privacy.direct_probes" \in {x[1] : x \in Said(i, t)}
    BY ONLY <1>2, <1>3
  <2>4. "baseline.original_path" \in {x[1] : x \in Said(i, t)}
    BY ONLY <1>2, <1>3
  <2>5. "observation.enabled" \in {x[1] : x \in Said(i, t)}
    BY ONLY <1>2, <1>4
  <2>6. "privacy.cleartext_hostname" \in {x[1] : x \in Said(i, t)}
    BY ONLY <1>2, <1>4
  <2>7. "observation.paused" \in {x[1] : x \in Said(i, t)}
    BY ONLY <1>2, <1>5
  <2>8. "observation.existing_files" \in {x[1] : x \in Said(i, t)}
    BY ONLY <1>2, <1>5
  <2>9. "learning.mode" \in {x[1] : x \in Said(i, t)}
    BY ONLY <1>2, <1>6
  <2>10. "learning.persistence" \in {x[1] : x \in Said(i, t)}
    BY ONLY <1>2, <1>6
  <2>11. "learning.backup" \in {x[1] : x \in Said(i, t)}
    BY ONLY <1>2, <1>6
  <2>12. "lab.testlab" \in {x[1] : x \in Said(i, t)}
    BY ONLY <1>2, <1>6
  <2>13. "lab.mihomo" \in {x[1] : x \in Said(i, t)}
    BY ONLY <1>2, <1>6
  <2>14. "safety.active_clash" \in {x[1] : x \in Said(i, t)}
    BY ONLY <1>2, <1>6
  <2> HIDE DEF Said
  <2> QED BY <2>1, <2>2, <2>3, <2>4, <2>5, <2>6, <2>7, <2>8, <2>9, <2>10, <2>11, <2>12, <2>13, <2>14 DEF Edited!Required
<1> QED BY <1>1, <1>7

LEMMA WarningsAreAllowed ==
    ASSUME NEW i \in Findings, NEW t, Passed(i, t), NEW x \in Said(i, t), x[2] = "warn"
    PROVE  x[1] \in Edited!AllowedWarnings
<1>1. CASE x \in Recorded(i)
  BY <1>1 DEF Passed, Recorded, Verdict, Edited!AllowedWarnings
<1>2. CASE x \in Control(i)
  BY <1>2 DEF Passed, Control, Verdict, Edited!AllowedWarnings
<1>3. CASE x \notin Recorded(i) /\ x \notin Control(i)
  BY <1>3 DEF Passed, Said, Verdict, Edited!AllowedWarnings
<1> QED BY <1>1, <1>2, <1>3

LEMMA ReadyMeansJustified ==
    ASSUME NEW i \in Findings, NEW c, NEW t \in Nat
    PROVE  /\ Edited!PreflightReport(i, c, t).ready <=> Passed(i, t)
           /\ Edited!PreflightReport(i, c, t).ready <=> Edited!Justified(i, t)
<1>1. ControlLen(i) \in {1, 2}
  BY DEF ControlLen
<1>2. 12 + ControlLen(i) \in Nat
  BY <1>1
<1>3. Edited!CountsOf(Edited!Checks(i, t))["fail"] = 0 <=> \A x \in Said(i, t) : x[2] # "fail"
  BY ONLY <1>2, ChecksTell, NoneFails
<1>4. Edited!PreflightReport(i, c, t).ready <=> Edited!CountsOf(Edited!Checks(i, t))["fail"] = 0
  BY DEF Edited!PreflightReport
<1> QED BY <1>3, <1>4, PassedSaysSo, PassedIsJustified

\* Consumer and producer of the file agree.
LEMMA AcceptedIfReady ==
    ASSUME NEW i \in Findings, NEW c, NEW d, NEW t \in Nat \ {0}
    PROVE  LET r == Edited!PreflightReport(i, c, t)
           IN  Edited!Accepts(r, d) <=> r.ready /\ r.plan[1].config = d
<1> DEFINE r == Edited!PreflightReport(i, c, t)
           checks == Edited!Checks(i, t)
<1>1. ASSUME Edited!Accepts(r, d) PROVE r.ready /\ r.plan[1].config = d
  BY <1>1 DEF Edited!Accepts, Edited!validateReadyPreflightReport
<1>2. ASSUME r.ready, r.plan[1].config = d PROVE Edited!Accepts(r, d)
  <2>1. Passed(i, t)
    BY <1>2, ReadyMeansJustified
  <2>2. i.control = "paused" /\ Edited!PlanOk(i)
    BY <2>1 DEF Passed
  <2>3. Tells(checks, 14, Said(i, t))
    <3>1. ControlLen(i) = 2 /\ 12 + 2 = 14
      BY <2>2 DEF ControlLen
    <3> QED BY <3>1, ChecksTell
  <2>4. Edited!CountsOf(checks)["fail"] = 0
    BY <1>2 DEF Edited!PreflightReport
  <2>5. /\ r.version = 1 /\ r.at = t /\ r.checks = checks /\ r.counts = Edited!CountsOf(checks)
        /\ r.claims = FALSE /\ r.plan = <<Edited!NewAssessmentPlan(i, c, t)>>
    BY <2>2 DEF Edited!PreflightReport, Edited!PreflightReportVersion
  <2>6. {checks[k][1] : k \in DOMAIN checks} = Edited!Required
    <3>1. {checks[k][1] : k \in DOMAIN checks} = {x[1] : x \in Held(checks)}
      BY DEF Held
    <3>2. Held(checks) = Said(i, t)
      BY <2>3 DEF Tells
    <3>3. i.control # "unreadable"
      BY <2>2
    <3> QED BY <3>1, <3>2, <3>3, SaidIsRequired
  <2>7. Len(checks) = Edited!Cardinality(Edited!Required)
    BY <2>3, FourteenRequired DEF Tells
  <2>8. \A k \in DOMAIN checks : checks[k][2] = "warn" => checks[k][1] \in Edited!AllowedWarnings
    <3>1. \A k \in DOMAIN checks : checks[k] \in Said(i, t)
      BY <2>3 DEF Tells, Held
    <3> QED BY <2>1, <3>1, WarningsAreAllowed
  <2>9. Edited!validateReadyPreflightReport(r)
    <3> HIDE DEF r, checks
    <3> QED BY <1>2, <2>4, <2>5, <2>6, <2>7, <2>8 DEF Edited!validateReadyPreflightReport
  <2>10. Edited!PlanValid(r.plan[1]) /\ r.plan[1].notBefore = t
    <3>1. i.window \in Int /\ i.window > 0 /\ i.window % 2 = 0
      BY <2>2 DEF Edited!PlanOk, Findings
    <3>2. i.window \div 2 > 0
      BY <3>1
    <3>3. r.plan[1] = Edited!NewAssessmentPlan(i, c, t)
      BY <2>5
    <3>4. Edited!PlanValid(Edited!NewAssessmentPlan(i, c, t)) /\ Edited!NewAssessmentPlan(i, c, t).notBefore = t
      BY <2>2, <3>2 DEF Edited!PlanValid, Edited!NewAssessmentPlan, Edited!Payload, Edited!PlanOk,
                        Edited!AssessmentPlanVersion
    <3> QED BY <3>3, <3>4
  <2> HIDE DEF r
  <2> QED BY <1>2, <2>5, <2>9, <2>10 DEF Edited!Accepts, Edited!PreflightReportVersion
<1> QED BY <1>1, <1>2

LEMMA EditsAre ==
    ASSUME NEW r, NEW e \in Edited!Edits(r)
    PROVE  \/ e = [r EXCEPT !.ready = ~@]
           \/ e = [r EXCEPT !.at = @ + 1]
           \/ e = [r EXCEPT !.version = @ + 1]
           \/ \E k \in DOMAIN r.checks, status \in Edited!Statuses : e = [r EXCEPT !.checks[k] = <<@[1], status>>]
           \/ \E k \in DOMAIN r.checks :
                  e = [r EXCEPT !.checks = SubSeq(@, 1, k - 1) \o SubSeq(@, k + 1, Len(@))]
           \/ \E status \in Edited!Statuses, n \in 0 .. 1 : e = [r EXCEPT !.counts[status] = n]
           \/ r.plan # <<>> /\ e = [r EXCEPT !.plan[1].session = "chosen"]
           \/ r.plan # <<>> /\ e = [r EXCEPT !.plan[1].notBefore = @ + 1]
           \/ r.plan # <<>> /\ e = [r EXCEPT !.plan[1].seconds = @ + 1]
           \/ r.plan # <<>> /\ e = [r EXCEPT !.plan[1].thresholds[1] = @ + 1]
           \/ r.plan # <<>> /\ \E x \in Configs : e = [r EXCEPT !.plan[1].config = x]
<1> DEFINE flat == {[r EXCEPT !.ready = ~@], [r EXCEPT !.at = @ + 1], [r EXCEPT !.version = @ + 1]}
           status1 == {[r EXCEPT !.checks[i] = <<@[1], status>>] : i \in DOMAIN r.checks, status \in Edited!Statuses}
           removed == {[r EXCEPT !.checks = SubSeq(@, 1, i - 1) \o SubSeq(@, i + 1, Len(@))] : i \in DOMAIN r.checks}
           counted == {[r EXCEPT !.counts[status] = n] : status \in Edited!Statuses, n \in 0 .. 1}
           planned == {[r EXCEPT !.plan[1].session = "chosen"], [r EXCEPT !.plan[1].notBefore = @ + 1],
                       [r EXCEPT !.plan[1].seconds = @ + 1], [r EXCEPT !.plan[1].thresholds[1] = @ + 1]}
           moved == {[r EXCEPT !.plan[1].config = c] : c \in Configs}
<1>1. Edited!Edits(r) = flat \cup status1 \cup removed \cup counted
                        \cup IF r.plan = <<>> THEN {} ELSE planned \cup moved
  BY DEF Edited!Edits
<1>2. e \in flat => e = [r EXCEPT !.ready = ~@] \/ e = [r EXCEPT !.at = @ + 1] \/ e = [r EXCEPT !.version = @ + 1]
  BY Zenon
<1>3. e \in status1 => \E k \in DOMAIN r.checks, status \in Edited!Statuses : e = [r EXCEPT !.checks[k] = <<@[1], status>>]
  OBVIOUS
<1>4. e \in removed => \E k \in DOMAIN r.checks :
                           e = [r EXCEPT !.checks = SubSeq(@, 1, k - 1) \o SubSeq(@, k + 1, Len(@))]
  BY Zenon
<1>5. e \in counted => \E status \in Edited!Statuses, n \in 0 .. 1 : e = [r EXCEPT !.counts[status] = n]
  OBVIOUS
<1>6. e \in planned => \/ e = [r EXCEPT !.plan[1].session = "chosen"]
                       \/ e = [r EXCEPT !.plan[1].notBefore = @ + 1]
                       \/ e = [r EXCEPT !.plan[1].seconds = @ + 1]
                       \/ e = [r EXCEPT !.plan[1].thresholds[1] = @ + 1]
  BY Zenon
<1>7. e \in moved => \E x \in Configs : e = [r EXCEPT !.plan[1].config = x]
  BY Zenon
<1> HIDE DEF flat, status1, removed, counted, planned, moved
<1>8. \/ e \in flat \/ e \in status1 \/ e \in removed \/ e \in counted
      \/ r.plan # <<>> /\ (e \in planned \/ e \in moved)
  BY <1>1, Zenon
<1> QED BY ONLY <1>2, <1>3, <1>4, <1>5, <1>6, <1>7, <1>8, Zenon

\* An edit leaves the verdict and the plan as they were, or the file is refused.
LEMMA EditsChangeNothing ==
    ASSUME NEW i \in Findings, NEW c, NEW d, NEW t \in Nat \ {0},
           NEW e \in Edited!Edits(Edited!PreflightReport(i, c, t)), Edited!Accepts(e, d)
    PROVE  LET r == Edited!PreflightReport(i, c, t)
           IN  r.ready /\ e.plan[1] = Edited!NewAssessmentPlan(i, c, t) /\ c = d
<1> DEFINE p == Edited!NewAssessmentPlan(i, c, t)
           r == Edited!PreflightReport(i, c, t)
<1>1. /\ r.ready <=> r.counts["fail"] = 0
      /\ r.version = 1 /\ r.at = t
      /\ r.plan = <<p>> \/ r.plan = <<>>
  BY DEF Edited!PreflightReport, Edited!PreflightReportVersion
<1>2. /\ e.version = 1 /\ e.plan # <<>> /\ e.ready /\ e.counts["fail"] = 0
      /\ e.at = e.plan[1].notBefore /\ Edited!PlanValid(e.plan[1]) /\ e.plan[1].config = d
  BY DEF Edited!Accepts, Edited!validateReadyPreflightReport, Edited!PreflightReportVersion
<1>3. p.config = c /\ p.notBefore = t /\ p.session = "planned"
  BY DEF Edited!NewAssessmentPlan
<1>4. SUFFICES r.ready /\ e.plan[1] = p
  BY <1>2, <1>3
<1>5. e.ready = r.ready /\ e.plan = r.plan => r.ready /\ e.plan[1] = p
  BY <1>1, <1>2
<1>6. ASSUME NEW f \in {"session", "notBefore", "seconds", "thresholds", "config"}, NEW v,
             e.plan = <<[p EXCEPT ![f] = v]>>
      PROVE  e.plan[1] = p
  <2>1. e.plan[1] = [p EXCEPT ![f] = v]
    BY <1>6
  <2>2. e.plan[1].digest = Edited!Payload(e.plan[1])
    BY <1>2 DEF Edited!PlanValid
  <2>3. e.plan[1].digest = p.digest /\ e.plan[1][f] = v
    BY <2>1, <1>6 DEF Edited!NewAssessmentPlan
  <2>4. p.digest = Edited!Payload(p)
    BY DEF Edited!NewAssessmentPlan, Edited!Payload
  <2>5. p[f] = v
    <3>1. Edited!Payload(e.plan[1]) = Edited!Payload(p)
      BY <2>2, <2>3, <2>4
    <3> HIDE DEF p
    <3>2. /\ e.plan[1].session = p.session /\ e.plan[1].notBefore = p.notBefore
          /\ e.plan[1].seconds = p.seconds /\ e.plan[1].thresholds = p.thresholds
          /\ e.plan[1].config = p.config
      BY <3>1 DEF Edited!Payload
    <3> QED BY <3>2, <2>3, <1>6
  <2>6. [p EXCEPT ![f] = v] = p
    BY <2>5, <1>6 DEF Edited!NewAssessmentPlan
  <2> QED BY <2>1, <2>6
<1>7. ASSUME NEW f \in {"session", "notBefore", "seconds", "thresholds", "config"}, NEW v,
             r.plan # <<>>, e.ready = r.ready, e.plan = [r.plan EXCEPT ![1] = [@ EXCEPT ![f] = v]]
      PROVE  r.ready /\ e.plan[1] = p
  <2>1. r.plan = <<p>>
    BY <1>1, <1>7
  <2>2. e.plan = <<[p EXCEPT ![f] = v]>>
    <3> HIDE DEF p, r
    <3> QED BY <2>1, <1>7
  <2>3. e.plan[1] = p
    BY <2>2, <1>6
  <2> QED BY <2>3, <1>2, <1>7
<1>8. CASE e = [r EXCEPT !.ready = ~@]
  BY <1>8, <1>1, <1>2 DEF Edited!PreflightReport
<1>9. CASE e = [r EXCEPT !.at = @ + 1]
  BY <1>9, <1>1, <1>2, <1>3 DEF Edited!PreflightReport
<1>10. CASE e = [r EXCEPT !.version = @ + 1]
  BY <1>10, <1>1, <1>2 DEF Edited!PreflightReport
<1>11. CASE \E k \in DOMAIN r.checks, status \in Edited!Statuses : e = [r EXCEPT !.checks[k] = <<@[1], status>>]
  BY <1>11, <1>5 DEF Edited!PreflightReport
<1>12. CASE \E k \in DOMAIN r.checks :
               e = [r EXCEPT !.checks = SubSeq(@, 1, k - 1) \o SubSeq(@, k + 1, Len(@))]
  BY <1>12, <1>5 DEF Edited!PreflightReport
<1>13. CASE \E status \in Edited!Statuses, n \in 0 .. 1 : e = [r EXCEPT !.counts[status] = n]
  BY <1>13, <1>5 DEF Edited!PreflightReport
<1>14. CASE r.plan # <<>> /\ e = [r EXCEPT !.plan[1].session = "chosen"]
  <2>1. e.ready = r.ready /\ e.plan = [r.plan EXCEPT ![1] = [@ EXCEPT !["session"] = "chosen"]]
    BY <1>14 DEF Edited!PreflightReport
  <2> HIDE DEF r, p
  <2> QED BY <2>1, <1>14, <1>7
<1>15. CASE r.plan # <<>> /\ e = [r EXCEPT !.plan[1].notBefore = @ + 1]
  <2>1. e.ready = r.ready /\ e.plan = [r.plan EXCEPT ![1] = [@ EXCEPT !["notBefore"] = r.plan[1].notBefore + 1]]
    BY <1>15 DEF Edited!PreflightReport
  <2> HIDE DEF r, p
  <2> QED BY <2>1, <1>15, <1>7
<1>16. CASE r.plan # <<>> /\ e = [r EXCEPT !.plan[1].seconds = @ + 1]
  <2>1. e.ready = r.ready /\ e.plan = [r.plan EXCEPT ![1] = [@ EXCEPT !["seconds"] = r.plan[1].seconds + 1]]
    BY <1>16 DEF Edited!PreflightReport
  <2> HIDE DEF r, p
  <2> QED BY <2>1, <1>16, <1>7
<1>17. CASE r.plan # <<>> /\ e = [r EXCEPT !.plan[1].thresholds[1] = @ + 1]
  <2>1. e.ready = r.ready /\ e.plan = [r.plan EXCEPT ![1] = [@ EXCEPT !["thresholds"] = [r.plan[1].thresholds EXCEPT ![1] = @ + 1]]]
    BY <1>17 DEF Edited!PreflightReport
  <2> HIDE DEF r, p
  <2> QED BY <2>1, <1>17, <1>7
<1>18. CASE r.plan # <<>> /\ \E x \in Configs : e = [r EXCEPT !.plan[1].config = x]
  <2>1. PICK x \in Configs : e = [r EXCEPT !.plan[1].config = x]
    BY <1>18
  <2>2. e.ready = r.ready /\ e.plan = [r.plan EXCEPT ![1] = [@ EXCEPT !["config"] = x]]
    BY <2>1 DEF Edited!PreflightReport
  <2> HIDE DEF r, p
  <2> QED BY <2>2, <1>18, <1>7
<1>19. e \in Edited!Edits(r)
  OBVIOUS
<1> HIDE DEF r, p
<1> QED BY ONLY <1>4, <1>8, <1>9, <1>10, <1>11, <1>12, <1>13, <1>14, <1>15, <1>16, <1>17, <1>18, <1>19, EditsAre, ZenonT(60)

-----------------------------------------------------------------------------
(* The two instances of Preflight compute the same reports.                *)

LEMMA SameReports ==
    ASSUME NEW i, NEW c, NEW t
    PROVE  Registered!PreflightReport(i, c, t) = Edited!PreflightReport(i, c, t)
<1>1. Registered!Checks(i, t) = Edited!Checks(i, t)
  BY DEF Registered!Checks, Edited!Checks, Registered!PassIf, Edited!PassIf, Registered!Check, Edited!Check,
         Registered!PlanOk, Edited!PlanOk, Registered!ThresholdsValid, Edited!ThresholdsValid,
         Registered!checkPrivacy, Edited!checkPrivacy,
         Registered!checkObservation, Edited!checkObservation,
         Registered!LearningMode, Edited!LearningMode, Registered!LearningStore, Edited!LearningStore,
         Registered!Both, Edited!Both, Registered!BackupMatches, Edited!BackupMatches,
         Registered!LabOk, Edited!LabOk, Registered!fresh, Edited!fresh
<1>2. ASSUME NEW s PROVE Registered!CountsOf(s) = Edited!CountsOf(s)
  <2>1. ASSUME NEW S PROVE Registered!Cardinality(S) = Edited!Cardinality(S)
    BY DEF Edited!Cardinality, Registered!Cardinality
  <2> QED BY <2>1 DEF Registered!CountsOf, Edited!CountsOf, Registered!Statuses, Edited!Statuses
<1>3. Registered!PlanOk(i) <=> Edited!PlanOk(i)
  BY DEF Registered!PlanOk, Edited!PlanOk, Registered!ThresholdsValid, Edited!ThresholdsValid
<1>4. Registered!NewAssessmentPlan(i, c, t) = Edited!NewAssessmentPlan(i, c, t)
  BY DEF Registered!NewAssessmentPlan, Edited!NewAssessmentPlan,
         Registered!AssessmentPlanVersion, Edited!AssessmentPlanVersion
<1> QED BY <1>1, <1>2, <1>3, <1>4 DEF Registered!PreflightReport, Edited!PreflightReport,
           Registered!PreflightReportVersion, Edited!PreflightReportVersion

LEMMA SameJustified ==
    ASSUME NEW i, NEW t
    PROVE  Registered!Justified(i, t) <=> Edited!Justified(i, t)
BY DEF Registered!Justified, Edited!Justified, Registered!ThresholdsValid, Edited!ThresholdsValid

LEMMA SameAccepts ==
    ASSUME NEW r, NEW c
    PROVE  Registered!Accepts(r, c) <=> Edited!Accepts(r, c)
<1>1. ASSUME NEW S PROVE Registered!Cardinality(S) = Edited!Cardinality(S)
  BY DEF Edited!Cardinality, Registered!Cardinality
<1>2. Registered!CountsOf(r.checks) = Edited!CountsOf(r.checks)
  BY <1>1 DEF Registered!CountsOf, Edited!CountsOf, Registered!Statuses, Edited!Statuses
<1>3. Registered!Required = Edited!Required /\ Registered!AllowedWarnings = Edited!AllowedWarnings
  BY DEF Registered!Required, Edited!Required, Registered!AllowedWarnings, Edited!AllowedWarnings
<1>4. Registered!validateReadyPreflightReport(r) <=> Edited!validateReadyPreflightReport(r)
  BY <1>1, <1>2, <1>3 DEF Registered!validateReadyPreflightReport, Edited!validateReadyPreflightReport
<1>5. \A p : Registered!PlanValid(p) <=> Edited!PlanValid(p)
  BY DEF Registered!PlanValid, Edited!PlanValid, Registered!ThresholdsValid, Edited!ThresholdsValid,
         Registered!Payload, Edited!Payload, Registered!AssessmentPlanVersion, Edited!AssessmentPlanVersion
<1> QED BY <1>4, <1>5 DEF Registered!Accepts, Edited!Accepts,
           Registered!PreflightReportVersion, Edited!PreflightReportVersion

-----------------------------------------------------------------------------
(* The saved report, in every state.                                       *)

RegisteredInv ==
    /\ in \in Inputs /\ config = Config /\ now \in Nat \ {0} /\ edits = 0
    /\ saved = <<>> \/ \E t \in Nat \ {0} : saved = <<Edited!PreflightReport(in, config, t)>>

\* The file is what one of the runs wrote, or that with one edit.
EditedInv ==
    /\ in \in FewInputs /\ now \in Nat \ {0} /\ edits \in {0, 1}
    /\ saved # <<>> =>
         \E i \in FewInputs, c \in Configs, t \in Nat \ {0} :
            /\ t <= now /\ <<i, c, t>> \in ran
            /\ \/ edits = 0 /\ saved = <<Edited!PreflightReport(i, c, t)>>
               \/ edits = 1 /\ \E e \in Edited!Edits(Edited!PreflightReport(i, c, t)) : saved = <<e>>
    /\ config \in Configs

PlanInv == (part = "checks" => RegisteredInv) /\ (part = "edits" => EditedInv)

LEMMA RegisteredStep ==
    ASSUME RegisteredInv, Registered!Next
    PROVE  RegisteredInv'
<1> USE DEF RegisteredInv
<1>1. CASE Registered!Tick
  BY <1>1 DEF Registered!Tick
<1>2. CASE Registered!RunPreflight
  <2>1. saved' = <<Edited!PreflightReport(in', config', now)>>
    BY <1>2, SameReports DEF Registered!RunPreflight
  <2> QED BY <1>2, <2>1 DEF Registered!RunPreflight
<1>3. CASE Registered!ConfigChanges
  BY <1>3 DEF Registered!ConfigChanges
<1>4. CASE Registered!Edit
  BY <1>4 DEF Registered!Edit
<1> QED BY <1>1, <1>2, <1>3, <1>4 DEF Registered!Next

LEMMA EditedStep ==
    ASSUME EditedInv, Edited!Next
    PROVE  EditedInv'
<1>1. CASE Edited!Tick
  <2>1. now' \in Nat \ {0} /\ \A t \in Nat : t <= now => t <= now'
    BY <1>1 DEF Edited!Tick, EditedInv
  <2> QED BY <1>1, <2>1 DEF Edited!Tick, EditedInv
<1>2. CASE Edited!RunPreflight
  <2>1. /\ in \in FewInputs /\ config \in Configs /\ now \in Nat \ {0} /\ now <= now'
        /\ <<in, config, now>> \in ran' /\ edits' = 0
        /\ saved' = <<Edited!PreflightReport(in, config, now)>>
    BY <1>2 DEF Edited!RunPreflight, EditedInv
  <2> QED BY <1>2, <2>1 DEF Edited!RunPreflight, EditedInv
<1>3. CASE Edited!ConfigChanges
  BY <1>3 DEF Edited!ConfigChanges, EditedInv
<1>4. CASE Edited!Edit
  <2>1. PICK i \in FewInputs, c \in Configs, t \in Nat \ {0} :
            /\ t <= now /\ <<i, c, t>> \in ran
            /\ \/ edits = 0 /\ saved = <<Edited!PreflightReport(i, c, t)>>
               \/ edits = 1 /\ \E e \in Edited!Edits(Edited!PreflightReport(i, c, t)) : saved = <<e>>
    BY <1>4 DEF Edited!Edit, EditedInv
  <2>2. edits = 0 /\ edits' = 1 /\ saved[1] = Edited!PreflightReport(i, c, t)
    BY <1>4, <2>1 DEF Edited!Edit, EditedInv
  <2>3. \E e \in Edited!Edits(Edited!PreflightReport(i, c, t)) : saved' = <<e>>
    BY <1>4, <2>2 DEF Edited!Edit
  <2>4. t <= now' /\ <<i, c, t>> \in ran'
    BY <1>4, <2>1 DEF Edited!Edit
  <2> QED BY <1>4, <2>2, <2>3, <2>4 DEF Edited!Edit, EditedInv
<1> QED BY <1>1, <1>2, <1>3, <1>4 DEF Edited!Next

LEMMA PlanStays == MCSpec => []PlanInv
<1>1. MCInit => PlanInv
  BY DEF MCInit, PlanInv, RegisteredInv, EditedInv, Registered!Init, Edited!Init
<1>2. PlanInv /\ [MCNext]_<<part, now, recording, planning>> => PlanInv'
  <2> SUFFICES ASSUME PlanInv, [MCNext]_<<part, now, recording, planning>> PROVE PlanInv'
    OBVIOUS
  <2>1. CASE part = "checks" /\ Registered!Next /\ UNCHANGED <<part, recording>>
    BY <2>1, RegisteredStep DEF PlanInv
  <2>2. CASE part = "edits" /\ Edited!Next /\ UNCHANGED <<part, recording>>
    BY <2>2, EditedStep DEF PlanInv
  <2>3. CASE part \in {"engine", "mixed"} /\ part' = part
    BY <2>3 DEF PlanInv
  <2>4. CASE UNCHANGED <<part, now, recording, planning>>
    BY <2>4 DEF PlanInv, RegisteredInv, EditedInv, planning
  <2> QED BY <2>1, <2>2, <2>3, <2>4 DEF MCNext
<1> QED BY <1>1, <1>2, PTL DEF MCSpec

\* Preflight calls ready what has every prerequisite and nothing else,
\* LoadAssessmentPlan accepts exactly what it called ready, and no edit of one
\* field makes it accept a plan other than one that a ready run had fixed before,
\* whatever preflight finds, in whatever order configurations, runs and the edit
\* follow.
THEOREM PreflightSound == MCSpec => []PreflightIsSound
<1>1. PlanInv => PreflightIsSound
  <2> SUFFICES ASSUME PlanInv PROVE PreflightIsSound
    OBVIOUS
  <2>1. ASSUME part = "checks" PROVE Registered!ReadyIsJustified /\ Registered!ReadyIsAccepted
    <3>1. RegisteredInv /\ in \in Findings
      BY <2>1, PlanningAssumption DEF PlanInv, RegisteredInv
    <3>2. CASE saved = <<>>
      BY <3>2 DEF Registered!ReadyIsJustified, Registered!ReadyIsAccepted
    <3>3. ASSUME NEW t \in Nat \ {0}, saved = <<Edited!PreflightReport(in, config, t)>>
          PROVE  Registered!ReadyIsJustified /\ Registered!ReadyIsAccepted
      <4>1. DOMAIN saved = {1} /\ saved[1] = Edited!PreflightReport(in, config, t)
        BY <3>3
      <4>2. saved[1].at = t
        BY <4>1 DEF Edited!PreflightReport
      <4>3. saved[1].ready <=> Registered!Justified(in, t)
        BY <3>1, <4>1, ReadyMeansJustified, SameJustified
      <4>4. Registered!Accepts(saved[1], config) <=> saved[1].ready /\ saved[1].plan[1].config = config
        BY <3>1, <4>1, AcceptedIfReady, SameAccepts
      <4> QED BY <4>1, <4>2, <4>3, <4>4 DEF Registered!ReadyIsJustified, Registered!ReadyIsAccepted
    <3> QED BY <3>1, <3>2, <3>3 DEF RegisteredInv
  <2>2. ASSUME part = "edits" PROVE Edited!ReadyIsAccepted /\ Edited!PlanIsPreregistered
    <3>1. EditedInv
      BY <2>2 DEF PlanInv
    <3>2. CASE saved = <<>>
      BY <3>2 DEF Edited!ReadyIsAccepted, Edited!PlanIsPreregistered
    <3>3. ASSUME saved # <<>> PROVE Edited!ReadyIsAccepted /\ Edited!PlanIsPreregistered
      <4>1. PICK i \in FewInputs, c \in Configs, t \in Nat \ {0} :
                /\ t <= now /\ <<i, c, t>> \in ran
                /\ \/ edits = 0 /\ saved = <<Edited!PreflightReport(i, c, t)>>
                   \/ edits = 1 /\ \E e \in Edited!Edits(Edited!PreflightReport(i, c, t)) : saved = <<e>>
        BY <3>1, <3>3 DEF EditedInv
      <4>2. i \in Findings
        BY PlanningAssumption
      <4>3. DOMAIN saved = {1}
        BY <4>1
      <4>4. edits = 0 => Edited!Accepts(saved[1], config) <=> saved[1].ready /\ saved[1].plan[1].config = config
        BY <4>1, <4>2, AcceptedIfReady
      <4>5. ASSUME Edited!Accepts(saved[1], config)
            PROVE  /\ Edited!PreflightReport(i, c, t).ready /\ c = config
                   /\ saved[1].plan[1] = Edited!NewAssessmentPlan(i, c, t)
        <5>1. CASE edits = 0
          <6>1. saved[1] = Edited!PreflightReport(i, c, t)
            BY <5>1, <4>1
          <6>2. saved[1].plan # <<>> /\ saved[1].ready /\ saved[1].plan[1].config = config
            BY <4>5 DEF Edited!Accepts, Edited!validateReadyPreflightReport
          <6>3. saved[1].plan = <<Edited!NewAssessmentPlan(i, c, t)>>
            BY <6>1, <6>2 DEF Edited!PreflightReport
          <6>4. Edited!NewAssessmentPlan(i, c, t).config = c
            BY DEF Edited!NewAssessmentPlan
          <6> QED BY <6>1, <6>2, <6>3, <6>4
        <5>2. CASE edits = 1
          <6>1. PICK e \in Edited!Edits(Edited!PreflightReport(i, c, t)) : saved = <<e>>
            BY <5>2, <4>1
          <6>2. saved[1] = e
            BY <6>1
          <6> QED BY <6>2, <4>2, <4>5, EditsChangeNothing
        <5> QED BY <5>1, <5>2, <4>1
      <4>6. Edited!Accepts(saved[1], config) => Edited!Justified(i, t)
        BY <4>2, <4>5, ReadyMeansJustified
      <4>7. <<i, c, t>>[1] = i /\ <<i, c, t>>[2] = c /\ <<i, c, t>>[3] = t
        OBVIOUS
      <4> QED BY <4>1, <4>3, <4>4, <4>5, <4>6, <4>7 DEF Edited!ReadyIsAccepted, Edited!PlanIsPreregistered
    <3> QED BY <3>2, <3>3
  <2> QED BY <2>1, <2>2 DEF PreflightIsSound
<1> QED BY <1>1, PlanStays, PTL

-----------------------------------------------------------------------------
(* What the processes emit, the recorder keeps and the report reads.       *)

Written(event, session, at) == [event EXCEPT !.session = session, !.at = at]
Files == {"engine", "guard", "supervisor"}

\* An event that two sets of rules accept, the recorder's before it is written
\* and the report's after.
Sound(event) ==
    /\ Recordable(event)
    /\ \A session \in Sessions, at \in Nat :
           LET row == Written(event, session, at)
           IN  row.source \in Files /\ Reportable(row, row.source) /\ row.at = at

LEMMA ScopeIsOne == Scope \in Scopes
BY TrialAssumption DEF Scope

LEMMA BaseIsPath == Base \in PathNames /\ Base # ""
BY TrialAssumption DEF PathNames, Direct, Proxy

\* The observation of the winner, and of a path that failed by itself.
LEMMA WinnerValid ==
    ASSUME NEW path \in PathNames
    PROVE  LET o == Observation(path, TRUE, StageTLS, "")
           IN  ValidObservation(o) /\ o.path = path /\ o.success = TRUE /\ o.stage = 4
<1> DEFINE o == Observation(path, TRUE, StageTLS, "")
<1>1. o.path = path /\ o.success = TRUE /\ o.stage = 4
  BY DEF Observation, StageTLS
<1> HIDE DEF o
<1>2. ValidObservation(o)
  <2>1. o.path \in PathNames /\ o.stage >= 2
    BY <1>1
  <2>2. o.success
    BY <1>1
  <2> QED BY <2>1, <2>2 DEF ValidObservation, StageOutbound
<1> QED BY <1>1, <1>2 DEF o

LEMMA LoserValid ==
    ASSUME NEW path \in PathNames, NEW class, class # ""
    PROVE  ValidObservation(Observation(path, FALSE, StageOutbound, class))
<1> DEFINE o == Observation(path, FALSE, StageOutbound, class)
<1>1. o.path = path /\ o.success = FALSE /\ o.class = class
  BY DEF Observation
<1> HIDE DEF o
<1>2. ValidObservation(o)
  BY <1>1 DEF ValidObservation
<1> QED BY <1>2 DEF o

LEMMA OthersValid ==
    ASSUME NEW path \in PathNames, NEW other \in Others(path)
    PROVE  \A i \in 1 .. Len(other) : ValidObservation(other[i])
<1> DEFINE o == IF path = Direct THEN Proxy ELSE Direct
<1>1. o \in PathNames
  BY DEF PathNames
<1> HIDE DEF o
<1>2. \/ other = <<>>
      \/ other = <<Observation(o, FALSE, StageOutbound, "tls_failed")>>
      \/ other = <<Observation(o, FALSE, StageOutbound, "canceled")>>
      \/ other = <<Observation(o, TRUE, StageTLS, "")>>
  BY DEF Others, o
<1>3. /\ ValidObservation(Observation(o, FALSE, StageOutbound, "tls_failed"))
      /\ ValidObservation(Observation(o, FALSE, StageOutbound, "canceled"))
      /\ ValidObservation(Observation(o, TRUE, StageTLS, ""))
  BY <1>1, WinnerValid, LoserValid
<1>4. \A x : ValidObservation(x) => \A i \in 1 .. Len(<<x>>) : ValidObservation(<<x>>[i])
  OBVIOUS
<1>5. other # <<>> => \E x : ValidObservation(x) /\ other = <<x>>
  BY <1>2, <1>3
<1>6. Len(<<>>) = 0
  OBVIOUS
<1> QED BY <1>4, <1>5, <1>6

\* The SMT encoding does not take the empty string: what is said of it goes by
\* a name, and is proved without arithmetic.
ReasonKnown(row) == row.reason \in {"", "known"}
NoRelay(row) ==
    /\ row.up = <<>> /\ row.down = <<>> /\ row.took = <<>>
    /\ row.term = "" /\ row.ends = <<"", "">>
Targeted(row) == row.target # <<>> /\ \A i \in 1 .. Len(row.target) : row.target[i] \in Scopes
ObservationsValid(row) ==
    /\ \A i \in 1 .. Len(row.obs) : ValidObservation(row.obs[i])
    /\ \A i \in 1 .. Len(row.other) : ValidObservation(row.other[i])
ConnKnown(conn) == conn # "" => conn \in Conns

LEMMA OneTarget ==
    ASSUME NEW row, NEW s \in Scopes, row.target = <<s>>
    PROVE  Targeted(row)
BY DEF Targeted

LEMMA EngineRow ==
    ASSUME NEW row, row.source = "engine", row.schema = 5,
           row.type \in {"decision", "diagnostic", "relay_outcome"}, row.session \in Sessions,
           ConnKnown(row.conn), row.base = Base, ReasonKnown(row), Targeted(row),
           ObservationsValid(row), row.type # "relay_outcome" => NoRelay(row)
    PROVE  WellFormed(row, "engine")
<1>1. row.schema \in 1 .. SchemaVersion /\ row.schema >= 3 /\ row.schema >= 4
  BY DEF SchemaVersion
<1>2. row.type \in EventTypes /\ row.type \in TerminalTypes \cup {"relay_outcome"}
  BY DEF EventTypes, TerminalTypes
<1>3. row.base \in PathNames
  BY BaseIsPath
<1>4. row.session \in Sessions \cup {""}
  BY Zenon
<1> QED BY <1>1, <1>2, <1>3, <1>4, Zenon DEF WellFormed, Targeted, ObservationsValid, NoRelay, ConnKnown, ReasonKnown

LEMMA DecisionReportable ==
    ASSUME NEW row, NEW winner,
           row.type = "decision", row.path \in PathNames, row.reason = "known", row.target # <<>>,
           row.obs # <<>>, row.obs[1] = winner, Present(row.committed),
           winner.path = row.path, winner.success = TRUE, winner.stage = 4
    PROVE  Complete(row)
<1>1. winner.success /\ winner.stage >= StageTCP
  BY DEF StageTCP
<1>2. row.reason # ""
  OBVIOUS
<1> QED BY <1>1, <1>2, Zenon DEF Complete, Present

LEMMA DecisionSound ==
    ASSUME NEW conn, ConnKnown(conn), NEW path \in PathNames, NEW other \in Others(path), NEW took
    PROVE  Sound(DecisionEvent(conn, Scope, Base, path, other, took))
<1> DEFINE e == DecisionEvent(conn, Scope, Base, path, other, took)
<1>1. /\ e.conn = conn /\ e.base = Base /\ e.type = "decision" /\ e.ends = <<"", "">>
  BY DEF DecisionEvent, Empty
<1>2. Recordable(e)
  <2> HIDE DEF e
  <2>1. e.type \in TerminalTypes \cup {"relay_outcome"} /\ e.type # "relay_outcome"
    BY <1>1 DEF TerminalTypes
  <2> QED BY <1>1, <2>1, BaseIsPath, Zenon DEF Recordable, ConnKnown
<1>3. ASSUME NEW session \in Sessions, NEW at \in Nat
      PROVE  LET row == Written(e, session, at)
             IN  row.source \in Files /\ Reportable(row, row.source) /\ row.at = at
  <2> DEFINE row == Written(e, session, at)
             winner == Observation(path, TRUE, StageTLS, "")
  <2>1. /\ row.source = "engine" /\ row.at = at /\ row.schema = 5 /\ row.type = "decision"
        /\ row.session = session /\ row.conn = conn /\ row.base = Base /\ row.path = path
        /\ row.reason = "known" /\ row.target = <<Scope>> /\ row.other = other
    BY DEF Written, DecisionEvent, Empty, SchemaVersion
  <2>2. row.obs = <<winner>>
    BY DEF Written, DecisionEvent, Empty
  <2>3. Present(row.committed)
    <3>1. row.committed = <<TRUE>>
      BY DEF Written, DecisionEvent, Empty
    <3>2. <<TRUE>> # <<>>
      OBVIOUS
    <3> QED BY <3>1, <3>2, Zenon DEF Present
  <2>4. NoRelay(row)
    BY DEF Written, DecisionEvent, Empty, NoRelay
  <2>5. ValidObservation(winner) /\ winner.path = path /\ winner.success = TRUE /\ winner.stage = 4
    BY WinnerValid
  <2>6. \A i \in 1 .. Len(other) : ValidObservation(other[i])
    BY OthersValid
  <2>7. ReasonKnown(row)
    BY <2>1 DEF ReasonKnown
  <2> HIDE DEF row, winner
  <2>8. row.obs # <<>> /\ row.obs[1] = winner /\ ObservationsValid(row)
    BY <2>1, <2>2, <2>5, <2>6 DEF ObservationsValid
  <2>9. Targeted(row)
    BY <2>1, ScopeIsOne, OneTarget
  <2>10. Complete(row)
    BY <2>1, <2>3, <2>5, <2>8, <2>9, DecisionReportable DEF Targeted
  <2>11. WellFormed(row, "engine")
    BY <2>1, <2>4, <2>7, <2>8, <2>9, EngineRow
  <2> QED BY <2>1, <2>10, <2>11 DEF Reportable, Files, row
<1> QED BY <1>2, <1>3 DEF Sound

LEMMA DiagnosticSound ==
    ASSUME NEW conn, ConnKnown(conn)
    PROVE  Sound(DiagnosticEvent(conn, Scope, Base))
<1> DEFINE e == DiagnosticEvent(conn, Scope, Base)
<1>1. /\ e.conn = conn /\ e.base = Base /\ e.type = "diagnostic" /\ e.ends = <<"", "">>
  BY DEF DiagnosticEvent, Empty
<1>2. Recordable(e)
  <2> HIDE DEF e
  <2>1. e.type \in TerminalTypes \cup {"relay_outcome"} /\ e.type # "relay_outcome"
    BY <1>1 DEF TerminalTypes
  <2> QED BY <1>1, <2>1, BaseIsPath, Zenon DEF Recordable, ConnKnown
<1>3. ASSUME NEW session \in Sessions, NEW at \in Nat
      PROVE  LET row == Written(e, session, at)
             IN  row.source \in Files /\ Reportable(row, row.source) /\ row.at = at
  <2> DEFINE row == Written(e, session, at)
  <2>1. /\ row.source = "engine" /\ row.at = at /\ row.schema = 5 /\ row.type = "diagnostic"
        /\ row.session = session /\ row.conn = conn /\ row.base = Base
        /\ row.reason = "known" /\ row.target = <<Scope>> /\ row.obs = <<>> /\ row.other = <<>>
    BY DEF Written, DiagnosticEvent, Empty, SchemaVersion
  <2>2. NoRelay(row)
    BY DEF Written, DiagnosticEvent, Empty, NoRelay
  <2>3. ReasonKnown(row)
    BY <2>1 DEF ReasonKnown
  <2>4. row.reason # ""
    BY <2>1
  <2> HIDE DEF row
  <2>5. ObservationsValid(row)
    BY <2>1 DEF ObservationsValid
  <2>6. Targeted(row)
    BY <2>1, ScopeIsOne, OneTarget
  <2>7. WellFormed(row, "engine")
    BY <2>1, <2>2, <2>3, <2>5, <2>6, EngineRow
  <2>8. row.target # <<>> /\ row.type = "diagnostic"
    BY <2>1, <2>6 DEF Targeted
  <2>9. Complete(row)
    BY <2>4, <2>8, Zenon DEF Complete, Present
  <2> QED BY <2>1, <2>7, <2>9 DEF Reportable, Files, row
<1> QED BY <1>2, <1>3 DEF Sound

\* The directional ends of a relay, by whether it was canceled.
LEMMA EndsAre ==
    ASSUME NEW canceled \in BOOLEAN, NEW ends, \A i \in {1, 2} : ends[i] \in EndReasons \ {"canceled"},
           NEW row, row.ends = RelayEnds(canceled, ends),
           row.term = IF canceled THEN "canceled" ELSE "ended"
    PROVE  /\ \A i \in {1, 2} : row.ends[i] \in EndReasons
           /\ row.term \in {"ended", "canceled"}
           /\ CanceledConsistently(row)
<1>1. CASE canceled
  <2>1. row.ends = <<"canceled", "canceled">> /\ row.term = "canceled"
    BY <1>1 DEF RelayEnds
  <2>2. \A i \in {1, 2} : <<"canceled", "canceled">>[i] = "canceled"
    OBVIOUS
  <2>3. \A i \in {1, 2} : row.ends[i] = "canceled"
    BY <2>1, <2>2
  <2>4. "canceled" \in EndReasons
    BY DEF EndReasons
  <2>5. row.term # "ended"
    BY <2>1
  <2> QED BY <2>1, <2>3, <2>4, <2>5, Zenon DEF CanceledConsistently
<1>2. CASE ~canceled
  <2>1. row.ends = ends /\ row.term = "ended"
    BY <1>2 DEF RelayEnds
  <2>2. row.term # "canceled"
    BY <2>1
  <2>3. \A i \in {1, 2} : row.ends[i] \in EndReasons /\ row.ends[i] # "canceled"
    BY <2>1, Zenon
  <2> QED BY <2>1, <2>2, <2>3, Zenon DEF CanceledConsistently
<1> QED BY <1>1, <1>2

LEMMA RelaySound ==
    ASSUME NEW conn, ConnKnown(conn), NEW path \in PathNames,
           NEW up \in Nat, NEW down \in Nat, NEW took \in Nat, NEW canceled \in BOOLEAN,
           NEW ends, \A i \in {1, 2} : ends[i] \in EndReasons \ {"canceled"}
    PROVE  Sound(RelayEvent(conn, Scope, Base, path, up, down, took, canceled, ends))
<1> DEFINE e == RelayEvent(conn, Scope, Base, path, up, down, took, canceled, ends)
<1>1. /\ e.conn = conn /\ e.base = Base /\ e.type = "relay_outcome" /\ e.ends = RelayEnds(canceled, ends)
      /\ e.term = IF canceled THEN "canceled" ELSE "ended"
  BY DEF RelayEvent, Empty
<1>2. Recordable(e)
  <2> HIDE DEF e
  <2>1. /\ \A i \in {1, 2} : e.ends[i] \in EndReasons
        /\ e.term \in {"ended", "canceled"}
        /\ CanceledConsistently(e)
    BY <1>1, EndsAre
  <2>2. e.type \in TerminalTypes \cup {"relay_outcome"}
    BY <1>1, Zenon
  <2> QED BY <1>1, <2>1, <2>2, BaseIsPath, Zenon DEF Recordable, ConnKnown
<1>3. ASSUME NEW session \in Sessions, NEW at \in Nat
      PROVE  LET row == Written(e, session, at)
             IN  row.source \in Files /\ Reportable(row, row.source) /\ row.at = at
  <2> DEFINE row == Written(e, session, at)
  <2>1. /\ row.source = "engine" /\ row.at = at /\ row.schema = 5 /\ row.type = "relay_outcome"
        /\ row.session = session /\ row.conn = conn /\ row.base = Base /\ row.path = path
        /\ row.target = <<Scope>> /\ row.obs = <<>> /\ row.other = <<>>
        /\ row.up = <<up>> /\ row.down = <<down>> /\ row.took = <<took>>
    BY DEF Written, RelayEvent, Empty, SchemaVersion
  <2>2. /\ row.ends = RelayEnds(canceled, ends)
        /\ row.term = IF canceled THEN "canceled" ELSE "ended"
    BY DEF Written, RelayEvent, Empty
  <2>3. ReasonKnown(row)
    BY DEF Written, RelayEvent, Empty, ReasonKnown
  <2> HIDE DEF row
  <2>4. /\ \A i \in {1, 2} : row.ends[i] \in EndReasons
        /\ row.term \in {"ended", "canceled"}
        /\ CanceledConsistently(row)
    BY <2>2, EndsAre
  <2>5. ObservationsValid(row)
    BY <2>1 DEF ObservationsValid
  <2>6. Targeted(row)
    BY <2>1, ScopeIsOne, OneTarget
  <2>7. WellFormed(row, "engine")
    BY <2>1, <2>3, <2>5, <2>6, EngineRow
  <2>8. row.schema >= 2 /\ ~(row.schema < SchemaVersion)
    BY <2>1 DEF SchemaVersion
  <2>9. Present(row.target) /\ Present(row.up) /\ Present(row.down) /\ Present(row.took)
    <3>1. \A x : <<x>> # <<>>
      OBVIOUS
    <3> QED BY <2>1, <3>1, Zenon DEF Present
  <2>12. row.up[1] \in Nat /\ row.down[1] \in Nat /\ row.took[1] \in Nat
    BY <2>1
  <2>10. row.type # "decision" /\ row.type \notin {"diagnostic", "durable_learning_assessment"}
         /\ row.type # "guard_decision" /\ row.type # "learning_health" /\ row.type # "supervisor"
    BY <2>1
  <2>11. Complete(row)
    BY <2>1, <2>4, <2>8, <2>9, <2>12, <2>10, Zenon DEF Complete
  <2> QED BY <2>1, <2>7, <2>11 DEF Reportable, Files, row
<1> QED BY <1>2, <1>3 DEF Sound

\* An event that belongs to no connection names no connection and no original
\* path, and carries nothing of a relay.
Apart(row) == row.conn = "" /\ row.base = "" /\ NoRelay(row)

LEMMA ApartRow ==
    ASSUME NEW row, row.schema = 5, row.type \in EventTypes, row.session \in Sessions,
           Apart(row), ReasonKnown(row), \A i \in 1 .. Len(row.target) : row.target[i] \in Scopes,
           row.obs = <<>>, row.other = <<>>
    PROVE  WellFormed(row, row.source)
<1>1. row.schema \in 1 .. SchemaVersion
  BY DEF SchemaVersion
<1>2. /\ \A i \in 1 .. Len(row.obs) : ValidObservation(row.obs[i])
      /\ \A i \in 1 .. Len(row.other) : ValidObservation(row.other[i])
  OBVIOUS
<1> QED BY <1>1, <1>2, Zenon DEF WellFormed, Apart, NoRelay, ReasonKnown

\* What the row of such an event holds.
Carries(event, row, session, at) ==
    /\ row.source = event.source /\ row.type = event.type /\ row.target = event.target
    /\ row.session = session /\ row.at = at /\ row.schema = 5
    /\ row.committed = event.committed /\ row.reason = event.reason
    /\ row.obs = <<>> /\ row.other = <<>>
    /\ Apart(row) /\ ReasonKnown(row)

\* Such an event, of a type that is not a relay's, is sound if its row is complete.
LEMMA ApartSound ==
    ASSUME NEW event, event.type \in EventTypes, event.type # "relay_outcome", event.source \in Files,
           \A i \in 1 .. Len(event.target) : event.target[i] \in Scopes, Complete(event),
           \A session, at : Carries(event, Written(event, session, at), session, at),
           Apart(event), event.type \in {"guard_decision", "supervisor", "learning_health", "durable_learning_assessment"}
    PROVE  Sound(event)
<1>1. Recordable(event)
  BY Zenon DEF Recordable, Apart, NoRelay
<1>2. ASSUME NEW session \in Sessions, NEW at \in Nat
      PROVE  LET row == Written(event, session, at)
             IN  row.source \in Files /\ Reportable(row, row.source) /\ row.at = at
  <2> DEFINE row == Written(event, session, at)
  <2>1. /\ row.source = event.source /\ row.type = event.type /\ row.target = event.target
        /\ row.session = session /\ row.at = at /\ row.schema = 5
        /\ row.committed = event.committed /\ row.reason = event.reason
        /\ row.obs = <<>> /\ row.other = <<>>
        /\ Apart(row) /\ ReasonKnown(row)
    BY DEF Carries
  <2> HIDE DEF row
  <2>2. WellFormed(row, row.source)
    BY <2>1, ApartRow
  <2>3. Complete(row)
    <3>1. row.type # "decision" /\ row.type # "diagnostic" /\ row.type # "relay_outcome"
      BY <2>1
    <3> QED BY <2>1, <3>1, Zenon DEF Complete
  <2> QED BY <2>1, <2>2, <2>3 DEF Reportable, row
<1> QED BY <1>1, <1>2 DEF Sound

LEMMA GuardSound ==
    ASSUME NEW s \in Scopes, NEW lane
    PROVE  Sound(GuardEvent(s, lane))
<1> DEFINE e == GuardEvent(s, lane)
<1>1. /\ e.type = "guard_decision" /\ e.source = "guard" /\ e.target = <<s>> /\ e.reason = "known"
  BY DEF GuardEvent, Empty
<1>2. Present(e.committed)
  <2>1. e.committed = <<lane # "">>
    BY DEF GuardEvent, Empty
  <2>2. \A x : <<x>> # <<>>
    OBVIOUS
  <2> QED BY <2>1, <2>2, Zenon DEF Present
<1>3. Apart(e)
  BY DEF GuardEvent, Empty, Apart, NoRelay
<1>4. ASSUME NEW session, NEW at
      PROVE  Carries(e, Written(e, session, at), session, at)
  BY DEF Carries, Written, GuardEvent, Empty, SchemaVersion, Apart, NoRelay, ReasonKnown
<1> HIDE DEF e
<1>5. e.type \in EventTypes /\ e.type # "relay_outcome" /\ e.source \in Files
  BY <1>1 DEF EventTypes, Files
<1>6. Targeted(e)
  BY <1>1, OneTarget
<1>7. Complete(e)
  <2>1. e.reason # ""
    BY <1>1
  <2> QED BY <1>1, <1>2, <1>6, <2>1, Zenon DEF Complete, Present, Targeted
<1>8. e.type \in {"guard_decision", "supervisor", "learning_health", "durable_learning_assessment"}
  BY <1>1
<1> QED BY <1>3, <1>4, <1>5, <1>6, <1>7, <1>8, ApartSound DEF Targeted, e

LEMMA SupervisorSound == Sound(SupervisorEvent)
<1> DEFINE e == SupervisorEvent
<1>1. e.type = "supervisor" /\ e.source = "supervisor" /\ e.target = <<>>
  BY DEF SupervisorEvent, Empty
<1>2. Apart(e)
  BY DEF SupervisorEvent, Empty, Apart, NoRelay
<1>3. ASSUME NEW session, NEW at
      PROVE  Carries(e, Written(e, session, at), session, at)
  BY DEF Carries, Written, SupervisorEvent, Empty, SchemaVersion, Apart, NoRelay, ReasonKnown
<1> HIDE DEF e
<1>4. e.type \in EventTypes /\ e.type # "relay_outcome" /\ e.source \in Files
  BY <1>1 DEF EventTypes, Files
<1>5. \A i \in 1 .. Len(e.target) : e.target[i] \in Scopes
  BY <1>1
<1>6. Complete(e)
  BY <1>1 DEF Complete
<1>7. e.type \in {"guard_decision", "supervisor", "learning_health", "durable_learning_assessment"}
  BY <1>1
<1> QED BY <1>2, <1>3, <1>4, <1>5, <1>6, <1>7, ApartSound DEF e

LEMMA HealthSound ==
    ASSUME NEW target, \A i \in 1 .. Len(target) : target[i] \in Scopes
    PROVE  Sound(HealthEvent(target))
<1> DEFINE e == HealthEvent(target)
<1>1. e.type = "learning_health" /\ e.source = "engine" /\ e.target = target /\ e.reason = "known"
  BY DEF HealthEvent, Empty
<1>2. Apart(e)
  BY DEF HealthEvent, Empty, Apart, NoRelay
<1>3. ASSUME NEW session, NEW at
      PROVE  Carries(e, Written(e, session, at), session, at)
  BY DEF Carries, Written, HealthEvent, Empty, SchemaVersion, Apart, NoRelay, ReasonKnown
<1> HIDE DEF e
<1>4. e.type \in EventTypes /\ e.type # "relay_outcome" /\ e.source \in Files
  BY <1>1 DEF EventTypes, Files
<1>5. \A i \in 1 .. Len(e.target) : e.target[i] \in Scopes
  BY <1>1
<1>6. Complete(e)
  <2>1. e.reason # ""
    BY <1>1
  <2> QED BY <1>1, <2>1, Zenon DEF Complete
<1>7. e.type \in {"guard_decision", "supervisor", "learning_health", "durable_learning_assessment"}
  BY <1>1
<1> QED BY <1>2, <1>3, <1>4, <1>5, <1>6, <1>7, ApartSound DEF e

LEMMA AssessmentSound ==
    ASSUME NEW s \in Scopes
    PROVE  Sound(AssessmentEvent(s))
<1> DEFINE e == AssessmentEvent(s)
<1>1. /\ e.type = "durable_learning_assessment" /\ e.source = "engine" /\ e.target = <<s>>
      /\ e.reason = "known"
  BY DEF AssessmentEvent, Empty
<1>2. Apart(e)
  BY DEF AssessmentEvent, Empty, Apart, NoRelay
<1>3. ASSUME NEW session, NEW at
      PROVE  Carries(e, Written(e, session, at), session, at)
  BY DEF Carries, Written, AssessmentEvent, Empty, SchemaVersion, Apart, NoRelay, ReasonKnown
<1> HIDE DEF e
<1>4. e.type \in EventTypes /\ e.type # "relay_outcome" /\ e.source \in Files
  BY <1>1 DEF EventTypes, Files
<1>5. Targeted(e)
  BY <1>1, OneTarget
<1>6. Complete(e)
  <2>1. e.reason # ""
    BY <1>1
  <2> QED BY <1>1, <1>5, <2>1, Zenon DEF Complete, Present, Targeted
<1>7. e.type \in {"guard_decision", "supervisor", "learning_health", "durable_learning_assessment"}
  BY <1>1
<1> QED BY <1>2, <1>3, <1>4, <1>5, <1>6, <1>7, ApartSound DEF Targeted, e

LEMMA EventSound ==
    ASSUME NEW e \in Events
    PROVE  Sound(e[2]) /\ e[1] \in Sessions
<1>1. e[1] \in Sessions
  BY TrialAssumption
<1>2. CASE e[2] = SupervisorEvent
  BY <1>1, <1>2, SupervisorSound
<1>3. ASSUME NEW s \in Scopes, NEW lane, e[2] = GuardEvent(s, lane) PROVE Sound(e[2])
  BY <1>3, GuardSound
<1>4. ASSUME NEW s \in Scopes, e[2] \in {HealthEvent(<<>>), HealthEvent(<<s>>), AssessmentEvent(s)}
      PROVE  Sound(e[2])
  <2>1. \A i \in 1 .. Len(<<>>) : <<>>[i] \in Scopes
    OBVIOUS
  <2>2. \A i \in 1 .. Len(<<s>>) : <<s>>[i] \in Scopes
    OBVIOUS
  <2>3. Sound(HealthEvent(<<>>)) /\ Sound(HealthEvent(<<s>>))
    BY <2>1, <2>2, HealthSound
  <2> QED BY <1>4, <2>3, AssessmentSound
<1>5. \/ e[2] = SupervisorEvent
      \/ \E s \in Scopes : \/ \E lane \in {"adaptive", "original", ""} : e[2] = GuardEvent(s, lane)
                           \/ e[2] \in {HealthEvent(<<>>), HealthEvent(<<s>>), AssessmentEvent(s)}
  BY TrialAssumption, Zenon
<1> QED BY <1>1, <1>2, <1>3, <1>4, <1>5, Zenon

\* A row of the file of source s at time t, and a file of such rows.
RowOk(row, s, t) ==
    /\ Reportable(row, s)
    /\ row.at \in 0 .. t
    /\ row.at = 0 => row.schema < SchemaVersion
FileOk(file, s, t) ==
    /\ file \in Seq(Held(file))
    /\ \A i \in DOMAIN file : RowOk(file[i], s, t)
FilesOk(files, t) ==
    /\ DOMAIN files = Files
    /\ \A s \in Files : FileOk(files[s], s, t)

LEMMA HoldsItself ==
    ASSUME NEW S, NEW s \in Seq(S)
    PROVE  s \in Seq(Held(s))
<1>1. DOMAIN s = 1 .. Len(s) /\ Len(s) \in Nat
  OBVIOUS
<1>2. \A i \in 1 .. Len(s) : s[i] \in Held(s)
  BY <1>1 DEF Held
<1>3. s \in [1 .. Len(s) -> Held(s)]
  BY <1>1, <1>2
<1> QED BY <1>1, <1>3

LEMMA EmptyFile ==
    ASSUME NEW s, NEW t
    PROVE  FileOk(<<>>, s, t)
<1>1. <<>> \in Seq(Held(<<>>)) /\ DOMAIN <<>> = {}
  OBVIOUS
<1> QED BY <1>1 DEF FileOk

LEMMA FileGrows ==
    ASSUME NEW file, NEW s, NEW t, FileOk(file, s, t), NEW row, RowOk(row, s, t)
    PROVE  FileOk(Append(file, row), s, t)
<1> DEFINE w == Append(file, row)
<1>1. file \in Seq(Held(file)) /\ \A i \in DOMAIN file : RowOk(file[i], s, t)
  BY DEF FileOk
<1>2. file \in Seq(Held(file) \cup {row})
  BY <1>1
<1>3. w \in Seq(Held(file) \cup {row}) /\ DOMAIN w = 1 .. Len(file) + 1 /\ Len(file) \in Nat
      /\ DOMAIN file = 1 .. Len(file)
  BY <1>2
<1>4. w[Len(file) + 1] = row /\ \A i \in 1 .. Len(file) : w[i] = file[i]
  BY <1>2
<1> HIDE DEF w
<1>5. \A i \in DOMAIN w : i \in DOMAIN file \/ i = Len(file) + 1
  BY <1>3
<1>6. \A i \in DOMAIN w : RowOk(w[i], s, t)
  BY <1>1, <1>3, <1>4, <1>5
<1>7. w \in Seq(Held(w))
  BY <1>3, HoldsItself
<1> QED BY <1>6, <1>7 DEF FileOk, w

LEMMA FileShrinks ==
    ASSUME NEW file, NEW s, NEW t, FileOk(file, s, t), file # <<>>
    PROVE  FileOk(Tail(file), s, t) /\ RowOk(Head(file), s, t)
<1> DEFINE w == Tail(file)
<1>1. file \in Seq(Held(file)) /\ \A i \in DOMAIN file : RowOk(file[i], s, t)
  BY DEF FileOk
<1>2. w \in Seq(Held(file)) /\ DOMAIN w = 1 .. Len(file) - 1 /\ Len(file) \in Nat \ {0}
      /\ DOMAIN file = 1 .. Len(file)
  BY <1>1
<1>3. Head(file) = file[1] /\ \A i \in 1 .. Len(file) - 1 : w[i] = file[i + 1]
  BY <1>1, <1>2
<1> HIDE DEF w
<1>4. \A i \in DOMAIN w : i + 1 \in DOMAIN file
  BY <1>2
<1>5. \A i \in DOMAIN w : RowOk(w[i], s, t)
  BY <1>1, <1>2, <1>3, <1>4
<1>6. w \in Seq(Held(w))
  BY <1>2, HoldsItself
<1>7. RowOk(Head(file), s, t)
  BY <1>1, <1>2, <1>3
<1> QED BY <1>5, <1>6, <1>7 DEF FileOk, w

LEMMA FilesLast ==
    ASSUME NEW files, NEW t \in Nat, FilesOk(files, t)
    PROVE  FilesOk(files, t + 1)
BY DEF FilesOk, FileOk, RowOk

LEMMA BoundsAre == MaxTime \in Nat /\ MaxTime # 0 /\ MaxOther \in Nat
<1>1. MaxTime \in Nat \ {0} /\ {MaxOther, Window, MaxInt64, MinCommittedSelections} \subseteq Nat
  BY TrialAssumption, Zenon
<1> QED BY <1>1

\* A sound event leaves the recorder a row that the report reads, or nothing.
LEMMA EmitKeeps ==
    ASSUME now \in 1 .. MaxTime, FilesOk(dir, now), lost \in 0 .. MaxTime, refused = FALSE,
           NEW session \in Sessions, NEW event, Sound(event), Emit(session, event)
    PROVE  FilesOk(dir', now) /\ lost' \in 0 .. MaxTime /\ refused' = FALSE
<1> DEFINE row == Written(event, session, now)
<1>0. now \in Nat /\ now \in 0 .. MaxTime /\ now # 0
  BY BoundsAre
<1>1. Recordable(event) /\ row.source \in Files /\ Reportable(row, row.source) /\ row.at = now
  BY <1>0, Zenon DEF Sound
<1>2. /\ paused => lost' = now /\ dir' = dir /\ refused' = refused
      /\ ~paused => /\ dir' = [dir EXCEPT ![row.source] = Append(@, row)]
                    /\ lost' = lost /\ refused' = refused
  BY <1>1, Zenon DEF Emit, Written
<1> HIDE DEF row
<1>3. CASE paused
  BY <1>0, <1>2, <1>3
<1>4. CASE ~paused
  <2>1. RowOk(row, row.source, now)
    BY <1>0, <1>1 DEF RowOk
  <2>2. FileOk(Append(dir[row.source], row), row.source, now)
    BY <1>1, <2>1, FileGrows DEF FilesOk
  <2>3. DOMAIN dir' = Files /\ \A s \in Files : FileOk(dir'[s], s, now)
    BY <1>1, <1>2, <1>4, <2>2 DEF FilesOk
  <2> QED BY <1>2, <1>4, <2>3 DEF FilesOk
<1> QED BY <1>3, <1>4

-----------------------------------------------------------------------------
(* What holds of a recorded trial whenever one is watched.                 *)

Fields == {"st", "id", "session", "path", "at", "up", "down", "canceled", "ended"}
IdOk(id, c) == id \in {c, ""}
ConnOk(r, c) ==
    /\ DOMAIN r = Fields /\ IdOk(r.id, c)
    /\ r.st \in {"idle", "open", "failed", "gone", "ended"}
    /\ r.st = "open" => r.path \in PathNames

\* Only a running engine has open connections, and it runs under a session.
ConnsOk ==
    /\ engine \in {"planned", "stray", "down"}
    /\ DOMAIN conns = Conns /\ \A c \in Conns : ConnOk(conns[c], c)
    /\ engine = "down" => \A c \in Conns : conns[c].st # "open"

EngineInv ==
    /\ now \in 1 .. MaxTime /\ paused \in BOOLEAN /\ others \in 0 .. MaxOther
    /\ lost \in 0 .. MaxTime /\ refused = FALSE
    /\ ConnsOk /\ FilesOk(dir, now)

LEMMA SessionsAre == engine \in {"planned", "stray"} => engine \in Sessions
<1>1. {"planned", "stray"} \subseteq Sessions
  BY TrialAssumption, Zenon
<1> QED BY <1>1

LEMMA IdleOk == \A c : ConnOk(Idle, c) /\ Idle.st = "idle"
BY DEF ConnOk, Idle, Fields, IdOk

LEMMA SourcesAre == {Sources[i] : i \in DOMAIN Sources} = Files
BY DEF Sources, Files

LEMMA LegacyOk ==
    ASSUME NEW rows \in Legacy
    PROVE  FileOk(rows, "engine", 1)
<1>1. /\ rows \in Seq({rows[i] : i \in DOMAIN rows})
      /\ \A i \in DOMAIN rows :
            rows[i].at = 0 /\ rows[i].schema < SchemaVersion /\ Reportable(rows[i], "engine")
  BY TrialAssumption, Zenon
<1>2. rows \in Seq(Held(rows))
  BY <1>1 DEF Held
<1>3. \A i \in DOMAIN rows : RowOk(rows[i], "engine", 1)
  BY <1>1 DEF RowOk
<1> QED BY <1>2, <1>3 DEF FileOk

LEMMA EngineInit == Init => EngineInv
<1> SUFFICES ASSUME Init PROVE EngineInv
  OBVIOUS
<1>1. /\ now = 1 /\ engine = "down" /\ paused \in BOOLEAN /\ others = 0 /\ lost = 0 /\ refused = FALSE
      /\ conns = [c \in Conns |-> Idle]
  BY DEF Init
<1>2. PICK rows \in Legacy : dir = [s \in Files |-> IF s = "engine" THEN rows ELSE <<>>]
  BY SourcesAre DEF Init
<1>3. FilesOk(dir, now)
  BY <1>1, <1>2, LegacyOk, EmptyFile DEF FilesOk
<1>4. ConnsOk
  BY <1>1, IdleOk DEF ConnsOk
<1> QED BY <1>1, <1>3, <1>4, BoundsAre DEF EngineInv

\* A connection of a running engine changes, and what is emitted is sound.
LEMMA ConnStep ==
    ASSUME EngineInv, NEW c \in Conns, engine # "down", NEW r, ConnOk(r, c),
           conns' = [conns EXCEPT ![c] = r], NEW event, Sound(event), Emit(engine, event),
           UNCHANGED <<now, engine, paused, others>>
    PROVE  EngineInv'
<1>1. engine \in Sessions
  BY SessionsAre DEF EngineInv, ConnsOk
<1>2. FilesOk(dir', now) /\ lost' \in 0 .. MaxTime /\ refused' = FALSE
  BY <1>1, EmitKeeps DEF EngineInv
<1>3. ConnsOk'
  BY DEF EngineInv, ConnsOk
<1> QED BY <1>2, <1>3 DEF EngineInv

LEMMA IdKnown ==
    ASSUME NEW c \in Conns, NEW id, IdOk(id, c)
    PROVE  ConnKnown(id)
BY Zenon DEF ConnKnown, IdOk

LEMMA DecideKeeps ==
    ASSUME EngineInv, NEW c \in Conns, NEW id, NEW d \in Decisions, Decide(c, id, d[1], d[2], d[3])
    PROVE  EngineInv'
<1> DEFINE r == [Idle EXCEPT !.st = "open", !.id = id, !.session = engine, !.path = d[1], !.at = now]
           e == DecisionEvent(id, Scope, Base, d[1], d[2], d[3])
<1>1. /\ engine # "down" /\ conns' = [conns EXCEPT ![c] = r] /\ Emit(engine, e)
      /\ UNCHANGED <<now, engine, paused, others>>
  BY DEF Decide
<1>2. IdOk(id, c)
  BY Zenon DEF Decide, IdOk
<1>3. d[1] \in PathNames /\ d[2] \in Others(d[1])
  BY TrialAssumption, Zenon
<1>4. Sound(e)
  BY <1>2, <1>3, IdKnown, DecisionSound
<1>5. ConnOk(r, c)
  BY <1>2, <1>3 DEF ConnOk, Idle, Fields
<1> HIDE DEF r, e
<1> QED BY <1>1, <1>4, <1>5, ConnStep

LEMMA FailKeeps ==
    ASSUME EngineInv, NEW c \in Conns, NEW id, Fail(c, id)
    PROVE  EngineInv'
<1> DEFINE r == [Idle EXCEPT !.st = "failed", !.id = id, !.session = engine, !.at = now]
           e == DiagnosticEvent(id, Scope, Base)
<1>1. /\ engine # "down" /\ conns' = [conns EXCEPT ![c] = r] /\ Emit(engine, e)
      /\ UNCHANGED <<now, engine, paused, others>>
  BY DEF Fail
<1>2. IdOk(id, c)
  BY Zenon DEF Fail, IdOk
<1>3. Sound(e)
  BY <1>2, IdKnown, DiagnosticSound
<1>4. ConnOk(r, c)
  BY <1>2 DEF ConnOk, Idle, Fields
<1> HIDE DEF r, e
<1> QED BY <1>1, <1>3, <1>4, ConnStep

LEMMA RelayKeeps ==
    ASSUME EngineInv, NEW c \in Conns, NEW e \in Endings, RelayEnded(c, e[1], e[2], e[3], e[4], e[5])
    PROVE  EngineInv'
<1> DEFINE r == [conns[c] EXCEPT !.st = "ended", !.up = e[1], !.down = e[2],
                                 !.canceled = e[4], !.ended = now]
           event == RelayEvent(conns[c].id, Scope, Base, conns[c].path, e[1], e[2], e[3], e[4], e[5])
<1>1. /\ conns[c].st = "open" /\ conns' = [conns EXCEPT ![c] = r] /\ Emit(engine, event)
      /\ UNCHANGED <<now, engine, paused, others>>
  BY Zenon DEF RelayEnded
<1>2. ConnOk(conns[c], c) /\ engine # "down"
  BY <1>1 DEF EngineInv, ConnsOk
<1>3. IdOk(conns[c].id, c) /\ conns[c].path \in PathNames
  BY <1>1, <1>2 DEF ConnOk
<1>4. /\ e[1] \in Nat /\ e[2] \in Nat /\ e[3] \in Nat /\ e[4] \in BOOLEAN
      /\ \A i \in {1, 2} : e[5][i] \in EndReasons \ {"canceled"}
  BY TrialAssumption, Zenon
<1>5. Sound(event)
  BY <1>3, <1>4, IdKnown, RelaySound
<1>6. ConnOk(r, c)
  BY <1>2 DEF ConnOk, Fields
<1> HIDE DEF r, event
<1> QED BY <1>1, <1>2, <1>5, <1>6, ConnStep

LEMMA OtherKeeps ==
    ASSUME EngineInv, NEW e \in Events, OtherEmits(e[1], e[2])
    PROVE  EngineInv'
<1>1. others < MaxOther /\ others' = others + 1 /\ Emit(e[1], e[2]) /\ UNCHANGED <<now, engine, conns, paused>>
  BY DEF OtherEmits
<1>2. Sound(e[2]) /\ e[1] \in Sessions
  BY EventSound
<1>3. FilesOk(dir', now) /\ lost' \in 0 .. MaxTime /\ refused' = FALSE
  BY <1>1, <1>2, EmitKeeps DEF EngineInv
<1>4. ConnsOk'
  BY <1>1 DEF EngineInv, ConnsOk
<1>5. others' \in 0 .. MaxOther
  BY <1>1, BoundsAre DEF EngineInv
<1> QED BY <1>1, <1>3, <1>4, <1>5 DEF EngineInv

LEMMA KillKeeps == EngineInv /\ Kill => EngineInv'
<1> SUFFICES ASSUME EngineInv, Kill PROVE EngineInv'
  OBVIOUS
<1>1. /\ engine' = "down" /\ UNCHANGED <<now, dir, paused, others, lost, refused>>
      /\ conns' = [c \in Conns |-> IF conns[c].st = "open" THEN [conns[c] EXCEPT !.st = "gone"] ELSE conns[c]]
  BY DEF Kill
<1>2. ASSUME NEW c \in Conns PROVE ConnOk(conns'[c], c) /\ conns'[c].st # "open"
  <2>1. ConnOk(conns[c], c)
    BY DEF EngineInv, ConnsOk
  <2>2. CASE conns[c].st = "open"
    BY <1>1, <2>1, <2>2 DEF ConnOk, Fields
  <2>3. CASE conns[c].st # "open"
    BY <1>1, <2>1, <2>3
  <2> QED BY <2>2, <2>3
<1>3. ConnsOk'
  BY <1>1, <1>2 DEF ConnsOk
<1> QED BY <1>1, <1>3 DEF EngineInv

LEMMA PruneKeeps == EngineInv /\ Prune => EngineInv'
<1> SUFFICES ASSUME EngineInv, Prune PROVE EngineInv'
  OBVIOUS
<1> DEFINE file == dir["engine"]
<1>1. /\ file # <<>> /\ dir' = [dir EXCEPT !["engine"] = Tail(file)]
      /\ lost' = Max2(lost, Head(file).at)
      /\ UNCHANGED <<now, engine, conns, paused, others, refused>>
  BY DEF Prune
<1>2. "engine" \in Files /\ FileOk(file, "engine", now) /\ DOMAIN dir = Files
  BY DEF EngineInv, FilesOk, Files
<1>3. FileOk(Tail(file), "engine", now) /\ RowOk(Head(file), "engine", now)
  BY <1>1, <1>2, FileShrinks
<1> HIDE DEF file
<1>4. FilesOk(dir', now)
  BY <1>1, <1>2, <1>3 DEF EngineInv, FilesOk
<1>5. lost' \in 0 .. MaxTime
  BY <1>1, <1>3, BoundsAre DEF EngineInv, RowOk, Max2
<1>6. ConnsOk'
  BY <1>1 DEF EngineInv, ConnsOk
<1> QED BY <1>1, <1>4, <1>5, <1>6 DEF EngineInv

LEMMA ClearKeeps == EngineInv /\ Clear => EngineInv'
<1> SUFFICES ASSUME EngineInv, Clear PROVE EngineInv'
  OBVIOUS
<1>1. /\ dir' = [s \in DOMAIN dir |-> <<>>] /\ lost' = now
      /\ UNCHANGED <<now, engine, conns, paused, others, refused>>
  BY DEF Clear
<1>2. FilesOk(dir', now)
  BY <1>1, EmptyFile DEF EngineInv, FilesOk
<1>3. lost' \in 0 .. MaxTime
  BY <1>1, BoundsAre DEF EngineInv
<1>4. ConnsOk'
  BY <1>1 DEF EngineInv, ConnsOk
<1> QED BY <1>1, <1>2, <1>3, <1>4 DEF EngineInv

LEMMA TickKeeps == EngineInv /\ Tick => EngineInv'
<1> SUFFICES ASSUME EngineInv, Tick PROVE EngineInv'
  OBVIOUS
<1>1. now < MaxTime /\ now' = now + 1 /\ UNCHANGED <<engine, conns, dir, paused, others, lost, refused>>
  BY DEF Tick
<1>2. now' \in 1 .. MaxTime /\ now \in Nat
  BY <1>1, BoundsAre DEF EngineInv
<1>3. FilesOk(dir, now + 1)
  BY <1>2, FilesLast DEF EngineInv
<1>4. FilesOk(dir', now')
  BY <1>1, <1>3
<1>5. ConnsOk'
  BY <1>1 DEF EngineInv, ConnsOk
<1> QED BY <1>1, <1>2, <1>4, <1>5 DEF EngineInv

LEMMA StartKeeps == ASSUME EngineInv, NEW s \in {"planned", "stray"}, Start(s) PROVE EngineInv'
<1>1. engine' = s /\ UNCHANGED <<now, conns, dir, paused, others, lost, refused>>
  BY DEF Start
<1>2. ConnsOk'
  BY <1>1 DEF EngineInv, ConnsOk
<1> QED BY <1>1, <1>2 DEF EngineInv

LEMMA EngineNext == EngineInv /\ Next => EngineInv'
<1> SUFFICES ASSUME EngineInv, Next PROVE EngineInv'
  OBVIOUS
<1>1. ASSUME Pause \/ Resume PROVE EngineInv'
  <2>1. paused' \in BOOLEAN /\ UNCHANGED <<now, engine, conns, dir, others, lost, refused>>
    BY <1>1 DEF Pause, Resume
  <2>2. ConnsOk'
    BY <2>1 DEF EngineInv, ConnsOk
  <2> QED BY <2>1, <2>2 DEF EngineInv
<1>2. CASE \E s \in {"planned", "stray"} : Start(s)
  BY <1>2, StartKeeps
<1>3. CASE \E e \in Events : OtherEmits(e[1], e[2])
  BY <1>3, OtherKeeps
<1>4. ASSUME NEW c \in Conns, NEW id \in Conns \cup {""},
             Fail(c, id) \/ \E d \in Decisions : Decide(c, id, d[1], d[2], d[3])
      PROVE  EngineInv'
  BY <1>4, FailKeeps, DecideKeeps, Zenon
<1>5. CASE \E c \in Conns, e \in Endings : RelayEnded(c, e[1], e[2], e[3], e[4], e[5])
  BY <1>5, RelayKeeps
<1> QED BY <1>1, <1>2, <1>3, <1>4, <1>5, TickKeeps, KillKeeps, PruneKeeps, ClearKeeps, Zenon DEF Next

LEMMA EngineStutters == EngineInv /\ UNCHANGED vars => EngineInv'
<1> SUFFICES ASSUME EngineInv, UNCHANGED vars PROVE EngineInv'
  OBVIOUS
<1>1. UNCHANGED <<now, engine, conns, dir, paused, others, lost, refused>>
  BY DEF vars
<1>2. ConnsOk'
  BY <1>1 DEF EngineInv, ConnsOk
<1> QED BY <1>1, <1>2 DEF EngineInv

LEMMA FilesReadable ==
    ASSUME NEW files, NEW t, FilesOk(files, t)
    PROVE  Readable(files)
<1>1. /\ Len(Sources) = 3 /\ \A s \in 1 .. 3 : Sources[s] \in Files
  BY DEF Sources, Files
<1>2. \A s \in 1 .. Len(Sources) : FileOk(files[Sources[s]], Sources[s], t)
  BY <1>1 DEF FilesOk
<1>3. \A file, s : FileOk(file, s, t) => \A i \in 1 .. Len(file) : Reportable(file[i], s)
  <2> SUFFICES ASSUME NEW file, NEW s, FileOk(file, s, t), NEW i \in 1 .. Len(file)
               PROVE  Reportable(file[i], s)
    OBVIOUS
  <2>1. i \in DOMAIN file
    BY DEF FileOk
  <2> QED BY <2>1 DEF FileOk, RowOk
<1> QED BY <1>2, <1>3, Zenon DEF Readable

\* What the connections emit the recorder keeps, and what it keeps the report
\* reads: no event that passes the recorder's validation, written by the
\* handlers of main.go, is refused by scanReportFile, however the directory was
\* paused, pruned, cleared or left behind by an older version or a killed engine.
THEOREM EventsAreReadable == MCSpec => []EventsReadable
<1>1. MCInit => (Recording => EngineInv)
  BY EngineInit DEF MCInit, Recording
<1>2. (Recording => EngineInv) /\ [MCNext]_<<part, now, recording, planning>>
        => (Recording => EngineInv)'
  <2> SUFFICES ASSUME Recording => EngineInv, [MCNext]_<<part, now, recording, planning>>,
                      Recording'
               PROVE  EngineInv'
    OBVIOUS
  <2>1. CASE UNCHANGED <<part, now, recording, planning>>
    <3>1. Recording /\ UNCHANGED vars
      BY <2>1 DEF recording, vars, Recording
    <3> QED BY <3>1, EngineStutters
  <2>2. CASE MCNext
    <3>1. Recording /\ Next
      BY <2>2 DEF MCNext, Recording
    <3> QED BY <3>1, EngineNext
  <2> QED BY <2>1, <2>2
<1>3. (Recording => EngineInv) => EventsReadable
  <2> SUFFICES ASSUME EngineInv PROVE TypeOK /\ NothingRefused /\ RowsAreReadable
    BY DEF EventsReadable
  <2>1. \A s \in DOMAIN dir : \A i \in DOMAIN dir[s] :
            dir[s][i].at \in 1 .. now \/ dir[s][i].schema < SchemaVersion
    <3> SUFFICES ASSUME NEW s \in DOMAIN dir, NEW i \in DOMAIN dir[s]
                 PROVE  dir[s][i].at \in 1 .. now \/ dir[s][i].schema < SchemaVersion
      OBVIOUS
    <3>1. RowOk(dir[s][i], s, now)
      BY DEF EngineInv, FilesOk, FileOk
    <3>2. now \in Nat
      BY BoundsAre DEF EngineInv
    <3> QED BY <3>1, <3>2 DEF RowOk
  <2>2. \A c \in Conns : conns[c].st \in {"idle", "open", "failed", "gone", "ended"}
                        /\ conns[c].id \in {c, ""}
    BY Zenon DEF EngineInv, ConnsOk, ConnOk, IdOk
  <2>3. /\ now \in 1 .. MaxTime /\ engine \in {"planned", "stray", "down"} /\ paused \in BOOLEAN
        /\ others \in 0 .. MaxOther /\ lost \in 0 .. MaxTime /\ refused \in BOOLEAN /\ ~refused
    BY DEF EngineInv, ConnsOk
  <2>4. Readable(dir)
    BY FilesReadable DEF EngineInv
  <2>5. TypeOK
    BY <2>1, <2>2, <2>3, Zenon DEF TypeOK
  <2> QED BY <2>3, <2>4, <2>5 DEF NothingRefused, RowsAreReadable
<1> QED BY <1>1, <1>2, <1>3, PTL DEF MCSpec

-----------------------------------------------------------------------------
(* Numbers of finite sets, and the nearest rank of a percentile.           *)

\* A set of natural numbers that is not empty has a least one.
LEMMA LeastNumber ==
    ASSUME NEW S, S \subseteq Nat, S # {}
    PROVE  \E x \in S : \A y \in S : x <= y
<1>1. PICK x \in S : \A y \in S : <<y, x>> \notin OpToRel(<, Nat)
  BY WFMin, NatLessThanWellFounded
<1>2. ASSUME NEW y \in S PROVE x <= y
  <2>1. <<y, x>> \in Nat \X Nat /\ x \in Nat /\ y \in Nat
    OBVIOUS
  <2>2. ~(y < x)
    BY <1>1, <2>1 DEF OpToRel
  <2> QED BY <2>1, <2>2
<1> QED BY <1>2

\* One of the members has the least value.
LEMMA LeastValue ==
    ASSUME NEW S, S # {}, NEW f, \A l \in S : f[l] \in Nat
    PROVE  \E l \in S : \A k \in S : f[l] <= f[k]
<1>1. {f[l] : l \in S} \subseteq Nat /\ {f[l] : l \in S} # {}
  OBVIOUS
<1>2. PICK x \in {f[l] : l \in S} : \A y \in {f[l] : l \in S} : x <= y
  BY <1>1, LeastNumber
<1> QED BY <1>2

\* S is no larger than T where it is mapped into T one to one, and as large
\* exactly when that reaches all of T.
LEMMA Counted ==
    ASSUME NEW S, NEW T, IsFiniteSet(T), NEW f, f \in [S -> T],
           \A a, b \in S : f[a] = f[b] => a = b
    PROVE  /\ IsFiniteSet(S) /\ Cardinality(S) \in Nat /\ Cardinality(T) \in Nat
           /\ Cardinality(S) <= Cardinality(T)
           /\ (\A y \in T : \E x \in S : f[x] = y) => Cardinality(S) = Cardinality(T)
           /\ Cardinality(S) = Cardinality(T) => \A y \in T : \E x \in S : f[x] = y
<1>1. f \in Injection(S, T)
  BY DEF Injection, IsInjective
<1>2. /\ IsFiniteSet(S) /\ Cardinality(S) <= Cardinality(T)
      /\ Cardinality(S) = Cardinality(T) <=> f \in Surjection(S, T)
  BY <1>1, FS_Injection
<1>3. f \in Surjection(S, T) <=> \A y \in T : \E x \in S : f[x] = y
  BY DEF Surjection
<1>4. Cardinality(S) \in Nat /\ Cardinality(T) \in Nat
  BY <1>2, FS_CardinalityType
<1> QED BY <1>2, <1>3, <1>4

LEMMA UpTo ==
    ASSUME NEW n \in Nat
    PROVE  IsFiniteSet(1 .. n) /\ Cardinality(1 .. n) = n
<1>1. IsFiniteSet(1 .. n) /\ Cardinality(1 .. n) = IF 1 > n THEN 0 ELSE n - 1 + 1
  BY FS_Interval
<1> QED BY <1>1

\* The members of S in an order in which their values ascend.
InOrder(order, S, n, values) ==
    /\ order \in [1 .. n -> S]
    /\ \A i, j \in 1 .. n : i < j => order[i] # order[j] /\ values[order[i]] <= values[order[j]]

\* The least value goes first, the others follow in their order.
LEMMA LeastFirst ==
    ASSUME NEW S, NEW values, NEW n \in Nat, n # 0, NEW least \in S,
           \A k \in S : values[k] \in Nat /\ values[least] <= values[k],
           NEW rest, InOrder(rest, S \ {least}, n - 1, values)
    PROVE  \E order : InOrder(order, S, n, values)
<1> DEFINE order == [i \in 1 .. n |-> IF i = 1 THEN least ELSE rest[i - 1]]
<1>1. rest \in [1 .. n - 1 -> S \ {least}]
      /\ \A i, j \in 1 .. n - 1 : i < j => rest[i] # rest[j] /\ values[rest[i]] <= values[rest[j]]
  BY DEF InOrder
<1>2. \A i \in 1 .. n : i # 1 => i - 1 \in 1 .. n - 1
  OBVIOUS
<1>3. \A i \in 1 .. n : order[i] = IF i = 1 THEN least ELSE rest[i - 1]
  OBVIOUS
<1>4. order \in [1 .. n -> S]
  BY <1>1, <1>2
<1> HIDE DEF order
<1>5. ASSUME NEW i \in 1 .. n, NEW j \in 1 .. n, i < j
      PROVE  order[i] # order[j] /\ values[order[i]] <= values[order[j]]
  <2>1. j # 1 /\ order[j] = rest[j - 1] /\ j - 1 \in 1 .. n - 1 /\ rest[j - 1] \in S \ {least}
    BY <1>1, <1>2, <1>3, <1>5
  <2>2. CASE i = 1
    BY <1>3, <2>1, <2>2
  <2>3. CASE i # 1
    <3>1. order[i] = rest[i - 1] /\ i - 1 \in 1 .. n - 1 /\ i - 1 < j - 1
      BY <1>2, <1>3, <1>5, <2>3
    <3> QED BY <1>1, <2>1, <3>1
  <2> QED BY <2>2, <2>3
<1> QED BY <1>4, <1>5 DEF InOrder

\* The members of a finite set can be put in an order in which their values
\* ascend: the sort of summarizeMilliseconds has a result.
LEMMA OrderExists ==
    ASSUME NEW D, IsFiniteSet(D), NEW values, \A l \in D : values[l] \in Nat
    PROVE  \E order : InOrder(order, D, Cardinality(D), values)
<1> DEFINE Ordered(S, n) == \E order : InOrder(order, S, n, values)
           Bad == {n \in Nat : \E S \in SUBSET D : Cardinality(S) = n /\ ~Ordered(S, n)}
<1>1. \A S \in SUBSET D : IsFiniteSet(S) /\ Cardinality(S) \in Nat
  BY FS_Subset, FS_CardinalityType
<1>2. ASSUME Bad # {} PROVE FALSE
  <2>1. Bad \subseteq Nat
    OBVIOUS
  <2>2. PICK n \in Bad : \A m \in Bad : n <= m
    <3> HIDE DEF Bad
    <3> QED BY <1>2, <2>1, LeastNumber
  <2>3. n \in Nat
    BY <2>1, <2>2
  <2>4. PICK S \in SUBSET D : Cardinality(S) = n /\ ~Ordered(S, n)
    BY <2>2
  <2>5. CASE n = 0
    <3>1. InOrder([i \in 1 .. 0 |-> 0], S, 0, values)
      <4>1. 1 .. 0 = {}
        OBVIOUS
      <4> QED BY <4>1 DEF InOrder
    <3> QED BY <2>4, <2>5, <3>1
  <2>6. CASE n # 0
    <3>1. S # {}
      BY <2>4, <2>6, FS_EmptySet
    <3>2. PICK least \in S : \A k \in S : values[least] <= values[k]
      BY <3>1, LeastValue
    <3>3. Cardinality(S \ {least}) = n - 1 /\ S \ {least} \in SUBSET D
      BY <1>1, <2>4, FS_RemoveElement
    <3>4. n - 1 \in Nat /\ ~(n <= n - 1)
      BY <2>3, <2>6
    <3>5. n - 1 \notin Bad
      BY <2>2, <3>4
    <3>6. Ordered(S \ {least}, n - 1)
      BY <3>3, <3>4, <3>5
    <3>7. Ordered(S, n)
      BY <2>3, <2>6, <3>2, <3>6, LeastFirst
    <3> QED BY <2>4, <3>7
  <2> QED BY <2>5, <2>6
<1>3. Cardinality(D) \notin Bad
  BY <1>2
<1> QED BY <1>1, <1>3

\* The order that is chosen is such an order.
LEMMA AscendingIs ==
    ASSUME NEW values, IsFiniteSet(DOMAIN values), \A l \in DOMAIN values : values[l] \in Nat
    PROVE  InOrder(Ascending(values), DOMAIN values, Cardinality(DOMAIN values), values)
<1> DEFINE D == DOMAIN values
           n == Cardinality(D)
           Orders == {order \in [1 .. n -> D] :
                         \A i, j \in 1 .. n : i < j =>
                             order[i] # order[j] /\ values[order[i]] <= values[order[j]]}
<1>1. \E order : InOrder(order, D, n, values)
  BY OrderExists
<1>2. Ascending(values) = CHOOSE order \in [1 .. n -> D] :
                              \A i, j \in 1 .. n : i < j =>
                                  order[i] # order[j] /\ values[order[i]] <= values[order[j]]
  BY DEF Ascending
<1> HIDE DEF n, D
<1> QED BY <1>1, <1>2 DEF InOrder, n, D

\* An order of all of D leaves no member out and ascends weakly.
LEMMA OrderCovers ==
    ASSUME NEW D, IsFiniteSet(D), NEW values, \A l \in D : values[l] \in Nat,
           NEW n, n = Cardinality(D), NEW order, InOrder(order, D, n, values)
    PROVE  /\ n \in Nat
           /\ \A i, j \in 1 .. n : i <= j => values[order[i]] <= values[order[j]]
           /\ \A i, j \in 1 .. n : order[i] = order[j] => i = j
           /\ \A l \in D : \E i \in 1 .. n : order[i] = l
<1>0. n \in Nat
  BY FS_CardinalityType
<1>1. order \in [1 .. n -> D]
      /\ \A i, j \in 1 .. n : i < j => order[i] # order[j] /\ values[order[i]] <= values[order[j]]
  BY DEF InOrder
<1>2. ASSUME NEW i \in 1 .. n, NEW j \in 1 .. n, order[i] = order[j] PROVE i = j
  <2>1. i < j \/ j < i \/ i = j
    BY <1>0
  <2> QED BY <1>1, <1>2, <2>1
<1>3. IsFiniteSet(1 .. n) /\ Cardinality(1 .. n) = n
  BY <1>0, UpTo
<1>4. \A l \in D : \E i \in 1 .. n : order[i] = l
  <2> DEFINE I == 1 .. n
  <2>1. order \in [I -> D] /\ \A i, j \in I : order[i] = order[j] => i = j
    BY <1>1, <1>2
  <2>2. Cardinality(I) = Cardinality(D)
    BY <1>3
  <2> HIDE DEF I
  <2>3. \A l \in D : \E i \in I : order[i] = l
    BY <2>1, <2>2, Counted
  <2> QED BY <2>3 DEF I
<1>5. ASSUME NEW i \in 1 .. n, NEW j \in 1 .. n, i <= j PROVE values[order[i]] <= values[order[j]]
  <2>1. i < j \/ i = j
    BY <1>0, <1>5
  <2>2. values[order[i]] \in Nat
    BY <1>1
  <2> QED BY <1>1, <2>1, <2>2
<1> QED BY <1>0, <1>2, <1>4, <1>5

RankAt(p, n) == (p * n + 99) \div 100

\* The k-th of n values is the first with a share of p among them.
IsIndex(k, p, n) == k \in 1 .. n /\ 100 * k >= p * n /\ 100 * (k - 1) < p * n

\* The index summarizeMilliseconds computes, (p * n + 99) / 100, is one of 1 .. n.
LEMMA RankOf ==
    ASSUME NEW n \in Nat, n # 0, NEW p \in {50, 95, 99}
    PROVE  IsIndex(RankAt(p, n), p, n)
<1>1. p * n \in Nat /\ p * n <= 100 * n /\ p * n >= 1
  <2>1. CASE p = 50 BY <2>1
  <2>2. CASE p = 95 BY <2>2
  <2>3. CASE p = 99 BY <2>3
  <2> QED BY <2>1, <2>2, <2>3
<1> DEFINE x == p * n
           k == RankAt(p, n)
<1>2. x \in Nat /\ x >= 1 /\ x <= 100 * n /\ k = (x + 99) \div 100
  BY <1>1 DEF RankAt
<1> HIDE DEF x, k
<1>3. k \in Int /\ 100 * k <= x + 99 /\ x + 99 < 100 * k + 100
  BY <1>2
<1>4. k >= 1 /\ k <= n
  BY <1>2, <1>3
<1>5. IsIndex(k, p, n)
  BY <1>2, <1>3, <1>4 DEF x, IsIndex
<1> QED BY <1>5 DEF k

\* At least that share of the values is at or below v, less than that share is
\* below it.
IsRank(v, values, p) ==
    /\ 100 * Cardinality({l \in DOMAIN values : values[l] <= v}) >= p * Cardinality(DOMAIN values)
    /\ 100 * Cardinality({l \in DOMAIN values : values[l] < v}) < p * Cardinality(DOMAIN values)

\* The value at that index is the nearest rank of the percentile.
LEMMA NearestRank ==
    ASSUME NEW values, IsFiniteSet(DOMAIN values), DOMAIN values # {},
           \A l \in DOMAIN values : values[l] \in Nat,
           NEW order, InOrder(order, DOMAIN values, Cardinality(DOMAIN values), values),
           NEW p \in {50, 95, 99}
    PROVE  /\ RankAt(p, Cardinality(DOMAIN values)) \in 1 .. Cardinality(DOMAIN values)
           /\ IsRank(values[order[RankAt(p, Cardinality(DOMAIN values))]], values, p)
<1> DEFINE D == DOMAIN values
           n == Cardinality(D)
           k == RankAt(p, n)
<1>a. /\ IsFiniteSet(D) /\ D # {} /\ \A l \in D : values[l] \in Nat
      /\ n = Cardinality(D) /\ InOrder(order, D, n, values) /\ k = (p * n + 99) \div 100
  BY DEF RankAt
<1>b. SUFFICES
      /\ k \in 1 .. n
      /\ 100 * Cardinality({l \in D : values[l] <= values[order[k]]}) >= p * n
      /\ 100 * Cardinality({l \in D : values[l] < values[order[k]]}) < p * n
  BY DEF IsRank
<1> HIDE DEF k, n, D
<1> DEFINE v == values[order[k]]
           below == {l \in D : values[l] < v}
           upto == {l \in D : values[l] <= v}
<1>1. n \in Nat /\ n # 0
  BY <1>a, FS_CardinalityType, FS_EmptySet
<1>2. k \in 1 .. n /\ 100 * k >= p * n /\ 100 * (k - 1) < p * n
  <2>1. IsIndex(RankAt(p, n), p, n)
    BY <1>1, RankOf
  <2> QED BY <2>1 DEF k, IsIndex
<1>3. order \in [1 .. n -> D]
  BY <1>a DEF InOrder
<1>4. /\ \A i, j \in 1 .. n : i <= j => values[order[i]] <= values[order[j]]
      /\ \A i, j \in 1 .. n : order[i] = order[j] => i = j
      /\ \A l \in D : \E i \in 1 .. n : order[i] = l
  BY <1>a, OrderCovers
<1>5. p * n \in Nat /\ k \in Nat /\ k - 1 \in Nat
  BY <1>1, <1>2
<1>6. IsFiniteSet(upto) /\ IsFiniteSet(below)
  BY <1>a, FS_Subset
<1>7. k <= Cardinality(upto) /\ Cardinality(upto) \in Nat
  <2> DEFINE I == 1 .. k
             f == [i \in I |-> order[i]]
  <2>1. \A i \in 1 .. k : i \in 1 .. n /\ i <= k
    BY <1>1, <1>2
  <2>2. f \in [I -> upto]
    BY <1>2, <1>3, <1>4, <2>1
  <2>3. \A a, b \in I : f[a] = f[b] => a = b
    BY <1>4, <2>1
  <2>4. Cardinality(I) = k
    BY <1>5, UpTo
  <2> HIDE DEF f, upto, I
  <2>5. /\ Cardinality(I) <= Cardinality(upto) /\ Cardinality(upto) \in Nat
    BY ONLY <1>6, <2>2, <2>3, Counted
  <2> QED BY <2>4, <2>5
<1>8. Cardinality(below) <= k - 1 /\ Cardinality(below) \in Nat
  <2> DEFINE place(l) == CHOOSE i \in 1 .. n : order[i] = l
             J == 1 .. k - 1
             f == [l \in below |-> place(l)]
  <2>1. ASSUME NEW l \in below PROVE place(l) \in J /\ order[place(l)] = l
    <3>1. place(l) \in 1 .. n /\ order[place(l)] = l
      BY <1>4
    <3>2. ~(k <= place(l))
      <4> SUFFICES ASSUME k <= place(l) PROVE FALSE
        OBVIOUS
      <4>1. v <= values[l]
        BY <1>2, <1>4, <3>1
      <4>2. values[l] < v /\ values[l] \in Nat /\ v \in Nat
        BY <1>a, <1>2, <1>3
      <4> HIDE DEF v
      <4> QED BY <4>1, <4>2
    <3> HIDE DEF place
    <3> QED BY <1>2, <1>1, <3>1, <3>2
  <2>2. f \in [below -> J]
    BY <2>1
  <2>3. \A a, b \in below : f[a] = f[b] => a = b
    BY <2>1
  <2>4. IsFiniteSet(J) /\ Cardinality(J) = k - 1
    BY <1>5, UpTo
  <2> HIDE DEF f, below, J
  <2>5. Cardinality(below) <= Cardinality(J) /\ Cardinality(below) \in Nat
    BY ONLY <2>2, <2>3, <2>4, Counted
  <2> QED BY <2>4, <2>5
<1> HIDE DEF v, upto, below
<1>9. 100 * Cardinality(upto) >= p * n /\ 100 * Cardinality(below) < p * n
  <2> DEFINE x == p * n
             u == Cardinality(upto)
             b == Cardinality(below)
  <2>1. x \in Nat /\ k \in Nat /\ u \in Nat /\ b \in Nat /\ k <= u /\ b <= k - 1
        /\ 100 * k >= x /\ 100 * (k - 1) < x
    BY <1>2, <1>5, <1>7, <1>8
  <2> HIDE DEF x, u, b
  <2>2. 100 * u >= x /\ 100 * b < x
    BY <2>1
  <2> QED BY <2>2 DEF x, u, b
<1> QED BY <1>2, <1>9 DEF v, upto, below

\* summarizeMilliseconds, of any finite collection of measurements: each of P50,
\* P95 and P99 is one for which at least that share of the measurements is at or
\* below it and less than that share is below it; the index (p * n + 99) / 100
\* never leaves the sorted list, and the order of equal measurements is no matter.
THEOREM PercentilesAreNearest ==
    ASSUME NEW values, IsFiniteSet(DOMAIN values), \A l \in DOMAIN values : values[l] \in Nat
    PROVE  LET ranks == summarizeMilliseconds(values).Ranks
           IN  \A i \in DOMAIN ranks : i \in {1, 2, 3} /\ IsRank(ranks[i], values, <<50, 95, 99>>[i])
<1> DEFINE D == DOMAIN values
           n == Cardinality(D)
           order == Ascending(values)
           sorted == [i \in DOMAIN order |-> values[order[i]]]
           three == <<nearestRank(sorted, 50), nearestRank(sorted, 95), nearestRank(sorted, 99)>>
           ranks == summarizeMilliseconds(values).Ranks
<1>1. ranks = IF D = {} THEN <<>> ELSE three
  BY DEF summarizeMilliseconds
<1>2. CASE D = {}
  <2>1. DOMAIN ranks = {}
    BY <1>1, <1>2
  <2> QED BY <2>1
<1>3. CASE D # {}
  <2>1. InOrder(order, D, n, values)
    BY AscendingIs
  <2>2. n \in Nat
    BY FS_CardinalityType
  <2>3. order \in [1 .. n -> D]
    BY <2>1 DEF InOrder
  <2>4. sorted \in Seq(Nat) /\ Len(sorted) = n /\ \A i \in 1 .. n : sorted[i] = values[order[i]]
    <3>1. DOMAIN sorted = 1 .. n /\ sorted \in [1 .. n -> Nat]
      BY <2>3
    <3>2. \A i \in 1 .. n : sorted[i] = values[order[i]]
      BY <2>3
    <3> HIDE DEF sorted
    <3> QED BY <2>2, <3>1, <3>2
  <2>5. ASSUME NEW p \in {50, 95, 99} PROVE IsRank(nearestRank(sorted, p), values, p)
    <3> DEFINE k == RankAt(p, n)
    <3>1. k \in 1 .. n /\ IsRank(values[order[k]], values, p)
      <4> HIDE DEF order
      <4> QED BY <1>3, <2>1, NearestRank
    <3>2. nearestRank(sorted, p) = values[order[k]]
      <4>1. nearestRank(sorted, p) = sorted[IF k < 1 THEN 1 ELSE k]
        <5> HIDE DEF sorted
        <5> QED BY <2>4 DEF nearestRank, RankAt
      <4> HIDE DEF sorted, k
      <4> QED BY <2>2, <2>4, <3>1, <4>1
    <3> HIDE DEF k, order, sorted
    <3> QED BY <3>1, <3>2
  <2>6. /\ IsRank(nearestRank(sorted, 50), values, 50) /\ IsRank(nearestRank(sorted, 95), values, 95)
        /\ IsRank(nearestRank(sorted, 99), values, 99)
    BY <2>5
  <2> HIDE DEF sorted, ranks
  <2>7. ranks = three /\ DOMAIN ranks = {1, 2, 3}
    BY <1>1, <1>3
  <2>8. ASSUME NEW i \in DOMAIN ranks
        PROVE  i \in {1, 2, 3} /\ IsRank(ranks[i], values, <<50, 95, 99>>[i])
    BY <2>6, <2>7
  <2> QED BY <2>8 DEF ranks
<1> QED BY <1>2, <1>3

-----------------------------------------------------------------------------
(* The lines a report reads.                                               *)

\* A line of the report is a place of a file with the row that stands there.
LEMMA LinesAre ==
    ASSUME NEW files, NEW t, FilesOk(files, t), NEW since
    PROVE  /\ \A l \in Included(files, since) :
                  /\ l[1][1] \in Files /\ l[1][2] \in DOMAIN files[l[1][1]]
                  /\ l = <<<<l[1][1], l[1][2]>>, files[l[1][1]][l[1][2]]>>
                  /\ Row(l) = files[l[1][1]][l[1][2]] /\ Row(l).at >= since
           /\ \A s \in Files : \A i \in DOMAIN files[s] :
                  files[s][i].at >= since => <<<<s, i>>, files[s][i]>> \in Included(files, since)
<1>1. DOMAIN files = Files
  BY DEF FilesOk
<1> DEFINE places == UNION {{s} \X DOMAIN files[s] : s \in DOMAIN files}
<1>2. Included(files, since)
        = {<<p, files[p[1]][p[2]]>> : p \in {q \in places : files[q[1]][q[2]].at >= since}}
  BY DEF Included
<1>3. \A p \in places : p[1] \in Files /\ p[2] \in DOMAIN files[p[1]] /\ p = <<p[1], p[2]>>
  BY <1>1
<1>4. \A s \in Files : \A i \in DOMAIN files[s] : <<s, i>> \in places
  BY <1>1
<1> HIDE DEF places
<1>5. ASSUME NEW l \in Included(files, since)
      PROVE  /\ l[1][1] \in Files /\ l[1][2] \in DOMAIN files[l[1][1]]
             /\ l = <<<<l[1][1], l[1][2]>>, files[l[1][1]][l[1][2]]>>
             /\ Row(l) = files[l[1][1]][l[1][2]] /\ Row(l).at >= since
  <2>1. PICK p \in places : l = <<p, files[p[1]][p[2]]>> /\ files[p[1]][p[2]].at >= since
    BY <1>2
  <2>2. l[1] = p /\ l[2] = files[p[1]][p[2]]
    BY <2>1
  <2> QED BY <1>3, <2>1, <2>2 DEF Row
<1>6. ASSUME NEW s \in Files, NEW i \in DOMAIN files[s], files[s][i].at >= since
      PROVE  <<<<s, i>>, files[s][i]>> \in Included(files, since)
  <2> DEFINE p == <<s, i>>
  <2>1. p \in places /\ p[1] = s /\ p[2] = i
    BY <1>4
  <2> HIDE DEF p
  <2>2. <<p, files[p[1]][p[2]]>> \in Included(files, since)
    BY <1>2, <1>6, <2>1
  <2> QED BY <2>1, <2>2 DEF p
<1> QED BY <1>5, <1>6

LEMMA LinesFinite ==
    ASSUME NEW files, NEW t, FilesOk(files, t), NEW since
    PROVE  IsFiniteSet(Included(files, since))
<1> DEFINE lines == Included(files, since)
           places == UNION {{s} \X DOMAIN files[s] : s \in Files}
<1>1. ASSUME NEW s \in Files PROVE IsFiniteSet({s} \X DOMAIN files[s])
  <2>1. files[s] \in Seq(Held(files[s]))
    BY DEF FilesOk, FileOk
  <2>2. Len(files[s]) \in Nat /\ DOMAIN files[s] = 1 .. Len(files[s])
    BY <2>1
  <2>3. IsFiniteSet(DOMAIN files[s])
    BY <2>2, UpTo
  <2> QED BY <2>3, FS_Singleton, FS_Product
<1>2. places = ({"engine"} \X DOMAIN files["engine"] \cup {"guard"} \X DOMAIN files["guard"])
                 \cup {"supervisor"} \X DOMAIN files["supervisor"]
  BY DEF Files
<1>3. "engine" \in Files /\ "guard" \in Files /\ "supervisor" \in Files
  BY DEF Files
<1>4. IsFiniteSet(places)
  <2> DEFINE a == {"engine"} \X DOMAIN files["engine"]
             b == {"guard"} \X DOMAIN files["guard"]
             c == {"supervisor"} \X DOMAIN files["supervisor"]
  <2>1. IsFiniteSet(a) /\ IsFiniteSet(b) /\ IsFiniteSet(c) /\ places = (a \cup b) \cup c
    BY <1>1, <1>2, <1>3
  <2> HIDE DEF places, a, b, c
  <2> QED BY <2>1, FS_Union
<1>5. ASSUME NEW l \in lines
      PROVE  l[1] \in places /\ l = <<l[1], files[l[1][1]][l[1][2]]>>
  <2>1. /\ l[1][1] \in Files /\ l[1][2] \in DOMAIN files[l[1][1]]
        /\ l = <<<<l[1][1], l[1][2]>>, files[l[1][1]][l[1][2]]>>
    BY LinesAre
  <2>2. l[1] = <<l[1][1], l[1][2]>>
    BY <2>1
  <2>3. <<l[1][1], l[1][2]>> \in places
    BY <2>1
  <2> HIDE DEF places
  <2> QED BY <2>1, <2>2, <2>3
<1> DEFINE f == [l \in lines |-> l[1]]
<1> HIDE DEF lines, places
<1>6. f \in [lines -> places] /\ \A a, b \in lines : f[a] = f[b] => a = b
  BY <1>5
<1> HIDE DEF f
<1> QED BY <1>4, <1>6, Counted DEF lines

\* A line of a directory holds a row of its source.
LEMMA LineRows ==
    ASSUME NEW files, NEW t, FilesOk(files, t), NEW since, NEW l \in Included(files, since)
    PROVE  RowOk(Row(l), l[1][1], t)
<1>1. l[1][1] \in Files /\ l[1][2] \in DOMAIN files[l[1][1]] /\ Row(l) = files[l[1][1]][l[1][2]]
  BY LinesAre
<1> QED BY <1>1 DEF FilesOk, FileOk

-----------------------------------------------------------------------------
(* The counters of one report agree with each other.                       *)

\* The identifiers of lines that share none are as many as the lines.
LEMMA IdsAreApart ==
    ASSUME NEW S, IsFiniteSet(S), ~Duplicated(S)
    PROVE  \A a, b \in S : Row(a).conn = Row(b).conn => a = b
<1> DEFINE f == [l \in S |-> Row(l).conn]
<1>1. f \in Surjection(S, Ids(S))
  BY DEF Surjection, Ids
<1>2. Cardinality(Ids(S)) = Cardinality(S)
  BY DEF Duplicated
<1>3. f \in Injection(S, Ids(S))
  BY <1>1, <1>2, FS_Surjection
<1> QED BY <1>3 DEF Injection, IsInjective

\* Lines of which no two have the same identifier are as many as their identifiers.
LEMMA IdsCounted ==
    ASSUME NEW S, IsFiniteSet(S), \A a, b \in S : Row(a).conn = Row(b).conn => a = b,
           NEW T, T \subseteq S
    PROVE  /\ IsFiniteSet(T) /\ IsFiniteSet(Ids(T))
           /\ Cardinality(T) \in Nat /\ Cardinality(Ids(T)) = Cardinality(T)
<1> DEFINE f == [l \in T |-> Row(l).conn]
<1>1. IsFiniteSet(T) /\ Cardinality(T) \in Nat
  BY FS_Subset, FS_CardinalityType
<1>2. f \in Surjection(T, Ids(T))
  BY DEF Surjection, Ids
<1>3. f \in Injection(T, Ids(T))
  <2>1. \A a, b \in T : f[a] = f[b] => a = b
    OBVIOUS
  <2>2. f \in [T -> Ids(T)]
    BY DEF Ids
  <2> HIDE DEF f
  <2> QED BY <2>1, <2>2 DEF Injection, IsInjective
<1> HIDE DEF f
<1> QED BY <1>1, <1>2, <1>3, FS_Surjection

\* Two sets that are apart.
LEMMA PartsOf ==
    ASSUME NEW A, NEW B, IsFiniteSet(A \cup B), A \cap B = {}
    PROVE  /\ IsFiniteSet(A) /\ IsFiniteSet(B)
           /\ Cardinality(A) \in Nat /\ Cardinality(B) \in Nat
           /\ Cardinality(A \cup B) = Cardinality(A) + Cardinality(B)
<1>1. IsFiniteSet(A) /\ IsFiniteSet(B)
  BY FS_Subset
<1>2. Cardinality(A \cap B) = 0
  BY FS_EmptySet
<1>3. Cardinality(A) \in Nat /\ Cardinality(B) \in Nat
  BY <1>1, FS_CardinalityType
<1>4. Cardinality(A \cup B) = Cardinality(A) + Cardinality(B) - Cardinality(A \cap B)
  BY <1>1, FS_Union
<1> QED BY <1>1, <1>2, <1>3, <1>4

\* A part of a finite set.
LEMMA Fewer ==
    ASSUME NEW S, IsFiniteSet(S), NEW T, T \subseteq S
    PROVE  /\ IsFiniteSet(T) /\ Cardinality(T) \in Nat /\ Cardinality(S) \in Nat
           /\ Cardinality(T) <= Cardinality(S)
BY FS_Subset, FS_CardinalityType

\* A committed decision is scoped or not, a scoped one paired or without outcome.
LEMMA ScopedAgree ==
    ASSUME NEW lines, IsFiniteSet(lines), Pairable(lines)
    PROVE  LET c == ConnectionScopeReport(lines)
           IN  /\ c.ScopedCommittedDecisions + c.UnscopedCommittedDecisions
                    = Cardinality(Selections(lines))
               /\ c.ScopedCommittedDecisions
                    = c.PairedRelayOutcomes + c.CommittedDecisionsWithoutOutcome
               /\ c.ScopedRelayOutcomes = c.PairedRelayOutcomes + c.UnmatchedRelayOutcomes
               /\ c.ScopedCommittedDecisions \in Nat /\ c.UnscopedCommittedDecisions \in Nat
               /\ c.PairedRelayOutcomes \in Nat /\ c.UnmatchedRelayOutcomes \in Nat
               /\ c.CommittedDecisionsWithoutOutcome \in Nat
<1> DEFINE scoped == Terminals(lines)
           unscoped == {l \in lines : Row(l).conn = ""}
           chosen == Selections(scoped)
           other == Selections(unscoped)
           terminals == Ids(scoped)
           committed == Ids(chosen)
           ended == Outcomes(lines)
           outcomes == Ids(ended)
           c == ConnectionScopeReport(lines)
<1>1. /\ c.ScopedCommittedDecisions = Cardinality(committed)
      /\ c.UnscopedCommittedDecisions = Cardinality(other)
      /\ c.ScopedRelayOutcomes = Cardinality(outcomes)
      /\ c.PairedRelayOutcomes = Cardinality(outcomes \cap terminals)
      /\ c.UnmatchedRelayOutcomes = Cardinality(outcomes \ terminals)
      /\ c.CommittedDecisionsWithoutOutcome = Cardinality(committed \ outcomes)
  BY DEF ConnectionScopeReport
<1>2. /\ scoped \subseteq lines /\ ended \subseteq lines /\ chosen \subseteq scoped
      /\ Selections(lines) = chosen \cup other /\ chosen \cap other = {}
  BY DEF Terminals, Outcomes, Scoped, Relays, Selections, Committed, TerminalTypes
<1>3. IsFiniteSet(scoped) /\ IsFiniteSet(ended) /\ IsFiniteSet(Selections(lines))
  <2>1. Selections(lines) \subseteq lines
    BY DEF Selections
  <2> HIDE DEF scoped, ended
  <2> QED BY <1>2, <2>1, Fewer
<1>4. /\ ~Duplicated(scoped) /\ ~Duplicated(ended)
      /\ \A id \in terminals \cap outcomes : Committed(Of(scoped, id))
  BY DEF Pairable
<1>5. \A a, b \in scoped : Row(a).conn = Row(b).conn => a = b
  BY <1>3, <1>4, IdsAreApart
<1>6. \A a, b \in ended : Row(a).conn = Row(b).conn => a = b
  BY <1>3, <1>4, IdsAreApart
<1>7. IsFiniteSet(committed) /\ Cardinality(committed) = Cardinality(chosen)
      /\ IsFiniteSet(terminals)
  BY <1>2, <1>3, <1>5, IdsCounted
<1>8. IsFiniteSet(outcomes)
  BY <1>3, <1>6, IdsCounted
<1>9. committed \subseteq terminals
  BY <1>2 DEF Ids
<1>10. terminals \cap outcomes \subseteq committed
  <2> SUFFICES ASSUME NEW id \in terminals \cap outcomes PROVE id \in committed
    OBVIOUS
  <2> DEFINE l == CHOOSE k \in scoped : Row(k).conn = id
  <2>1. \E k \in scoped : Row(k).conn = id
    BY DEF Ids
  <2>2. l \in scoped /\ Row(l).conn = id
    BY <2>1
  <2>3. Committed(Row(l))
    BY <1>4 DEF Of
  <2> HIDE DEF l, scoped
  <2> QED BY <2>2, <2>3 DEF Ids, Selections
<1> HIDE DEF scoped, unscoped, chosen, other, terminals, committed, ended, outcomes, c
<1>11. /\ Cardinality(Selections(lines)) = Cardinality(chosen) + Cardinality(other)
       /\ Cardinality(other) \in Nat /\ Cardinality(chosen) \in Nat
  BY <1>2, <1>3, PartsOf
<1>12. /\ Cardinality(committed) = Cardinality(outcomes \cap terminals) + Cardinality(committed \ outcomes)
       /\ Cardinality(outcomes \cap terminals) \in Nat /\ Cardinality(committed \ outcomes) \in Nat
  <2> DEFINE both == outcomes \cap terminals
             left == committed \ outcomes
  <2>1. committed = both \cup left /\ both \cap left = {}
    BY <1>9, <1>10
  <2> HIDE DEF both, left
  <2>2. /\ Cardinality(committed) = Cardinality(both) + Cardinality(left)
        /\ Cardinality(both) \in Nat /\ Cardinality(left) \in Nat
    BY <1>7, <2>1, PartsOf
  <2> QED BY <2>2 DEF both, left
<1>13. /\ Cardinality(outcomes) = Cardinality(outcomes \cap terminals) + Cardinality(outcomes \ terminals)
       /\ Cardinality(outcomes \ terminals) \in Nat
  <2> DEFINE both == outcomes \cap terminals
             left == outcomes \ terminals
  <2>1. outcomes = both \cup left /\ both \cap left = {}
    OBVIOUS
  <2> HIDE DEF both, left
  <2>2. /\ Cardinality(outcomes) = Cardinality(both) + Cardinality(left)
        /\ Cardinality(left) \in Nat
    BY <1>8, <2>1, PartsOf
  <2> QED BY <2>2 DEF both, left
<1> QED BY <1>1, <1>7, <1>11, <1>12, <1>13 DEF c

\* The counters of the declared baseline add up.
LEMMA BaselineAgrees ==
    ASSUME NEW lines, IsFiniteSet(lines), \A l \in Selections(lines) : Row(l).path \in PathNames
    PROVE  LET b == DeclaredBaselineReport(lines)
           IN  /\ b.ScopedSelections + b.UnscopedSelections = Cardinality(Selections(lines))
               /\ b.ScopedSelections = b.SameAsDeclared + b.ChangedFromDeclared
               /\ b.ChangedFromDeclared = b.DirectInsteadOfProxy + b.ProxyInsteadOfDirect
               /\ b.ScopedRelayOutcomes + b.UnscopedRelayOutcomes = Cardinality(Relays(lines))
               /\ b.ChangedRelayOutcomes <= b.ScopedRelayOutcomes
<1> DEFINE selections == Selections(lines)
           scoped == {l \in selections : Row(l).base # ""}
           changed == {l \in selections : Changed(Row(l))}
           direct == {l \in changed : Row(l).path = Direct}
           proxy == {l \in changed : Row(l).path = Proxy}
           relays == Relays(lines)
           declared == {l \in relays : Row(l).base # ""}
           moved == {l \in relays : Changed(Row(l))}
           b == DeclaredBaselineReport(lines)
<1>1. /\ b.ScopedSelections = Cardinality(scoped)
      /\ b.UnscopedSelections = Cardinality(selections) - Cardinality(scoped)
      /\ b.SameAsDeclared = Cardinality(scoped) - Cardinality(changed)
      /\ b.ChangedFromDeclared = Cardinality(changed)
      /\ b.DirectInsteadOfProxy = Cardinality(direct)
      /\ b.ProxyInsteadOfDirect = Cardinality(proxy)
      /\ b.ScopedRelayOutcomes = Cardinality(declared)
      /\ b.UnscopedRelayOutcomes = Cardinality(relays) - Cardinality(declared)
      /\ b.ChangedRelayOutcomes = Cardinality(moved)
  BY DEF DeclaredBaselineReport
<1>2. /\ selections \subseteq lines /\ scoped \subseteq lines /\ changed \subseteq lines
      /\ relays \subseteq lines /\ declared \subseteq lines /\ moved \subseteq declared
  BY DEF Selections, Relays, Changed
<1>3. changed = direct \cup proxy /\ direct \cap proxy = {}
  BY DEF PathNames, Direct, Proxy
<1> HIDE DEF selections, scoped, changed, direct, proxy, relays, declared, moved, b
<1>4. /\ Cardinality(selections) \in Nat /\ Cardinality(scoped) \in Nat
      /\ Cardinality(changed) \in Nat /\ IsFiniteSet(changed)
      /\ Cardinality(relays) \in Nat /\ Cardinality(declared) \in Nat /\ IsFiniteSet(declared)
  BY <1>2, Fewer
<1>5. Cardinality(changed) = Cardinality(direct) + Cardinality(proxy)
  BY <1>3, <1>4, PartsOf
<1>6. Cardinality(moved) <= Cardinality(declared)
  BY <1>2, <1>4, Fewer
<1> QED BY <1>1, <1>4, <1>5, <1>6 DEF selections, relays, b

LEMMA RelaysAgree ==
    ASSUME NEW lines, IsFiniteSet(lines)
    PROVE  LET r == RelayReport(lines)
           IN  r.Outcomes = Cardinality(Relays(lines)) /\ r.Canceled <= r.Outcomes
<1> DEFINE relays == Relays(lines)
           canceled == {l \in relays : Row(l).term = "canceled"}
           r == RelayReport(lines)
<1>1. r.Outcomes = Cardinality(relays) /\ r.Canceled = Cardinality(canceled)
  BY DEF RelayReport
<1>2. relays \subseteq lines /\ canceled \subseteq relays
  BY DEF Relays
<1>3. IsFiniteSet(relays)
  BY <1>2, Fewer
<1>4. Cardinality(canceled) <= Cardinality(relays)
  BY <1>2, <1>3, Fewer
<1> QED BY <1>1, <1>4

\* The parts of a report.
LEMMA PartsAre ==
    ASSUME NEW files, NEW since, NEW expected, NEW still
    PROVE  LET r == BuildReport(files, since, expected, still)
               lines == Included(files, since)
           IN  /\ r.RecordingPaused = still
               /\ r.ConnectionScope = ConnectionScopeReport(lines)
               /\ r.DeclaredBaseline = DeclaredBaselineReport(lines)
               /\ r.Adaptive = AdaptiveReport(lines) /\ r.Relay = RelayReport(lines)
BY DEF BuildReport

\* The counters of decisions, baseline, relays and pairs, which three parts of
\* BuildReport count on their own, add up to each other in the report of any
\* directory and any window that connectionPairer.finalize accepts, so that the
\* check report.internal_consistency of AssessObservations passes.
THEOREM ReportCountersAgree ==
    ASSUME NEW files, NEW t, FilesOk(files, t), NEW since, NEW expected, NEW still,
           Pairable(Included(files, since))
    PROVE  /\ Consistent(BuildReport(files, since, expected, still))
           /\ SelectionsOf(BuildReport(files, since, expected, still))
                = Cardinality(Selections(Included(files, since)))
<1> DEFINE lines == Included(files, since)
           r == BuildReport(files, since, expected, still)
<1>1. IsFiniteSet(lines) /\ Pairable(lines)
  BY LinesFinite
<1>2. \A l \in Selections(lines) : Row(l).path \in PathNames
  <2> SUFFICES ASSUME NEW l \in Selections(lines) PROVE Row(l).path \in PathNames
    OBVIOUS
  <2>1. l \in Included(files, since) /\ Row(l).type = "decision"
    BY DEF Selections, Committed
  <2>2. RowOk(Row(l), l[1][1], t)
    BY <2>1, LineRows
  <2> HIDE DEF lines
  <2>3. Complete(Row(l))
    BY <2>2 DEF RowOk, Reportable
  <2> QED BY <2>1, <2>3, Zenon DEF Complete
<1>3. /\ r.ConnectionScope = ConnectionScopeReport(lines)
      /\ r.DeclaredBaseline = DeclaredBaselineReport(lines)
      /\ r.Relay = RelayReport(lines)
  BY PartsAre
<1> HIDE DEF lines, r
<1>4. SelectionsOf(r) = Cardinality(Selections(lines))
  BY <1>1, <1>3, ScopedAgree DEF SelectionsOf
<1> DEFINE c == ConnectionScopeReport(lines)
           b == DeclaredBaselineReport(lines)
           m == RelayReport(lines)
<1>5. /\ c.ScopedCommittedDecisions = c.PairedRelayOutcomes + c.CommittedDecisionsWithoutOutcome
      /\ c.ScopedRelayOutcomes = c.PairedRelayOutcomes + c.UnmatchedRelayOutcomes
  BY <1>1, ScopedAgree
<1>6. /\ b.ScopedSelections + b.UnscopedSelections = Cardinality(Selections(lines))
      /\ b.ScopedSelections = b.SameAsDeclared + b.ChangedFromDeclared
      /\ b.ChangedFromDeclared = b.DirectInsteadOfProxy + b.ProxyInsteadOfDirect
      /\ b.ScopedRelayOutcomes + b.UnscopedRelayOutcomes = Cardinality(Relays(lines))
      /\ b.ChangedRelayOutcomes <= b.ScopedRelayOutcomes
  BY <1>1, <1>2, BaselineAgrees
<1>7. m.Outcomes = Cardinality(Relays(lines)) /\ m.Canceled <= m.Outcomes
  BY <1>1, RelaysAgree
<1> HIDE DEF c, b, m
<1>8. Consistent(r)
  <2>1. r.ConnectionScope = c /\ r.DeclaredBaseline = b /\ r.Relay = m
    BY <1>3 DEF c, b, m
  <2> QED BY <1>4, <1>5, <1>6, <1>7, <2>1 DEF Consistent
<1> QED BY <1>4, <1>8 DEF lines, r

\* RankIsNearest of the directory: the percentiles of its relays and decisions.
LEMMA RanksHold == EngineInv => RankIsNearest
<1> SUFFICES ASSUME EngineInv PROVE RankIsNearest
  OBVIOUS
<1> DEFINE lines == Included(dir, 0)
           took == Values(Relays(lines), LAMBDA row : row.took)
           D == {k \in Relays(lines) : Present(Row(k).took)}
           ranks == summarizeMilliseconds(took).Ranks
<1>1. FilesOk(dir, now)
  BY DEF EngineInv
<1>2. took = [l \in D |-> Row(l).took[1]]
  BY DEF Values
<1>3. DOMAIN took = D /\ \A l \in D : took[l] = Row(l).took[1]
  BY <1>2
<1>4. IsFiniteSet(D)
  <2>1. D \subseteq lines
    BY DEF Relays
  <2> HIDE DEF D
  <2> QED BY <1>1, <2>1, LinesFinite, Fewer
<1>5. ASSUME NEW l \in D PROVE Row(l).took[1] \in Nat
  <2>1. l \in lines /\ Row(l).type = "relay_outcome"
    BY DEF Relays
  <2>2. RowOk(Row(l), l[1][1], now)
    BY <1>1, <2>1, LineRows
  <2>3. Complete(Row(l))
    BY <2>2 DEF RowOk, Reportable
  <2> QED BY <2>1, <2>3 DEF Complete
<1> HIDE DEF took, D
<1>6. \A i \in DOMAIN ranks : i \in {1, 2, 3} /\ IsRank(ranks[i], took, <<50, 95, 99>>[i])
  BY <1>3, <1>4, <1>5, PercentilesAreNearest
<1>7. RankIsNearest
        <=> \A i \in DOMAIN ranks : IsRank(ranks[i], took, <<50, 95, 99>>[i])
  BY DEF RankIsNearest, IsRank, took
<1> QED BY <1>6, <1>7

-----------------------------------------------------------------------------
(* Every terminal and every relay of the engine's file is of a connection  *)
(* of its own, and says of it what happened to it; a connection whose row  *)
(* is missing is not younger than what was lost.                           *)

Kinds == {"terminal", "outcome"}
TypesOf(kind) == IF kind = "terminal" THEN TerminalTypes ELSE {"relay_outcome"}
\* A row an older version left is of no connection of the trial.
Is(kind, row) == row.at # 0 /\ row.type \in TypesOf(kind)

Happened(kind, r) == IF kind = "terminal" THEN r.st # "idle" ELSE r.st = "ended"
When(kind, r) == IF kind = "terminal" THEN r.at ELSE r.ended

Describes(row, kind, r) ==
    /\ Happened(kind, r) /\ row.at = When(kind, r)
    /\ row.conn = r.id /\ row.base = Base /\ row.target = <<Scope>>
    /\ kind = "terminal" => /\ row.session = r.session
                            /\ Committed(row) <=> r.st # "failed"
    /\ kind = "outcome" \/ r.st # "failed" => row.path = r.path
    /\ kind = "outcome" => (row.term = "canceled" <=> r.canceled)

\* own gives each such row its connection; what is not in the file is lost.
Owned(file, own, kind, cs, t) ==
    /\ \A i \in DOMAIN file :
           Is(kind, file[i]) => own[i] \in Conns /\ Describes(file[i], kind, cs[own[i]])
    /\ \A i, j \in DOMAIN file :
           Is(kind, file[i]) /\ Is(kind, file[j]) /\ own[i] = own[j] => i = j
    /\ \A c \in Conns :
           Happened(kind, cs[c]) /\ When(kind, cs[c]) > t =>
               \E i \in DOMAIN file : Is(kind, file[i]) /\ own[i] = c

Attributed(file, kind, cs, t) == \E own : Owned(file, own, kind, cs, t)

\* What a connection's record says of its rows does not change.
Keeps(kind, r, q) ==
    /\ \A row : Describes(row, kind, r) => Describes(row, kind, q)
    /\ Happened(kind, q) => Happened(kind, r) /\ When(kind, q) = When(kind, r)

\* A change that keeps what the records say keeps the rows attributed.
LEMMA SameFile ==
    ASSUME NEW file, NEW kind, NEW cs, NEW t, Attributed(file, kind, cs, t),
           NEW ds, \A c \in Conns : Keeps(kind, cs[c], ds[c])
    PROVE  Attributed(file, kind, ds, t)
<1>1. PICK own : Owned(file, own, kind, cs, t)
  BY DEF Attributed
<1>2. Owned(file, own, kind, ds, t)
  BY <1>1 DEF Owned, Keeps
<1> QED BY <1>2 DEF Attributed

\* A row that is dropped makes everything up to then lost.
LEMMA RowDropped ==
    ASSUME NEW file, NEW kind, NEW cs, NEW t, Attributed(file, kind, cs, t), NEW u \in Nat,
           \A c \in Conns : Happened(kind, cs[c]) => When(kind, cs[c]) \in 0 .. u
    PROVE  Attributed(file, kind, cs, u)
<1>1. PICK own : Owned(file, own, kind, cs, t)
  BY DEF Attributed
<1>2. \A c \in Conns : Happened(kind, cs[c]) => ~(When(kind, cs[c]) > u)
  OBVIOUS
<1>3. Owned(file, own, kind, cs, u)
  BY <1>1, <1>2 DEF Owned
<1> QED BY <1>3 DEF Attributed

\* A file that is gone is lost up to now.
LEMMA NoFile ==
    ASSUME NEW kind, NEW cs, NEW u \in Nat,
           \A c \in Conns : Happened(kind, cs[c]) => When(kind, cs[c]) \in 0 .. u
    PROVE  Attributed(<<>>, kind, cs, u)
<1>1. \A c \in Conns : Happened(kind, cs[c]) => ~(When(kind, cs[c]) > u)
  OBVIOUS
<1>2. DOMAIN <<>> = {}
  OBVIOUS
<1>3. Owned(<<>>, <<>>, kind, cs, u)
  BY <1>1, <1>2 DEF Owned
<1> QED BY <1>3 DEF Attributed

\* What Append leaves and adds.
LEMMA Appended ==
    ASSUME NEW file, file \in Seq(Held(file)), NEW row
    PROVE  /\ Len(file) \in Nat /\ DOMAIN file = 1 .. Len(file)
           /\ Len(file) + 1 \notin DOMAIN file
           /\ DOMAIN Append(file, row) = DOMAIN file \cup {Len(file) + 1}
           /\ Append(file, row)[Len(file) + 1] = row
           /\ \A i \in DOMAIN file : Append(file, row)[i] = file[i]
<1> DEFINE S == Held(file) \cup {row}
           w == Append(file, row)
<1>1. file \in Seq(S)
  OBVIOUS
<1>2. w \in Seq(S) /\ DOMAIN w = 1 .. Len(file) + 1 /\ Len(file) \in Nat /\ DOMAIN file = 1 .. Len(file)
  BY <1>1
<1>3. w[Len(file) + 1] = row /\ \A i \in 1 .. Len(file) : w[i] = file[i]
  BY <1>1
<1> HIDE DEF w
<1>4. 1 .. Len(file) + 1 = 1 .. Len(file) \cup {Len(file) + 1} /\ Len(file) + 1 \notin 1 .. Len(file)
  BY <1>2
<1> QED BY <1>2, <1>3, <1>4 DEF w

\* A row of another kind is of no connection.
LEMMA OtherRow ==
    ASSUME NEW file, file \in Seq(Held(file)), NEW kind, NEW cs, NEW t,
           Attributed(file, kind, cs, t), NEW row, ~Is(kind, row)
    PROVE  Attributed(Append(file, row), kind, cs, t)
<1>1. PICK own : Owned(file, own, kind, cs, t)
  BY DEF Attributed
<1> DEFINE w == Append(file, row)
           n == Len(file) + 1
<1>2. /\ DOMAIN w = DOMAIN file \cup {n} /\ n \notin DOMAIN file /\ w[n] = row
      /\ \A i \in DOMAIN file : w[i] = file[i]
  BY Appended
<1> HIDE DEF w, n
<1>3. \A i \in DOMAIN w : Is(kind, w[i]) => i \in DOMAIN file /\ w[i] = file[i]
  BY <1>2
<1>4. Owned(w, own, kind, cs, t)
  BY <1>1, <1>2, <1>3 DEF Owned
<1> QED BY <1>4 DEF Attributed, w

\* The row of a connection that had none of this kind.
LEMMA OwnRow ==
    ASSUME NEW file, file \in Seq(Held(file)), NEW kind, NEW cs, NEW t,
           Attributed(file, kind, cs, t), NEW row, Is(kind, row), NEW c \in Conns,
           ~Happened(kind, cs[c]), NEW ds, Describes(row, kind, ds[c]),
           \A d \in Conns \ {c} : Keeps(kind, cs[d], ds[d])
    PROVE  Attributed(Append(file, row), kind, ds, t)
<1>1. PICK own : Owned(file, own, kind, cs, t)
  BY DEF Attributed
<1> DEFINE w == Append(file, row)
           n == Len(file) + 1
           new == [i \in DOMAIN w |-> IF i = n THEN c ELSE own[i]]
<1>2. /\ DOMAIN w = DOMAIN file \cup {n} /\ n \notin DOMAIN file /\ w[n] = row
      /\ \A i \in DOMAIN file : w[i] = file[i]
  BY Appended
<1> HIDE DEF w, n
<1>3. new[n] = c /\ \A i \in DOMAIN file : new[i] = own[i]
  BY <1>2
<1> HIDE DEF new
<1>4. \A i \in DOMAIN file : Is(kind, file[i]) =>
          own[i] \in Conns /\ own[i] # c /\ Describes(file[i], kind, cs[own[i]])
  BY <1>1 DEF Owned, Describes
<1>5. \A i \in DOMAIN w : Is(kind, w[i]) => new[i] \in Conns /\ Describes(w[i], kind, ds[new[i]])
  BY <1>2, <1>3, <1>4 DEF Keeps
<1>6. \A i, j \in DOMAIN w : Is(kind, w[i]) /\ Is(kind, w[j]) /\ new[i] = new[j] => i = j
  BY <1>1, <1>2, <1>3, <1>4 DEF Owned
<1>7. ASSUME NEW d \in Conns, Happened(kind, ds[d]), When(kind, ds[d]) > t
      PROVE  \E i \in DOMAIN w : Is(kind, w[i]) /\ new[i] = d
  <2>1. CASE d = c
    BY <1>2, <1>3, <2>1
  <2>2. CASE d # c
    <3>1. Happened(kind, cs[d]) /\ When(kind, cs[d]) > t
      BY <1>7, <2>2 DEF Keeps
    <3>2. PICK i \in DOMAIN file : Is(kind, file[i]) /\ own[i] = d
      BY <1>1, <3>1 DEF Owned
    <3> QED BY <1>2, <1>3, <3>2
  <2> QED BY <2>1, <2>2
<1>8. Owned(w, new, kind, ds, t)
  BY <1>5, <1>6, <1>7 DEF Owned
<1> QED BY <1>8 DEF Attributed, w

\* The oldest row goes, and is lost from then on.
LEMMA OldestGone ==
    ASSUME NEW file, file \in Seq(Held(file)), file # <<>>, NEW kind, NEW cs, NEW t \in Nat,
           Attributed(file, kind, cs, t), Head(file).at \in Nat,
           \A c \in Conns : Happened(kind, cs[c]) => When(kind, cs[c]) \in Nat
    PROVE  Attributed(Tail(file), kind, cs, Max2(t, Head(file).at))
<1>1. PICK own : Owned(file, own, kind, cs, t)
  BY DEF Attributed
<1> DEFINE w == Tail(file)
           new == [i \in DOMAIN w |-> own[i + 1]]
           u == Max2(t, Head(file).at)
<1>2. /\ DOMAIN w = 1 .. Len(file) - 1 /\ Len(file) \in Nat \ {0} /\ DOMAIN file = 1 .. Len(file)
      /\ Head(file) = file[1] /\ \A i \in 1 .. Len(file) - 1 : w[i] = file[i + 1]
  OBVIOUS
<1> HIDE DEF w
<1>3. \A i \in DOMAIN w : i + 1 \in DOMAIN file /\ w[i] = file[i + 1] /\ new[i] = own[i + 1]
  BY <1>2
<1>4. \A i \in DOMAIN file : i # 1 => i - 1 \in DOMAIN w /\ (i - 1) + 1 = i
  BY <1>2
<1>5. u \in Nat /\ u >= t /\ u >= file[1].at /\ file[1].at \in Nat
  BY <1>2 DEF Max2
<1> HIDE DEF new, u
<1>6. \A i \in DOMAIN w : Is(kind, w[i]) => new[i] \in Conns /\ Describes(w[i], kind, cs[new[i]])
  BY <1>1, <1>3 DEF Owned
<1>7. \A i, j \in DOMAIN w : Is(kind, w[i]) /\ Is(kind, w[j]) /\ new[i] = new[j] => i = j
  <2> SUFFICES ASSUME NEW i \in DOMAIN w, NEW j \in DOMAIN w, Is(kind, w[i]), Is(kind, w[j]),
                      new[i] = new[j]
               PROVE  i = j
    OBVIOUS
  <2>1. i + 1 = j + 1
    BY <1>1, <1>3 DEF Owned
  <2> QED BY <1>2, <2>1
<1>8. ASSUME NEW c \in Conns, Happened(kind, cs[c]), When(kind, cs[c]) > u
      PROVE  \E i \in DOMAIN w : Is(kind, w[i]) /\ new[i] = c
  <2>1. When(kind, cs[c]) > t /\ When(kind, cs[c]) # file[1].at
    BY <1>5, <1>8
  <2>2. PICK i \in DOMAIN file : Is(kind, file[i]) /\ own[i] = c
    BY <1>1, <1>8, <2>1 DEF Owned
  <2>3. i # 1
    BY <1>1, <2>1, <2>2 DEF Owned, Describes
  <2> QED BY <1>3, <1>4, <2>2, <2>3
<1>9. Owned(w, new, kind, cs, u)
  BY <1>6, <1>7, <1>8 DEF Owned
<1> QED BY <1>9 DEF Attributed, w, u

-----------------------------------------------------------------------------
(* A trial of the engine's rows: the inductive invariant.                  *)

Told(r, t) ==
    /\ r.st # "idle" => r.at \in 1 .. t
    /\ r.st = "ended" => r.ended \in 1 .. t
    /\ r.canceled \in BOOLEAN

\* The guard and the supervisor write no row of a connection.
Elsewhere(files) ==
    \A s \in Files \ {"engine"} : \A i \in DOMAIN files[s] :
        files[s][i].type \notin TerminalTypes \cup {"relay_outcome"}

HistoryInv ==
    /\ EngineInv /\ lost \in 0 .. now
    /\ \A c \in Conns : Told(conns[c], now)
    /\ Elsewhere(dir)
    /\ \A kind \in Kinds : Attributed(dir["engine"], kind, conns, lost)

LEMMA HistoryFacts ==
    ASSUME HistoryInv
    PROVE  /\ now \in Nat /\ now # 0 /\ lost \in Nat /\ paused \in BOOLEAN
           /\ DOMAIN conns = Conns /\ DOMAIN dir = Files /\ "engine" \in Files
           /\ \A s \in Files : dir[s] \in Seq(Held(dir[s]))
           /\ \A kind \in Kinds : \A c \in Conns :
                  Happened(kind, conns[c]) => When(kind, conns[c]) \in 0 .. now
<1>1. now \in Nat /\ now # 0 /\ lost \in Nat /\ paused \in BOOLEAN
  BY BoundsAre DEF HistoryInv, EngineInv
<1>2. /\ DOMAIN conns = Conns /\ DOMAIN dir = Files /\ "engine" \in Files
      /\ \A s \in Files : dir[s] \in Seq(Held(dir[s]))
  BY DEF HistoryInv, EngineInv, ConnsOk, FilesOk, FileOk, Files
<1>3. ASSUME NEW kind \in Kinds, NEW c \in Conns, Happened(kind, conns[c])
      PROVE  When(kind, conns[c]) \in 0 .. now
  <2>1. Told(conns[c], now)
    BY DEF HistoryInv
  <2> QED BY <1>1, <1>3, <2>1 DEF Told, Happened, When, Kinds
<1> QED BY <1>1, <1>2, <1>3

LEMMA KeptIfSame == \A kind, r : Keeps(kind, r, r)
BY DEF Keeps

\* A connection of a running engine changes, and says so in a row of its own.
LEMMA ConnTells ==
    ASSUME HistoryInv, NEW c \in Conns, NEW r, conns' = [conns EXCEPT ![c] = r],
           NEW event, Emit(engine, event), Recordable(event), now' = now, EngineInv',
           Written(event, engine, now).source = "engine", Told(r, now),
           NEW kind \in Kinds, NEW other \in Kinds, Kinds = {kind, other},
           Is(kind, Written(event, engine, now)), ~Is(other, Written(event, engine, now)),
           Describes(Written(event, engine, now), kind, r),
           ~Happened(kind, conns[c]), Keeps(other, conns[c], r)
    PROVE  HistoryInv'
<1> DEFINE row == Written(event, engine, now)
           file == dir["engine"]
<1>0. /\ now \in Nat /\ lost \in Nat /\ paused \in BOOLEAN
      /\ DOMAIN conns = Conns /\ DOMAIN dir = Files /\ "engine" \in Files /\ file \in Seq(Held(file))
  BY HistoryFacts
<1>1. /\ paused => lost' = now /\ dir' = dir
      /\ ~paused => dir' = [dir EXCEPT !["engine"] = Append(@, row)] /\ lost' = lost
  BY DEF Emit, Written
<1> HIDE DEF row
<1>2. conns'[c] = r /\ \A d \in Conns \ {c} : conns'[d] = conns[d]
  BY <1>0
<1>3. \A d \in Conns : Told(conns'[d], now')
  BY <1>2 DEF HistoryInv
<1>4. lost' \in 0 .. now'
  BY <1>0, <1>1 DEF HistoryInv
<1>5. Elsewhere(dir')
  <2>1. \A s \in Files \ {"engine"} : dir'[s] = dir[s]
    BY <1>0, <1>1
  <2> QED BY <2>1 DEF HistoryInv, Elsewhere
<1>6. CASE paused
  <2>1. \A d \in Conns : Keeps(other, conns[d], conns'[d])
    BY <1>2, KeptIfSame
  <2>2. \A k \in Kinds : \A d \in Conns : Happened(k, conns'[d]) => When(k, conns'[d]) \in 0 .. now
    <3> SUFFICES ASSUME NEW k \in Kinds, NEW d \in Conns, Happened(k, conns'[d])
                 PROVE  When(k, conns'[d]) \in 0 .. now
      OBVIOUS
    <3>1. Told(conns'[d], now)
      BY <1>3
    <3> QED BY <1>0, <3>1 DEF Told, Happened, When, Kinds
  <2>3. Attributed(file, other, conns', now)
    <3>1. Attributed(file, other, conns', lost)
      BY <2>1, SameFile DEF HistoryInv
    <3> QED BY <1>0, <2>2, <3>1, RowDropped
  <2>4. Attributed(file, kind, conns', now)
    <3>1. PICK own : Owned(file, own, kind, conns, lost)
      BY DEF HistoryInv, Attributed
    <3>2. \A i \in DOMAIN file : Is(kind, file[i]) => own[i] # c
      BY <3>1 DEF Owned, Describes
    <3>3. \A d \in Conns : ~(Happened(kind, conns'[d]) /\ When(kind, conns'[d]) > now)
      BY <1>0, <2>2
    <3>4. Owned(file, own, kind, conns', now)
      BY <1>2, <3>1, <3>2, <3>3 DEF Owned
    <3> QED BY <3>4 DEF Attributed
  <2>5. \A k \in Kinds : Attributed(dir'["engine"], k, conns', lost')
    BY <1>1, <1>6, <2>3, <2>4
  <2> QED BY <1>3, <1>4, <1>5, <2>5 DEF HistoryInv
<1>7. CASE ~paused
  <2>1. dir'["engine"] = Append(file, row) /\ lost' = lost
    BY <1>0, <1>1, <1>7
  <2>2. Attributed(Append(file, row), kind, conns', lost)
    <3>1. \A d \in Conns \ {c} : Keeps(kind, conns[d], conns'[d])
      BY <1>2, KeptIfSame
    <3>2. Attributed(file, kind, conns, lost) /\ Is(kind, row) /\ Describes(row, kind, conns'[c])
      BY <1>2 DEF HistoryInv, row
    <3> QED BY <1>0, <3>1, <3>2, OwnRow
  <2>3. Attributed(Append(file, row), other, conns', lost)
    <3>1. \A d \in Conns : Keeps(other, conns[d], conns'[d])
      BY <1>2, KeptIfSame
    <3>2. Attributed(file, other, conns', lost)
      BY <3>1, SameFile DEF HistoryInv
    <3> QED BY <1>0, <3>2, OtherRow DEF row
  <2>4. \A k \in Kinds : Attributed(dir'["engine"], k, conns', lost')
    BY <2>1, <2>2, <2>3
  <2> QED BY <1>3, <1>4, <1>5, <2>4 DEF HistoryInv
<1> QED BY <1>0, <1>6, <1>7

-----------------------------------------------------------------------------
(* Its steps, one by one.                                                  *)

\* The row of a decision describes the connection that was decided.
LEMMA DecisionTells ==
    ASSUME NEW id, NEW path \in PathNames, NEW other, NEW took, NEW session, NEW t \in Nat, t # 0
    PROVE  LET row == Written(DecisionEvent(id, Scope, Base, path, other, took), session, t)
               r == [Idle EXCEPT !.st = "open", !.id = id, !.session = session, !.path = path, !.at = t]
           IN  /\ row.source = "engine" /\ Is("terminal", row) /\ ~Is("outcome", row)
               /\ Describes(row, "terminal", r) /\ ~Happened("outcome", r) /\ Told(r, t)
<1> DEFINE row == Written(DecisionEvent(id, Scope, Base, path, other, took), session, t)
           r == [Idle EXCEPT !.st = "open", !.id = id, !.session = session, !.path = path, !.at = t]
<1>1. /\ row.source = "engine" /\ row.type = "decision" /\ row.at = t /\ row.session = session
      /\ row.conn = id /\ row.base = Base /\ row.path = path
      /\ row.target = <<Scope>> /\ row.committed = <<TRUE>>
  BY DEF Written, DecisionEvent, Empty
<1>2. /\ r.st = "open" /\ r.id = id /\ r.session = session /\ r.path = path /\ r.at = t
      /\ r.canceled = FALSE
  BY DEF Idle
<1> HIDE DEF row, r
<1>3. Is("terminal", row) /\ ~Is("outcome", row)
  BY <1>1 DEF Is, TypesOf, TerminalTypes
<1>4. Happened("terminal", r) /\ When("terminal", r) = t /\ ~Happened("outcome", r)
  BY <1>2 DEF Happened, When
<1>5. Committed(row)
  BY <1>1 DEF Committed
<1>6. Describes(row, "terminal", r)
  BY <1>1, <1>2, <1>4, <1>5 DEF Describes
<1>7. Told(r, t)
  <2>1. r.canceled \in BOOLEAN
    BY <1>2, Zenon
  <2>2. r.at \in 1 .. t /\ r.st # "ended"
    BY <1>2
  <2> QED BY <2>1, <2>2 DEF Told
<1> QED BY <1>1, <1>3, <1>4, <1>6, <1>7 DEF row, r

\* The row of a diagnostic describes the connection that failed.
LEMMA DiagnosticTells ==
    ASSUME NEW id, NEW session, NEW t \in Nat, t # 0
    PROVE  LET row == Written(DiagnosticEvent(id, Scope, Base), session, t)
               r == [Idle EXCEPT !.st = "failed", !.id = id, !.session = session, !.at = t]
           IN  /\ row.source = "engine" /\ Is("terminal", row) /\ ~Is("outcome", row)
               /\ Describes(row, "terminal", r) /\ ~Happened("outcome", r) /\ Told(r, t)
<1> DEFINE row == Written(DiagnosticEvent(id, Scope, Base), session, t)
           r == [Idle EXCEPT !.st = "failed", !.id = id, !.session = session, !.at = t]
<1>1. /\ row.source = "engine" /\ row.type = "diagnostic" /\ row.at = t /\ row.session = session
      /\ row.conn = id /\ row.base = Base /\ row.target = <<Scope>>
  BY DEF Written, DiagnosticEvent, Empty
<1>2. r.st = "failed" /\ r.id = id /\ r.session = session /\ r.at = t /\ r.canceled = FALSE
  BY DEF Idle
<1> HIDE DEF row, r
<1>3. Is("terminal", row) /\ ~Is("outcome", row)
  BY <1>1 DEF Is, TypesOf, TerminalTypes
<1>4. Happened("terminal", r) /\ When("terminal", r) = t /\ ~Happened("outcome", r)
  BY <1>2 DEF Happened, When
<1>5. ~Committed(row)
  BY <1>1 DEF Committed
<1>6. Describes(row, "terminal", r)
  BY <1>1, <1>2, <1>4, <1>5 DEF Describes
<1>7. Told(r, t)
  <2>1. r.canceled \in BOOLEAN
    BY <1>2, Zenon
  <2>2. r.at \in 1 .. t /\ r.st # "ended"
    BY <1>2
  <2> QED BY <2>1, <2>2 DEF Told
<1> QED BY <1>1, <1>3, <1>4, <1>6, <1>7 DEF row, r

\* The events of the other processes are of no connection.
LEMMA EventOfNone ==
    ASSUME NEW e \in Events, NEW session, NEW t
    PROVE  LET row == Written(e[2], session, t)
           IN  row.source \in Files /\ row.type \notin TerminalTypes \cup {"relay_outcome"}
<1> DEFINE quiet(row) == row.source \in Files /\ row.type \notin TerminalTypes \cup {"relay_outcome"}
<1>1. quiet(Written(SupervisorEvent, session, t))
  BY DEF Written, SupervisorEvent, Empty, Files, TerminalTypes
<1>2. \A s, lane : quiet(Written(GuardEvent(s, lane), session, t))
  BY DEF Written, GuardEvent, Empty, Files, TerminalTypes
<1>3. \A target : quiet(Written(HealthEvent(target), session, t))
  BY DEF Written, HealthEvent, Empty, Files, TerminalTypes
<1>4. \A s : quiet(Written(AssessmentEvent(s), session, t))
  BY DEF Written, AssessmentEvent, Empty, Files, TerminalTypes
<1>5. \/ e[2] = SupervisorEvent
      \/ \E s \in Scopes : \/ \E lane \in {"adaptive", "original", ""} : e[2] = GuardEvent(s, lane)
                           \/ e[2] \in {HealthEvent(<<>>), HealthEvent(<<s>>), AssessmentEvent(s)}
  BY TrialAssumption, Zenon
<1> HIDE DEF quiet
<1>6. quiet(Written(e[2], session, t))
  BY <1>1, <1>2, <1>3, <1>4, <1>5
<1> QED BY <1>6 DEF quiet

LEMMA KindsAre == Kinds = {"terminal", "outcome"} /\ Kinds = {"outcome", "terminal"}
BY DEF Kinds

\* Initially there are no rows but those an older version left, and no connection.
LEMMA HistoryInit == Init => HistoryInv
<1> SUFFICES ASSUME Init PROVE HistoryInv
  OBVIOUS
<1>1. EngineInv
  BY EngineInit
<1>2. now = 1 /\ lost = 0 /\ conns = [c \in Conns |-> Idle]
  BY DEF Init
<1>3. PICK rows \in Legacy : dir = [s \in Files |-> IF s = "engine" THEN rows ELSE <<>>]
  BY SourcesAre DEF Init
<1>4. dir["engine"] = rows /\ \A s \in Files \ {"engine"} : dir[s] = <<>>
  BY <1>3 DEF Files
<1>5. Elsewhere(dir)
  BY <1>4 DEF Elsewhere
<1>6. \A c \in Conns : Told(conns[c], now)
  <2>1. Told(Idle, now)
    <3>1. Idle.st = "idle" /\ Idle.canceled \in BOOLEAN
      BY DEF Idle
    <3> QED BY <3>1 DEF Told
  <2> QED BY <1>2, <2>1
<1>7. \A i \in DOMAIN rows : \A kind : ~Is(kind, rows[i])
  BY TrialAssumption, Zenon DEF Is
<1>8. \A kind \in Kinds : Attributed(dir["engine"], kind, conns, lost)
  <2>1. ASSUME NEW kind \in Kinds PROVE Owned(rows, <<>>, kind, conns, lost)
    <3>1. \A c \in Conns : ~Happened(kind, conns[c])
      BY <1>2 DEF Happened, Idle
    <3> QED BY <1>7, <3>1 DEF Owned
  <2> QED BY <1>4, <2>1 DEF Attributed
<1> QED BY <1>1, <1>2, <1>5, <1>6, <1>8 DEF HistoryInv

\* A decision that commits changes one connection and writes its terminal row.
LEMMA DecideTold ==
    ASSUME HistoryInv, EngineInv', NEW c \in Conns, NEW id, NEW d \in Decisions,
           Decide(c, id, d[1], d[2], d[3])
    PROVE  HistoryInv'
<1> DEFINE r == [Idle EXCEPT !.st = "open", !.id = id, !.session = engine, !.path = d[1], !.at = now]
           e == DecisionEvent(id, Scope, Base, d[1], d[2], d[3])
           row == Written(e, engine, now)
<1>1. /\ conns[c].st = "idle" /\ conns' = [conns EXCEPT ![c] = r] /\ Emit(engine, e) /\ now' = now
  BY DEF Decide
<1>2. now \in Nat /\ now # 0
  BY HistoryFacts
<1>3. d[1] \in PathNames /\ d[2] \in Others(d[1])
  BY TrialAssumption, Zenon
<1>4. /\ row.source = "engine" /\ Is("terminal", row) /\ ~Is("outcome", row)
      /\ Describes(row, "terminal", r) /\ ~Happened("outcome", r) /\ Told(r, now)
  BY <1>2, <1>3, DecisionTells
<1>5. Recordable(e)
  <2>1. IdOk(id, c)
    BY Zenon DEF Decide, IdOk
  <2> QED BY <1>3, <2>1, IdKnown, DecisionSound DEF Sound
<1> HIDE DEF r, e
<1>6. ~Happened("terminal", conns[c]) /\ Keeps("outcome", conns[c], r)
  BY <1>1, <1>4 DEF Happened, Keeps, Describes
<1> QED BY <1>1, <1>4, <1>5, <1>6, KindsAre, ConnTells

\* So does a connection that fails.
LEMMA FailTold ==
    ASSUME HistoryInv, EngineInv', NEW c \in Conns, NEW id, Fail(c, id)
    PROVE  HistoryInv'
<1> DEFINE r == [Idle EXCEPT !.st = "failed", !.id = id, !.session = engine, !.at = now]
           e == DiagnosticEvent(id, Scope, Base)
           row == Written(e, engine, now)
<1>1. /\ conns[c].st = "idle" /\ conns' = [conns EXCEPT ![c] = r] /\ Emit(engine, e) /\ now' = now
  BY DEF Fail
<1>2. now \in Nat /\ now # 0
  BY HistoryFacts
<1>4. /\ row.source = "engine" /\ Is("terminal", row) /\ ~Is("outcome", row)
      /\ Describes(row, "terminal", r) /\ ~Happened("outcome", r) /\ Told(r, now)
  BY <1>2, DiagnosticTells
<1>5. Recordable(e)
  <2>1. IdOk(id, c)
    BY Zenon DEF Fail, IdOk
  <2> QED BY <2>1, IdKnown, DiagnosticSound DEF Sound
<1> HIDE DEF r, e
<1>6. ~Happened("terminal", conns[c]) /\ Keeps("outcome", conns[c], r)
  BY <1>1, <1>4 DEF Happened, Keeps, Describes
<1> QED BY <1>1, <1>4, <1>5, <1>6, KindsAre, ConnTells

\* A relay that ends writes its outcome row and leaves the terminal row true.
LEMMA RelayTold ==
    ASSUME HistoryInv, EngineInv', NEW c \in Conns, NEW e \in Endings,
           RelayEnded(c, e[1], e[2], e[3], e[4], e[5])
    PROVE  HistoryInv'
<1> DEFINE o == conns[c]
           r == [o EXCEPT !.st = "ended", !.up = e[1], !.down = e[2], !.canceled = e[4], !.ended = now]
           event == RelayEvent(o.id, Scope, Base, o.path, e[1], e[2], e[3], e[4], e[5])
           row == Written(event, engine, now)
<1>1. /\ o.st = "open" /\ conns' = [conns EXCEPT ![c] = r] /\ Emit(engine, event) /\ now' = now
  BY Zenon DEF RelayEnded
<1>2. now \in Nat /\ now # 0
  BY HistoryFacts
<1>3. ConnOk(o, c) /\ Told(o, now)
  BY DEF HistoryInv, EngineInv, ConnsOk
<1>4. /\ e[1] \in Nat /\ e[2] \in Nat /\ e[3] \in Nat /\ e[4] \in BOOLEAN
      /\ \A i \in {1, 2} : e[5][i] \in EndReasons \ {"canceled"}
  BY TrialAssumption, Zenon
<1>5. Recordable(event)
  <2>1. IdOk(o.id, c) /\ o.path \in PathNames
    BY <1>1, <1>3 DEF ConnOk
  <2> QED BY <1>4, <2>1, IdKnown, RelaySound DEF Sound
<1>6. /\ row.source = "engine" /\ Is("outcome", row) /\ ~Is("terminal", row)
      /\ Describes(row, "outcome", r) /\ Keeps("terminal", o, r) /\ Told(r, now)
  <2>1. /\ row.source = "engine" /\ row.type = "relay_outcome" /\ row.at = now
        /\ row.conn = o.id /\ row.base = Base /\ row.path = o.path /\ row.target = <<Scope>>
        /\ row.term = IF e[4] THEN "canceled" ELSE "ended"
    BY DEF Written, RelayEvent, Empty
  <2>2. /\ r.st = "ended" /\ r.id = o.id /\ r.session = o.session /\ r.path = o.path /\ r.at = o.at
        /\ r.ended = now /\ r.canceled = e[4] /\ o.st = "open"
    BY <1>1, <1>3 DEF ConnOk, Fields
  <2> HIDE DEF row, r, o
  <2>3. Is("outcome", row) /\ ~Is("terminal", row)
    BY <1>2, <2>1 DEF Is, TypesOf, TerminalTypes
  <2>4. Happened("outcome", r) /\ When("outcome", r) = now
    BY <2>2 DEF Happened, When
  <2>5. (row.term = "canceled" <=> r.canceled)
    BY <1>4, <2>1, <2>2
  <2>6. Describes(row, "outcome", r)
    BY <2>1, <2>2, <2>4, <2>5 DEF Describes
  <2>7. Keeps("terminal", o, r)
    BY <2>2 DEF Keeps, Describes, Happened, When
  <2>8. Told(r, now)
    BY <1>2, <1>3, <1>4, <2>2 DEF Told
  <2> QED BY <2>1, <2>3, <2>6, <2>7, <2>8
<1> HIDE DEF r, event
<1>7. ~Happened("outcome", conns[c])
  BY <1>1 DEF Happened
<1> QED BY <1>1, <1>5, <1>6, <1>7, KindsAre, ConnTells

\* The rows of the other components are of no connection.
LEMMA OtherTold ==
    ASSUME HistoryInv, EngineInv', NEW e \in Events, OtherEmits(e[1], e[2])
    PROVE  HistoryInv'
<1> DEFINE row == Written(e[2], e[1], now)
           file == dir["engine"]
<1>0. /\ now \in Nat /\ lost \in Nat /\ paused \in BOOLEAN
      /\ DOMAIN dir = Files /\ "engine" \in Files /\ \A s \in Files : dir[s] \in Seq(Held(dir[s]))
      /\ \A kind \in Kinds : \A c \in Conns :
             Happened(kind, conns[c]) => When(kind, conns[c]) \in 0 .. now
  BY HistoryFacts
<1>1. Emit(e[1], e[2]) /\ now' = now /\ conns' = conns
  BY DEF OtherEmits
<1>2. row.source \in Files /\ row.type \notin TerminalTypes \cup {"relay_outcome"}
  BY EventOfNone
<1>3. Recordable(e[2])
  BY EventSound DEF Sound
<1>4. /\ paused => lost' = now /\ dir' = dir
      /\ ~paused => dir' = [dir EXCEPT ![row.source] = Append(@, row)] /\ lost' = lost
  BY <1>1, <1>3 DEF Emit, Written
<1> HIDE DEF row
<1>5. \A d \in Conns : Told(conns'[d], now')
  BY <1>1 DEF HistoryInv
<1>6. lost' \in 0 .. now'
  BY <1>0, <1>1, <1>4 DEF HistoryInv
<1>7. Elsewhere(dir')
  <2>1. CASE paused
    BY <1>4, <2>1 DEF HistoryInv
  <2>2. CASE ~paused
    <3> SUFFICES ASSUME NEW s \in Files \ {"engine"}, NEW i \in DOMAIN dir'[s]
                 PROVE  dir'[s][i].type \notin TerminalTypes \cup {"relay_outcome"}
      BY DEF Elsewhere
    <3>1. \A k \in DOMAIN dir[s] : dir[s][k].type \notin TerminalTypes \cup {"relay_outcome"}
      BY DEF HistoryInv, Elsewhere
    <3>2. CASE s # row.source
      BY <1>0, <1>4, <2>2, <3>1, <3>2
    <3>3. CASE s = row.source
      <4>1. dir'[s] = Append(dir[s], row) /\ dir[s] \in Seq(Held(dir[s]))
        BY <1>0, <1>2, <1>4, <2>2, <3>3
      <4>2. (i \in DOMAIN dir[s] /\ dir'[s][i] = dir[s][i]) \/ dir'[s][i] = row
        BY <4>1, Appended
      <4> QED BY <1>2, <3>1, <4>2
    <3> QED BY <3>2, <3>3
  <2> QED BY <1>0, <2>1, <2>2
<1>8. ASSUME NEW kind \in Kinds PROVE Attributed(dir'["engine"], kind, conns', lost')
  <2>1. Attributed(file, kind, conns, lost)
    BY DEF HistoryInv
  <2>2. CASE paused
    <3>1. Attributed(file, kind, conns, now)
      BY <1>0, <2>1, RowDropped
    <3> QED BY <1>1, <1>4, <2>2, <3>1
  <2>3. CASE ~paused
    <3>1. CASE row.source # "engine"
      BY <1>0, <1>1, <1>4, <2>1, <2>3, <3>1
    <3>2. CASE row.source = "engine"
      <4>1. ~Is(kind, row)
        BY <1>2 DEF Is, TypesOf
      <4>2. dir'["engine"] = Append(file, row) /\ lost' = lost
        BY <1>0, <1>4, <2>3, <3>2
      <4>3. Attributed(Append(file, row), kind, conns, lost)
        BY <1>0, <2>1, <4>1, OtherRow
      <4> QED BY <1>1, <4>2, <4>3
    <3> QED BY <3>1, <3>2
  <2> QED BY <1>0, <2>2, <2>3
<1> QED BY <1>5, <1>6, <1>7, <1>8 DEF HistoryInv

\* A kill loses no row: the connections that are gone keep the terminal they have.
LEMMA KillTold ==
    ASSUME HistoryInv, EngineInv', Kill
    PROVE  HistoryInv'
<1>1. /\ UNCHANGED <<now, dir, lost>>
      /\ conns' = [c \in Conns |-> IF conns[c].st = "open" THEN [conns[c] EXCEPT !.st = "gone"] ELSE conns[c]]
  BY DEF Kill
<1>2. ASSUME NEW c \in Conns
      PROVE  Told(conns'[c], now) /\ \A kind \in Kinds : Keeps(kind, conns[c], conns'[c])
  <2>1. Told(conns[c], now) /\ ConnOk(conns[c], c)
    BY DEF HistoryInv, EngineInv, ConnsOk
  <2>2. CASE conns[c].st # "open"
    BY <1>1, <2>1, <2>2, KeptIfSame
  <2>3. CASE conns[c].st = "open"
    <3> DEFINE o == conns[c]
               r == [o EXCEPT !.st = "gone"]
    <3>1. conns'[c] = r
      BY <1>1, <2>3
    <3>2. /\ r.st = "gone" /\ r.id = o.id /\ r.session = o.session /\ r.path = o.path /\ r.at = o.at
          /\ r.canceled = o.canceled /\ o.st = "open"
      BY <2>1, <2>3 DEF ConnOk, Fields
    <3> HIDE DEF o, r
    <3>3. Told(r, now) /\ \A kind \in Kinds : Keeps(kind, o, r)
      BY <2>1, <3>2 DEF Told, Keeps, Describes, Happened, When, Kinds, o
    <3> QED BY <3>1, <3>3 DEF o
  <2> QED BY <2>2, <2>3
<1>3. \A kind \in Kinds : Attributed(dir["engine"], kind, conns', lost)
  BY <1>2, SameFile DEF HistoryInv
<1> QED BY <1>1, <1>2, <1>3 DEF HistoryInv

\* Pruning drops the oldest rows and counts them as lost.
LEMMA PruneTold ==
    ASSUME HistoryInv, EngineInv', Prune
    PROVE  HistoryInv'
<1> DEFINE file == dir["engine"]
<1>0. /\ now \in Nat /\ lost \in Nat /\ DOMAIN dir = Files /\ "engine" \in Files
      /\ file \in Seq(Held(file))
      /\ \A kind \in Kinds : \A c \in Conns :
             Happened(kind, conns[c]) => When(kind, conns[c]) \in 0 .. now
  BY HistoryFacts
<1>1. /\ file # <<>> /\ dir' = [dir EXCEPT !["engine"] = Tail(file)]
      /\ lost' = Max2(lost, Head(file).at) /\ UNCHANGED <<now, conns>>
  BY DEF Prune
<1>2. Head(file).at \in 0 .. now
  <2>1. FileOk(file, "engine", now)
    BY <1>0 DEF HistoryInv, EngineInv, FilesOk
  <2>2. RowOk(Head(file), "engine", now)
    BY <1>1, <2>1, FileShrinks
  <2> QED BY <2>2 DEF RowOk
<1> HIDE DEF file
<1>3. dir'["engine"] = Tail(file) /\ \A s \in Files \ {"engine"} : dir'[s] = dir[s]
  BY <1>0, <1>1
<1>4. Elsewhere(dir')
  BY <1>3 DEF HistoryInv, Elsewhere
<1>5. lost' \in 0 .. now'
  BY <1>0, <1>1, <1>2 DEF HistoryInv, Max2
<1>6. ASSUME NEW kind \in Kinds PROVE Attributed(Tail(file), kind, conns, Max2(lost, Head(file).at))
  <2>1. Attributed(file, kind, conns, lost)
    BY DEF HistoryInv, file
  <2>2. Head(file).at \in Nat /\ \A c \in Conns : Happened(kind, conns[c]) => When(kind, conns[c]) \in Nat
    BY <1>0, <1>2
  <2> QED BY <1>0, <1>1, <2>1, <2>2, OldestGone
<1>7. \A kind \in Kinds : Attributed(dir'["engine"], kind, conns', lost')
  BY <1>1, <1>3, <1>6
<1>8. \A d \in Conns : Told(conns'[d], now')
  BY <1>1 DEF HistoryInv
<1> QED BY <1>4, <1>5, <1>7, <1>8 DEF HistoryInv

\* Clearing drops all rows and makes everything up to now lost.
LEMMA ClearTold ==
    ASSUME HistoryInv, EngineInv', Clear
    PROVE  HistoryInv'
<1>0. /\ now \in Nat /\ DOMAIN dir = Files /\ "engine" \in Files
      /\ \A kind \in Kinds : \A c \in Conns :
             Happened(kind, conns[c]) => When(kind, conns[c]) \in 0 .. now
  BY HistoryFacts
<1>1. dir' = [s \in DOMAIN dir |-> <<>>] /\ lost' = now /\ UNCHANGED <<now, conns>>
  BY DEF Clear
<1>2. \A s \in Files : dir'[s] = <<>>
  BY <1>0, <1>1
<1>3. Elsewhere(dir')
  BY <1>2 DEF Elsewhere
<1>4. \A kind \in Kinds : Attributed(<<>>, kind, conns, now)
  BY <1>0, NoFile
<1>5. \A kind \in Kinds : Attributed(dir'["engine"], kind, conns', lost')
  BY <1>0, <1>1, <1>2, <1>4
<1>6. \A d \in Conns : Told(conns'[d], now')
  BY <1>1 DEF HistoryInv
<1>7. lost' \in 0 .. now'
  BY <1>0, <1>1
<1> QED BY <1>3, <1>5, <1>6, <1>7 DEF HistoryInv

\* The clock goes on, a process starts, recording is switched: no row, no
\* connection changes.
LEMMA QuietTold ==
    ASSUME HistoryInv, EngineInv', UNCHANGED <<conns, dir, lost>>, now' \in Nat, now' >= now
    PROVE  HistoryInv'
<1>1. now \in Nat
  BY HistoryFacts
<1>2. lost' \in 0 .. now'
  BY <1>1 DEF HistoryInv
<1>3. ASSUME NEW c \in Conns PROVE Told(conns'[c], now')
  <2>1. Told(conns[c], now) /\ conns'[c] = conns[c]
    BY DEF HistoryInv
  <2> QED BY <1>1, <2>1 DEF Told
<1>4. Elsewhere(dir') /\ \A kind \in Kinds : Attributed(dir'["engine"], kind, conns', lost')
  BY DEF HistoryInv
<1> QED BY <1>2, <1>3, <1>4 DEF HistoryInv

LEMMA HistoryNext == HistoryInv /\ Next => HistoryInv'
<1> SUFFICES ASSUME HistoryInv, Next PROVE HistoryInv'
  OBVIOUS
<1>0. EngineInv' /\ now \in Nat
  BY EngineNext, HistoryFacts DEF HistoryInv
<1>1. ASSUME Tick \/ Pause \/ Resume \/ \E s \in {"planned", "stray"} : Start(s)
      PROVE  HistoryInv'
  <2>1. UNCHANGED <<conns, dir, lost>> /\ now' \in {now, now + 1}
    BY <1>1 DEF Tick, Pause, Resume, Start
  <2>2. now' \in Nat /\ now' >= now
    BY <1>0, <2>1
  <2> QED BY <1>0, <2>1, <2>2, QuietTold
<1>2. CASE \E e \in Events : OtherEmits(e[1], e[2])
  BY <1>0, <1>2, OtherTold
<1>3. ASSUME NEW c \in Conns, NEW id \in Conns \cup {""},
             Fail(c, id) \/ \E d \in Decisions : Decide(c, id, d[1], d[2], d[3])
      PROVE  HistoryInv'
  BY <1>0, <1>3, FailTold, DecideTold, Zenon
<1>4. CASE \E c \in Conns, e \in Endings : RelayEnded(c, e[1], e[2], e[3], e[4], e[5])
  BY <1>0, <1>4, RelayTold
<1> QED BY <1>0, <1>1, <1>2, <1>3, <1>4, KillTold, PruneTold, ClearTold, Zenon DEF Next

LEMMA HistoryStutters == HistoryInv /\ UNCHANGED vars => HistoryInv'
<1> SUFFICES ASSUME HistoryInv, UNCHANGED vars PROVE HistoryInv'
  OBVIOUS
<1>1. UNCHANGED <<now, conns, dir, lost>> /\ now \in Nat
  BY HistoryFacts DEF vars
<1>2. EngineInv'
  BY EngineStutters DEF HistoryInv
<1>3. now' \in Nat /\ now' >= now
  BY <1>1
<1> QED BY <1>1, <1>2, <1>3, QuietTold

-----------------------------------------------------------------------------
(* The lines of a report, matched with the connections they are of.        *)

LinesOf(kind, lines) == {l \in lines : Row(l).type \in TypesOf(kind)}
Since(kind, since) == {c \in Conns : Happened(kind, conns[c]) /\ When(kind, conns[c]) >= since}

Matched(kind, lines, since, m) ==
    /\ \A l \in LinesOf(kind, lines) :
           m[l] \in Since(kind, since) /\ Describes(Row(l), kind, conns[m[l]])
    /\ \A k, l \in LinesOf(kind, lines) : m[k] = m[l] => k = l
    /\ lost < since =>
           \A c \in Since(kind, since) : \E l \in LinesOf(kind, lines) : m[l] = c

\* The lines of a window can be matched with connections of that window, all of
\* them where nothing as young was lost.
LEMMA MatchExists ==
    ASSUME HistoryInv, NEW since \in Nat, since # 0, NEW kind \in Kinds
    PROVE  \E m : Matched(kind, Included(dir, since), since, m)
<1> DEFINE file == dir["engine"]
           lines == Included(dir, since)
           some == LinesOf(kind, lines)
<1>0. /\ now \in Nat /\ lost \in Nat /\ DOMAIN dir = Files /\ "engine" \in Files
      /\ \A c \in Conns : Happened(kind, conns[c]) => When(kind, conns[c]) \in 0 .. now
  BY HistoryFacts
<1>1. FilesOk(dir, now)
  BY DEF HistoryInv, EngineInv
<1>2. PICK own : Owned(file, own, kind, conns, lost)
  BY DEF HistoryInv, Attributed
<1> DEFINE m == [l \in some |-> own[l[1][2]]]
<1>3. ASSUME NEW l \in some
      PROVE  /\ l[1][2] \in DOMAIN file /\ l = <<<<"engine", l[1][2]>>, file[l[1][2]]>>
             /\ Row(l) = file[l[1][2]] /\ Row(l).at \in Nat /\ Row(l).at >= since
             /\ Is(kind, file[l[1][2]]) /\ m[l] = own[l[1][2]]
  <2>1. l \in Included(dir, since) /\ Row(l).type \in TypesOf(kind)
    BY DEF LinesOf
  <2>2. /\ l[1][1] \in Files /\ l[1][2] \in DOMAIN dir[l[1][1]]
        /\ l = <<<<l[1][1], l[1][2]>>, dir[l[1][1]][l[1][2]]>>
        /\ Row(l) = dir[l[1][1]][l[1][2]] /\ Row(l).at >= since
    BY <1>1, <2>1, LinesAre
  <2>3. TypesOf(kind) \subseteq TerminalTypes \cup {"relay_outcome"}
    BY DEF TypesOf
  <2>4. l[1][1] = "engine"
    BY <2>1, <2>2, <2>3 DEF HistoryInv, Elsewhere
  <2>5. Row(l).at \in Nat
    <3>1. RowOk(Row(l), l[1][1], now)
      BY <1>1, <2>1, LineRows
    <3> QED BY <1>0, <3>1 DEF RowOk
  <2>6. Is(kind, Row(l))
    BY <2>1, <2>2, <2>5 DEF Is
  <2> QED BY <2>2, <2>4, <2>5, <2>6
<1> HIDE DEF m
<1>4. ASSUME NEW l \in some
      PROVE  m[l] \in Since(kind, since) /\ Describes(Row(l), kind, conns[m[l]])
  <2>1. m[l] \in Conns /\ Describes(Row(l), kind, conns[m[l]])
    BY <1>2, <1>3 DEF Owned
  <2>2. Happened(kind, conns[m[l]]) /\ When(kind, conns[m[l]]) >= since
    BY <1>3, <2>1 DEF Describes
  <2> QED BY <2>1, <2>2 DEF Since
<1>5. \A k, l \in some : m[k] = m[l] => k = l
  <2> SUFFICES ASSUME NEW k \in some, NEW l \in some, m[k] = m[l] PROVE k = l
    OBVIOUS
  <2>1. k[1][2] = l[1][2]
    BY <1>2, <1>3 DEF Owned
  <2> QED BY <1>3, <2>1
<1>6. ASSUME lost < since, NEW c \in Since(kind, since) PROVE \E l \in some : m[l] = c
  <2>1. c \in Conns /\ Happened(kind, conns[c]) /\ When(kind, conns[c]) >= since
    BY DEF Since
  <2>2. When(kind, conns[c]) > lost
    BY <1>0, <1>6, <2>1
  <2>3. PICK i \in DOMAIN file : Is(kind, file[i]) /\ own[i] = c
    BY <1>2, <2>1, <2>2 DEF Owned
  <2>4. file[i].at >= since
    BY <1>2, <2>1, <2>3 DEF Owned, Describes
  <2> DEFINE l == <<<<"engine", i>>, file[i]>>
  <2>5. l \in lines
    BY <1>0, <1>1, <2>4, LinesAre
  <2>6. Row(l) = file[i] /\ l[1][2] = i
    BY DEF Row
  <2>7. l \in some
    BY <2>3, <2>5, <2>6 DEF Is, LinesOf
  <2> HIDE DEF l
  <2> QED BY <1>3, <2>3, <2>6, <2>7
<1>7. Matched(kind, lines, since, m)
  BY <1>4, <1>5, <1>6 DEF Matched
<1> QED BY <1>7

\* The connections are finitely many, and "" is none of them.
LEMMA ConnsFinite == IsFiniteSet(Conns) /\ "" \notin Conns
BY TrialAssumption

\* A counter of some of the lines, and the connections it is the number of.
LEMMA CountMatched ==
    ASSUME NEW kind, NEW lines, NEW since, NEW m, Matched(kind, lines, since, m),
           NEW A, A \subseteq LinesOf(kind, lines), NEW B, B \subseteq Since(kind, since),
           \A l \in LinesOf(kind, lines) : l \in A <=> m[l] \in B
    PROVE  /\ Cardinality(A) \in Nat /\ Cardinality(B) \in Nat /\ IsFiniteSet(A)
           /\ Cardinality(A) <= Cardinality(B)
           /\ lost < since => Cardinality(A) = Cardinality(B)
<1> DEFINE f == [l \in A |-> m[l]]
<1>1. IsFiniteSet(B)
  <2>1. B \subseteq Conns
    BY DEF Since
  <2> QED BY <2>1, ConnsFinite, Fewer
<1>2. f \in [A -> B] /\ \A a, b \in A : f[a] = f[b] => a = b
  BY DEF Matched
<1>3. lost < since => \A c \in B : \E l \in A : f[l] = c
  BY DEF Matched
<1> HIDE DEF f
<1> QED BY <1>1, <1>2, <1>3, Counted

-----------------------------------------------------------------------------
(* What the lines name.                                                    *)

Named(kind, lines) == {l \in LinesOf(kind, lines) : Row(l).conn # ""}
Identified == {c \in Conns : conns[c].id # ""}

LEMMA NamedAre ==
    \A lines : Terminals(lines) = Named("terminal", lines) /\ Outcomes(lines) = Named("outcome", lines)
BY DEF Terminals, Outcomes, Scoped, Relays, Named, LinesOf, TypesOf

\* An identifier is the connection's.
LEMMA NameIs ==
    ASSUME HistoryInv, NEW kind, NEW lines, NEW since, NEW m, Matched(kind, lines, since, m),
           NEW l \in Named(kind, lines)
    PROVE  /\ Row(l).conn = m[l] /\ m[l] \in Since(kind, since) /\ m[l] \in Identified
           /\ Describes(Row(l), kind, conns[m[l]])
<1>1. /\ m[l] \in Since(kind, since) /\ Describes(Row(l), kind, conns[m[l]]) /\ Row(l).conn # ""
  BY DEF Named, Matched
<1>2. m[l] \in Conns
  BY <1>1 DEF Since
<1>3. conns[m[l]].id \in {m[l], ""}
  BY <1>2 DEF HistoryInv, EngineInv, ConnsOk, ConnOk, IdOk
<1> QED BY <1>1, <1>2, <1>3 DEF Describes, Identified

\* No two named lines of a kind have one identifier: duplicate identifiers,
\* which make connectionPairer refuse a report, are never written.
LEMMA NamesApart ==
    ASSUME HistoryInv, NEW kind, NEW lines, IsFiniteSet(lines),
           NEW since, NEW m, Matched(kind, lines, since, m)
    PROVE  /\ ~Duplicated(Named(kind, lines))
           /\ \A k, l \in Named(kind, lines) : Row(k).conn = Row(l).conn => k = l
<1> DEFINE S == Named(kind, lines)
<1>1. S \subseteq lines
  BY DEF Named, LinesOf
<1>2. \A k, l \in S : Row(k).conn = Row(l).conn => k = l
  <2> SUFFICES ASSUME NEW k \in S, NEW l \in S, Row(k).conn = Row(l).conn PROVE k = l
    OBVIOUS
  <2>1. m[k] = m[l]
    BY NameIs
  <2> QED BY <2>1 DEF Matched, Named
<1> HIDE DEF S
<1>3. IsFiniteSet(S)
  BY <1>1, Fewer
<1>4. Cardinality(Ids(S)) = Cardinality(S)
  BY <1>2, <1>3, IdsCounted
<1> QED BY <1>2, <1>4 DEF Duplicated, S

\* connectionPairer.finalize succeeds on every window.
LEMMA PairableHolds ==
    ASSUME HistoryInv, NEW since \in Nat, since # 0
    PROVE  Pairable(Included(dir, since))
<1> DEFINE lines == Included(dir, since)
           terminals == Named("terminal", lines)
           outcomes == Named("outcome", lines)
<1>1. IsFiniteSet(lines)
  BY LinesFinite DEF HistoryInv, EngineInv
<1>2. PICK m : Matched("terminal", lines, since, m)
  BY MatchExists, KindsAre
<1>3. PICK n : Matched("outcome", lines, since, n)
  BY MatchExists, KindsAre
<1> HIDE DEF lines
<1>4. ~Duplicated(terminals) /\ ~Duplicated(outcomes)
  BY <1>1, <1>2, <1>3, NamesApart
<1>5. ASSUME NEW id \in Ids(terminals) \cap Ids(outcomes)
      PROVE  Committed(Of(terminals, id)) /\ Agree(Of(terminals, id), Of(outcomes, id))
  <2> DEFINE k == CHOOSE l \in terminals : Row(l).conn = id
             l == CHOOSE l \in outcomes : Row(l).conn = id
  <2>1. (\E x \in terminals : Row(x).conn = id) /\ (\E x \in outcomes : Row(x).conn = id)
    BY DEF Ids
  <2>2. k \in terminals /\ Row(k).conn = id
    BY <2>1
  <2>3. l \in outcomes /\ Row(l).conn = id
    BY <2>1
  <2>4. Of(terminals, id) = Row(k) /\ Of(outcomes, id) = Row(l)
    BY DEF Of
  <2> HIDE DEF k, l, terminals, outcomes
  <2>5. id = m[k] /\ Describes(Row(k), "terminal", conns[id])
    BY <1>2, <2>2, NameIs DEF terminals
  <2>6. id = n[l] /\ Describes(Row(l), "outcome", conns[id])
    BY <1>3, <2>3, NameIs DEF outcomes
  <2>7. conns[id].st = "ended"
    BY <2>6 DEF Describes, Happened
  <2>8. Committed(Row(k)) /\ Agree(Row(k), Row(l))
    BY <2>5, <2>6, <2>7 DEF Describes, Agree
  <2> QED BY <2>4, <2>8
<1>6. Terminals(lines) = terminals /\ Outcomes(lines) = outcomes
  BY NamedAre
<1> HIDE DEF terminals, outcomes
<1> QED BY <1>4, <1>5, <1>6 DEF Pairable, lines

\* What a report names is what happened, where nothing was lost.
LEMMA NamesTrue ==
    ASSUME HistoryInv, NEW kind, NEW lines, NEW since, NEW m, Matched(kind, lines, since, m),
           lost < since
    PROVE  Ids(Named(kind, lines)) = Since(kind, since) \cap Identified
<1>1. ASSUME NEW id \in Ids(Named(kind, lines)) PROVE id \in Since(kind, since) \cap Identified
  <2>1. PICK l \in Named(kind, lines) : Row(l).conn = id
    BY DEF Ids
  <2> QED BY <2>1, NameIs
<1>2. ASSUME NEW c \in Since(kind, since) \cap Identified PROVE c \in Ids(Named(kind, lines))
  <2>1. PICK l \in LinesOf(kind, lines) : m[l] = c
    BY DEF Matched
  <2>2. Row(l).conn = conns[c].id /\ conns[c].id # ""
    BY <2>1 DEF Matched, Describes, Identified
  <2>3. l \in Named(kind, lines)
    BY <2>1, <2>2 DEF Named
  <2>4. Row(l).conn = c
    BY <2>1, <2>3, NameIs
  <2> QED BY <2>3, <2>4 DEF Ids
<1> QED BY <1>1, <1>2

\* The committed decisions a report names, where nothing was lost.
LEMMA ChosenTrue ==
    ASSUME HistoryInv, NEW lines, NEW since, NEW m, Matched("terminal", lines, since, m),
           lost < since
    PROVE  Ids(Selections(Terminals(lines)))
             = {c \in Since("terminal", since) : conns[c].st # "failed"} \cap Identified
<1> DEFINE chosen == Selections(Terminals(lines))
<1>1. chosen = {l \in Named("terminal", lines) : Committed(Row(l))}
  BY NamedAre DEF Selections
<1> HIDE DEF chosen
<1>2. ASSUME NEW l \in Named("terminal", lines)
      PROVE  Committed(Row(l)) <=> conns[m[l]].st # "failed"
  BY NameIs DEF Describes
<1>3. Ids(Named("terminal", lines)) = Since("terminal", since) \cap Identified
  BY NamesTrue
<1>4. ASSUME NEW id \in Ids(chosen)
      PROVE  id \in Since("terminal", since) \cap Identified /\ conns[id].st # "failed"
  <2>1. PICK l \in chosen : Row(l).conn = id
    BY DEF Ids
  <2> QED BY <1>1, <1>2, <2>1, NameIs
<1>5. ASSUME NEW c \in Since("terminal", since) \cap Identified, conns[c].st # "failed"
      PROVE  c \in Ids(chosen)
  <2>1. PICK l \in Named("terminal", lines) : Row(l).conn = c
    BY <1>3, <1>5 DEF Ids
  <2>2. m[l] = c
    BY <2>1, NameIs
  <2> QED BY <1>1, <1>2, <1>5, <2>1, <2>2 DEF Ids
<1> QED BY <1>4, <1>5 DEF chosen

-----------------------------------------------------------------------------
(* The counters of the parts of a report.                                  *)

\* A counter never exceeds what happened, and is exact where nothing was lost.
Honest(count, happened, since) ==
    /\ count \in Nat /\ happened \in Nat /\ count <= happened
    /\ lost < since => count = happened

\* What Trial.tla calls selected and relayed, as the window of a kind.
LEMMA SelectedIs ==
    ASSUME HistoryInv, NEW since
    PROVE  /\ Selected(since) = {c \in Since("terminal", since) : conns[c].st # "failed"}
           /\ {c \in Conns : conns[c].st = "failed" /\ conns[c].at >= since}
                = {c \in Since("terminal", since) : conns[c].st = "failed"}
           /\ Relayed(since) = Since("outcome", since)
<1>1. \A c \in Conns : conns[c].st \in {"idle", "open", "failed", "gone", "ended"}
  BY DEF HistoryInv, EngineInv, ConnsOk, ConnOk
<1> QED BY <1>1 DEF Selected, Relayed, Since, Happened, When

\* The counters of the terminals.
LEMMA TerminalsTell ==
    ASSUME HistoryInv, NEW lines, NEW since, NEW m, Matched("terminal", lines, since, m)
    PROVE  LET a == AdaptiveReport(lines)
               selected == Selected(since)
           IN  /\ Honest(a.Ready, Cardinality(selected), since)
               /\ Honest(a.SelectedDirect, Cardinality({c \in selected : conns[c].path = Direct}), since)
               /\ Honest(DeclaredBaselineReport(lines).ChangedFromDeclared,
                         Cardinality({c \in selected : conns[c].path # Base}), since)
               /\ Honest(a.FailedBeforeReadiness,
                         Cardinality({c \in Conns : conns[c].st = "failed" /\ conns[c].at >= since}), since)
<1> DEFINE all == LinesOf("terminal", lines)
           ready == Selections(lines)
           direct == {l \in ready : Row(l).path = Direct}
           changed == {l \in ready : Changed(Row(l))}
           failed == {l \in all : ~Committed(Row(l))}
           whole == Since("terminal", since)
           selected == Selected(since)
           toDirect == {c \in selected : conns[c].path = Direct}
           fromBase == {c \in selected : conns[c].path # Base}
           unready == {c \in Conns : conns[c].st = "failed" /\ conns[c].at >= since}
           a == AdaptiveReport(lines)
<1>1. /\ a.Ready = Cardinality(ready) /\ a.SelectedDirect = Cardinality(direct)
      /\ a.FailedBeforeReadiness = Cardinality(all) - Cardinality(ready)
  <2>1. all = {l \in lines : Row(l).type \in TerminalTypes}
    BY DEF LinesOf, TypesOf
  <2> QED BY <2>1 DEF AdaptiveReport
<1>2. DeclaredBaselineReport(lines).ChangedFromDeclared = Cardinality(changed)
  BY DEF DeclaredBaselineReport
<1>3. all = ready \cup failed /\ ready \cap failed = {}
  BY DEF LinesOf, TypesOf, TerminalTypes, Selections, Committed
<1>4. selected = {c \in whole : conns[c].st # "failed"} /\ unready = {c \in whole : conns[c].st = "failed"}
  BY SelectedIs
<1>5. ASSUME NEW l \in all
      PROVE  /\ m[l] \in whole /\ (Committed(Row(l)) <=> conns[m[l]].st # "failed")
             /\ conns[m[l]].st # "failed" => Row(l).path = conns[m[l]].path
             /\ Row(l).base = Base /\ Base # ""
  BY BaseIsPath DEF Matched, Describes
<1>6. ready = {l \in all : Committed(Row(l))}
  BY <1>3
<1> HIDE DEF all, ready, failed, whole, selected, unready, a
<1>7. \A l \in all : l \in ready <=> m[l] \in selected
  BY <1>4, <1>5, <1>6
<1>8. \A l \in all : l \in direct <=> m[l] \in toDirect
  BY <1>4, <1>5, <1>7
<1>9. \A l \in all : l \in changed <=> m[l] \in fromBase
  BY <1>4, <1>5, <1>7 DEF Changed
<1>10. \A l \in all : l \in failed <=> m[l] \in unready
  BY <1>3, <1>4, <1>5, <1>6
<1>11. /\ ready \subseteq all /\ direct \subseteq all /\ changed \subseteq all /\ failed \subseteq all
       /\ selected \subseteq whole /\ toDirect \subseteq whole /\ fromBase \subseteq whole
       /\ unready \subseteq whole
  BY <1>3, <1>4
<1> HIDE DEF direct, changed, toDirect, fromBase
<1>12. /\ Cardinality(ready) \in Nat /\ Cardinality(selected) \in Nat /\ IsFiniteSet(ready)
       /\ Cardinality(ready) <= Cardinality(selected)
       /\ lost < since => Cardinality(ready) = Cardinality(selected)
  BY <1>7, <1>11, CountMatched DEF all, whole
<1>13. Honest(Cardinality(direct), Cardinality(toDirect), since)
  BY <1>8, <1>11, CountMatched DEF all, whole, Honest
<1>14. Honest(Cardinality(changed), Cardinality(fromBase), since)
  BY <1>9, <1>11, CountMatched DEF all, whole, Honest
<1>15. Honest(Cardinality(failed), Cardinality(unready), since) /\ IsFiniteSet(failed)
  BY <1>10, <1>11, CountMatched DEF all, whole, Honest
<1>16. Cardinality(all) - Cardinality(ready) = Cardinality(failed)
  <2>1. IsFiniteSet(ready \cup failed)
    BY <1>12, <1>15, FS_Union
  <2>2. /\ Cardinality(ready \cup failed) = Cardinality(ready) + Cardinality(failed)
        /\ Cardinality(failed) \in Nat
    BY <1>3, <2>1, PartsOf
  <2> QED BY <1>3, <1>12, <2>2
<1>17. Honest(Cardinality(ready), Cardinality(selected), since)
  BY <1>12 DEF Honest
<1> QED BY <1>1, <1>2, <1>13, <1>14, <1>15, <1>16, <1>17
        DEF a, selected, toDirect, fromBase, unready

\* The counters of the relays.
LEMMA RelaysTell ==
    ASSUME HistoryInv, NEW lines, NEW since, NEW n, Matched("outcome", lines, since, n)
    PROVE  LET r == RelayReport(lines)
               relayed == Relayed(since)
           IN  /\ Honest(r.Outcomes, Cardinality(relayed), since)
               /\ Honest(r.Canceled, Cardinality({c \in relayed : conns[c].canceled}), since)
               /\ Honest(DeclaredBaselineReport(lines).ChangedRelayOutcomes,
                         Cardinality({c \in relayed : conns[c].path # Base}), since)
<1> DEFINE all == LinesOf("outcome", lines)
           canceled == {l \in all : Row(l).term = "canceled"}
           moved == {l \in all : Changed(Row(l))}
           relayed == Relayed(since)
           cut == {c \in relayed : conns[c].canceled}
           fromBase == {c \in relayed : conns[c].path # Base}
           r == RelayReport(lines)
<1>1. Relays(lines) = all
  BY DEF Relays, LinesOf, TypesOf
<1>2. r.Outcomes = Cardinality(all) /\ r.Canceled = Cardinality(canceled)
  <2> HIDE DEF all
  <2> QED BY <1>1 DEF RelayReport
<1>3. DeclaredBaselineReport(lines).ChangedRelayOutcomes = Cardinality(moved)
  <2> HIDE DEF all
  <2> QED BY <1>1 DEF DeclaredBaselineReport
<1>4. relayed = Since("outcome", since)
  BY SelectedIs
<1>5. ASSUME NEW l \in all
      PROVE  /\ n[l] \in relayed /\ (Row(l).term = "canceled" <=> conns[n[l]].canceled)
             /\ Row(l).path = conns[n[l]].path /\ Row(l).base = Base /\ Base # ""
  BY <1>4, BaseIsPath DEF Matched, Describes
<1> HIDE DEF all, relayed, r
<1>6. \A l \in all : l \in canceled <=> n[l] \in cut
  BY <1>5
<1>7. \A l \in all : l \in moved <=> n[l] \in fromBase
  BY <1>5 DEF Changed
<1>8. canceled \subseteq all /\ moved \subseteq all /\ cut \subseteq relayed /\ fromBase \subseteq relayed
  OBVIOUS
<1> HIDE DEF canceled, moved, cut, fromBase
<1>9. Honest(Cardinality(all), Cardinality(relayed), since)
  <2>1. all \subseteq all /\ relayed \subseteq Since("outcome", since)
        /\ \A l \in all : l \in all <=> n[l] \in relayed
    BY <1>4, <1>5
  <2> QED BY <2>1, CountMatched DEF all, Honest
<1>10. Honest(Cardinality(canceled), Cardinality(cut), since)
  BY <1>4, <1>6, <1>8, CountMatched DEF all, Honest
<1>11. Honest(Cardinality(moved), Cardinality(fromBase), since)
  BY <1>4, <1>7, <1>8, CountMatched DEF all, Honest
<1> QED BY <1>2, <1>3, <1>9, <1>10, <1>11 DEF r, relayed, cut, fromBase

\* The connections of which one of the two rows is missing.
LEMMA PairsTell ==
    ASSUME HistoryInv, NEW lines, NEW since, lost < since,
           NEW m, Matched("terminal", lines, since, m),
           NEW n, Matched("outcome", lines, since, n)
    PROVE  LET c == ConnectionScopeReport(lines)
               selected == Selected(since)
               relayed == Relayed(since)
           IN  /\ c.PairedRelayOutcomes = Cardinality((relayed \cap selected) \cap Identified)
               /\ c.UnmatchedRelayOutcomes = Cardinality((relayed \ selected) \cap Identified)
               /\ c.CommittedDecisionsWithoutOutcome = Cardinality((selected \ relayed) \cap Identified)
<1> DEFINE c == ConnectionScopeReport(lines)
           selected == Selected(since)
           relayed == Relayed(since)
           terminals == Ids(Terminals(lines))
           committed == Ids(Selections(Terminals(lines)))
           outcomes == Ids(Outcomes(lines))
           whole == Since("terminal", since)
<1>1. /\ c.PairedRelayOutcomes = Cardinality(outcomes \cap terminals)
      /\ c.UnmatchedRelayOutcomes = Cardinality(outcomes \ terminals)
      /\ c.CommittedDecisionsWithoutOutcome = Cardinality(committed \ outcomes)
  BY DEF ConnectionScopeReport
<1>2. terminals = whole \cap Identified
  BY NamesTrue, NamedAre
<1>3. outcomes = relayed \cap Identified
  BY NamesTrue, NamedAre, SelectedIs
<1>4. committed = selected \cap Identified
  BY ChosenTrue, SelectedIs
<1>5. selected = {k \in whole : conns[k].st # "failed"} /\ \A k \in relayed : conns[k].st = "ended"
  BY SelectedIs DEF Relayed
<1> HIDE DEF c, selected, relayed, terminals, committed, outcomes, whole
<1>6. /\ outcomes \cap terminals = (relayed \cap selected) \cap Identified
      /\ outcomes \ terminals = (relayed \ selected) \cap Identified
      /\ committed \ outcomes = (selected \ relayed) \cap Identified
  BY <1>2, <1>3, <1>4, <1>5
<1> QED BY <1>1, <1>6 DEF c, selected, relayed

\* TellsTheTruth of every report.
LEMMA ReportsTell ==
    ASSUME HistoryInv, NEW since \in Nat, since # 0
    PROVE  TellsTheTruth(Report(since), since)
<1> DEFINE lines == Included(dir, since)
           r == Report(since)
           selected == Selected(since)
           relayed == Relayed(since)
           identified == {c \in Conns : conns[c].id # ""}
           truth == [ready   |-> Cardinality(selected),
                     direct  |-> Cardinality({c \in selected : conns[c].path = Direct}),
                     changed |-> Cardinality({c \in selected : conns[c].path # Base}),
                     failed  |-> Cardinality({c \in Conns : conns[c].st = "failed" /\ conns[c].at >= since}),
                     relays  |-> Cardinality(relayed),
                     cut     |-> Cardinality({c \in relayed : conns[c].canceled}),
                     moved   |-> Cardinality({c \in relayed : conns[c].path # Base})]
           said == [ready |-> r.Adaptive.Ready, direct |-> r.Adaptive.SelectedDirect,
                    changed |-> r.DeclaredBaseline.ChangedFromDeclared,
                    failed |-> r.Adaptive.FailedBeforeReadiness,
                    relays |-> r.Relay.Outcomes, cut |-> r.Relay.Canceled,
                    moved |-> r.DeclaredBaseline.ChangedRelayOutcomes]
<1>1. /\ r.ConnectionScope = ConnectionScopeReport(lines)
      /\ r.DeclaredBaseline = DeclaredBaselineReport(lines)
      /\ r.Adaptive = AdaptiveReport(lines) /\ r.Relay = RelayReport(lines)
  BY PartsAre DEF Report
<1>2. PICK m : Matched("terminal", lines, since, m)
  BY MatchExists, KindsAre
<1>3. PICK n : Matched("outcome", lines, since, n)
  BY MatchExists, KindsAre
<1> HIDE DEF lines, r
<1>4. /\ Honest(said.ready, truth.ready, since) /\ Honest(said.direct, truth.direct, since)
      /\ Honest(said.changed, truth.changed, since) /\ Honest(said.failed, truth.failed, since)
  BY <1>1, <1>2, TerminalsTell
<1>5. /\ Honest(said.relays, truth.relays, since) /\ Honest(said.cut, truth.cut, since)
      /\ Honest(said.moved, truth.moved, since)
  BY <1>1, <1>3, RelaysTell
<1>6. lost < since =>
        /\ r.ConnectionScope.UnmatchedRelayOutcomes = Cardinality((relayed \ selected) \cap identified)
        /\ r.ConnectionScope.CommittedDecisionsWithoutOutcome
             = Cardinality((selected \ relayed) \cap identified)
  BY <1>1, <1>2, <1>3, PairsTell DEF Identified
<1>7. /\ DOMAIN truth = {"ready", "direct", "changed", "failed", "relays", "cut", "moved"}
      /\ DOMAIN said = DOMAIN truth
  OBVIOUS
<1>8. said = [f \in DOMAIN truth |-> said[f]] /\ truth = [f \in DOMAIN truth |-> truth[f]]
  OBVIOUS
<1>9. TellsTheTruth(r, since) <=>
        /\ \A f \in DOMAIN truth : said[f] <= truth[f]
        /\ lost < since =>
             /\ said = truth
             /\ r.ConnectionScope.UnmatchedRelayOutcomes = Cardinality((relayed \ selected) \cap identified)
             /\ r.ConnectionScope.CommittedDecisionsWithoutOutcome
                  = Cardinality((selected \ relayed) \cap identified)
  BY DEF TellsTheTruth
<1> HIDE DEF truth, said, selected, relayed, identified
<1>10. \A f \in DOMAIN truth : said[f] <= truth[f]
  BY <1>4, <1>5, <1>7 DEF Honest
<1>11. lost < since => said = truth
  <2> SUFFICES ASSUME lost < since PROVE said = truth
    OBVIOUS
  <2>1. \A f \in DOMAIN truth : said[f] = truth[f]
    BY <1>4, <1>5, <1>7 DEF Honest
  <2> QED BY <1>8, <2>1
<1> QED BY <1>6, <1>9, <1>10, <1>11 DEF r

-----------------------------------------------------------------------------
(* The readiness of a report, and the theorems.                            *)

\* The checks of AssessObservations the readiness rests on.
LEMMA ReadyMeans ==
    ASSUME NEW report, ReadyForDescriptiveAnalysis(report)
    PROVE  /\ report.RecordingPaused /\ SessionScope(report)
           /\ SelectionsOf(report) >= MinCommittedSelections
           /\ LET c == report.ConnectionScope
              IN  AtLeast(c.PairedRelayOutcomes,
                          c.PairedRelayOutcomes + c.UnmatchedRelayOutcomes
                            + c.CommittedDecisionsWithoutOutcome, MinPairCompleteness)
           /\ AtMost(report.Relay.Canceled, report.Relay.Outcomes, MaxCancellation)
<1> DEFINE checks == Checks(report)
<1>1. /\ "recording_paused" \in DOMAIN checks /\ "session_scope" \in DOMAIN checks
      /\ "committed_selections" \in DOMAIN checks /\ "pair_completeness" \in DOMAIN checks
      /\ "cancellation" \in DOMAIN checks
  BY DEF Checks
<1>2. \A id \in DOMAIN checks : checks[id]
  BY DEF ReadyForDescriptiveAnalysis
<1> HIDE DEF checks
<1>3. /\ checks["recording_paused"] /\ checks["session_scope"] /\ checks["committed_selections"]
      /\ checks["pair_completeness"] /\ checks["cancellation"]
  BY <1>1, <1>2
<1> QED BY <1>3 DEF checks, Checks

\* A row of the window is of the planned session.
LEMMA SessionEarned ==
    ASSUME HistoryInv, NEW since, SessionScope(Report(since))
    PROVE  \A l \in Included(dir, since) : Row(l).session = "planned"
<1> DEFINE lines == Included(dir, since)
           none == {l \in lines : Row(l).session = ""}
           strays == {l \in lines : Row(l).session \notin {"", "planned"}}
<1>1. Report(since).UnscopedEvents = Cardinality(none)
      /\ Report(since).UnexpectedTrialSessionEvents = Cardinality(strays)
  <2>1. Report(since) = BuildReport(dir, since, "planned", paused)
    BY DEF Report
  <2> HIDE DEF lines, none, strays
  <2>2. BuildReport(dir, since, "planned", paused).UnscopedEvents
          = Cardinality({l \in Included(dir, since) : Row(l).session = ""})
        /\ BuildReport(dir, since, "planned", paused).UnexpectedTrialSessionEvents
             = Cardinality({l \in Included(dir, since) : Row(l).session \notin {"", "planned"}})
    BY Zenon DEF BuildReport
  <2> QED BY <2>1, <2>2 DEF lines, none, strays
<1>2. Cardinality(none) = 0 /\ Cardinality(strays) = 0
  BY <1>1 DEF SessionScope
<1>3. IsFiniteSet(none) /\ IsFiniteSet(strays)
  <2>1. IsFiniteSet(lines) /\ none \subseteq lines /\ strays \subseteq lines
    BY LinesFinite DEF HistoryInv, EngineInv
  <2> HIDE DEF lines, none, strays
  <2> QED BY <2>1, Fewer
<1>4. none = {} /\ strays = {}
  <2> HIDE DEF none, strays
  <2> QED BY <1>2, <1>3, FS_EmptySet
<1> QED BY <1>4

\* A report that is ready was earned by what happened.
LEMMA ReadinessHolds == HistoryInv => ReadyIsEarned
<1> SUFFICES ASSUME HistoryInv, ReadyForDescriptiveAnalysis(Report(AssessSince))
             PROVE  LET since == AssessSince
                        selected == Selected(since)
                        relayed == Relayed(since)
                        planned == {c \in Conns : conns[c].session = "planned"}
                    IN  /\ paused
                        /\ \A l \in Included(dir, since) : Row(l).session = "planned"
                        /\ Cardinality(selected \cap planned) >= MinCommittedSelections
                        /\ (lost < since /\ \A c \in Conns : conns[c].st # "idle" => conns[c].id # "") =>
                               /\ selected \subseteq planned
                               /\ AtLeast(Cardinality(selected \cap relayed),
                                          Cardinality(selected \cup relayed), MinPairCompleteness)
                               /\ AtMost(Cardinality({c \in relayed : conns[c].canceled}),
                                         Cardinality(relayed), MaxCancellation)
  BY DEF ReadyIsEarned
<1> DEFINE since == AssessSince
           lines == Included(dir, since)
           report == Report(since)
           c == report.ConnectionScope
           selected == Selected(since)
           relayed == Relayed(since)
           planned == {k \in Conns : conns[k].session = "planned"}
<1>0. since \in Nat /\ since # 0
  <2>1. now \in Nat /\ now # 0
    BY HistoryFacts
  <2>2. Window \in Nat
    BY TrialAssumption
  <2> QED BY <2>1, <2>2 DEF AssessSince
<1>1. /\ report.RecordingPaused /\ SessionScope(report)
      /\ SelectionsOf(report) >= MinCommittedSelections
      /\ AtLeast(c.PairedRelayOutcomes,
                 c.PairedRelayOutcomes + c.UnmatchedRelayOutcomes
                   + c.CommittedDecisionsWithoutOutcome, MinPairCompleteness)
      /\ AtMost(report.Relay.Canceled, report.Relay.Outcomes, MaxCancellation)
  BY ReadyMeans
<1>2. /\ report.RecordingPaused = paused
      /\ report.ConnectionScope = ConnectionScopeReport(lines) /\ report.Relay = RelayReport(lines)
  BY PartsAre DEF Report
<1>3. PICK m : Matched("terminal", lines, since, m)
  BY <1>0, MatchExists, KindsAre
<1>4. PICK n : Matched("outcome", lines, since, n)
  BY <1>0, MatchExists, KindsAre
<1>5. \A l \in lines : Row(l).session = "planned"
  BY <1>1, SessionEarned
<1>6. SelectionsOf(report) = Cardinality(Selections(lines))
  BY <1>0, PairableHolds, ReportCountersAgree DEF Report, HistoryInv, EngineInv
<1> HIDE DEF since, lines, report
<1>7. /\ selected = {k \in Since("terminal", since) : conns[k].st # "failed"}
      /\ relayed = Since("outcome", since)
  BY SelectedIs
<1>8. ASSUME NEW l \in LinesOf("terminal", lines)
      PROVE  /\ m[l] \in Since("terminal", since) /\ conns[m[l]].session = "planned"
             /\ Committed(Row(l)) <=> conns[m[l]].st # "failed"
  BY <1>3, <1>5 DEF Matched, Describes, LinesOf
<1>9. Selections(lines) \subseteq LinesOf("terminal", lines)
      /\ \A l \in LinesOf("terminal", lines) : l \in Selections(lines) <=> Committed(Row(l))
  BY DEF Selections, Committed, LinesOf, TypesOf, TerminalTypes
<1> DEFINE served == selected \cap planned
<1>10. \A l \in LinesOf("terminal", lines) : l \in Selections(lines) <=> m[l] \in served
  BY <1>7, <1>8, <1>9 DEF Since
<1>11. served \subseteq Since("terminal", since)
  BY <1>7
<1>12. Cardinality(served) >= MinCommittedSelections
  <2> DEFINE A == Selections(lines)
  <2>0. /\ Matched("terminal", lines, since, m) /\ A \subseteq LinesOf("terminal", lines)
        /\ \A l \in LinesOf("terminal", lines) : l \in A <=> m[l] \in served
    BY <1>3, <1>9, <1>10
  <2> HIDE DEF served, c, A, selected, planned
  <2>1. Cardinality(A) \in Nat /\ Cardinality(served) \in Nat /\ Cardinality(A) <= Cardinality(served)
    BY <2>0, <1>11, CountMatched, Zenon
  <2> USE DEF A
  <2>2. MinCommittedSelections \in Nat
    BY TrialAssumption
  <2> QED BY <1>1, <1>6, <2>1, <2>2
<1>13. ASSUME lost < since, \A k \in Conns : conns[k].st # "idle" => conns[k].id # ""
       PROVE  /\ selected \subseteq planned
              /\ AtLeast(Cardinality(selected \cap relayed), Cardinality(selected \cup relayed),
                         MinPairCompleteness)
              /\ AtMost(Cardinality({k \in relayed : conns[k].canceled}), Cardinality(relayed),
                        MaxCancellation)
  <2>1. selected \subseteq planned
    <3> SUFFICES ASSUME NEW k \in selected PROVE k \in planned
      OBVIOUS
    <3>1. k \in Since("terminal", since) /\ k \in Conns
      BY <1>7 DEF Since
    <3>2. PICK l \in LinesOf("terminal", lines) : m[l] = k
      BY <1>3, <1>13, <3>1 DEF Matched
    <3> QED BY <1>8, <3>1, <3>2
  <2> HIDE DEF c
  <2>2. selected \subseteq Identified /\ relayed \subseteq Identified
        /\ selected \subseteq Conns /\ relayed \subseteq Conns
    BY <1>13 DEF Selected, Relayed, Identified
  <2> HIDE DEF selected, relayed, planned
  <2> DEFINE both == relayed \cap selected
             unmatched == relayed \ selected
             without == selected \ relayed
  <2>3. /\ (relayed \cap selected) \cap Identified = both
        /\ (relayed \ selected) \cap Identified = unmatched
        /\ (selected \ relayed) \cap Identified = without
    BY <2>2
  <2>4. /\ ConnectionScopeReport(lines).PairedRelayOutcomes = Cardinality(both)
        /\ ConnectionScopeReport(lines).UnmatchedRelayOutcomes = Cardinality(unmatched)
        /\ ConnectionScopeReport(lines).CommittedDecisionsWithoutOutcome = Cardinality(without)
    BY <1>3, <1>4, <1>13, <2>3, PairsTell DEF selected, relayed
  <2>5. /\ relayed = both \cup unmatched /\ both \cap unmatched = {}
        /\ selected \cup relayed = relayed \cup without /\ relayed \cap without = {}
        /\ both = selected \cap relayed
    OBVIOUS
  <2>6. IsFiniteSet(relayed) /\ IsFiniteSet(selected \cup relayed)
    <3>1. selected \cup relayed \subseteq Conns
      BY <2>2
    <3> QED BY <2>2, <3>1, ConnsFinite, Fewer
  <2> HIDE DEF both, unmatched, without
  <2>7. /\ Cardinality(relayed) = Cardinality(both) + Cardinality(unmatched)
        /\ Cardinality(selected \cup relayed) = Cardinality(relayed) + Cardinality(without)
    BY <2>5, <2>6, PartsOf
  <2>8. AtLeast(Cardinality(selected \cap relayed), Cardinality(selected \cup relayed),
                MinPairCompleteness)
    BY <1>1, <1>2, <2>4, <2>5, <2>7 DEF c
  <2>9. /\ RelayReport(lines).Outcomes = Cardinality(relayed)
        /\ RelayReport(lines).Canceled = Cardinality({k \in relayed : conns[k].canceled})
    BY <1>4, <1>13, RelaysTell DEF Honest, relayed
  <2> QED BY <1>1, <1>2, <2>1, <2>8, <2>9
<1> QED BY <1>1, <1>2, <1>5, <1>12, <1>13 DEF since, lines, report

\* What a report says is true.
LEMMA TruthHolds == HistoryInv => ReportFailsOnlyByOverflow /\ ReportsAreTrue /\ RankIsNearest
<1> SUFFICES ASSUME HistoryInv PROVE ReportFailsOnlyByOverflow /\ ReportsAreTrue /\ RankIsNearest
  OBVIOUS
<1>1. FilesOk(dir, now) /\ EngineInv /\ now \in Nat
  BY HistoryFacts DEF HistoryInv, EngineInv
<1>2. RankIsNearest
  BY <1>1, RanksHold
<1>3. Readable(dir)
  BY <1>1, FilesReadable
<1>4. ReportFailsOnlyByOverflow
  <2>1. ASSUME NEW since \in 1 .. now PROVE Pairable(Included(dir, since))
    BY <1>1, PairableHolds
  <2> QED BY <1>3, <2>1 DEF ReportFailsOnlyByOverflow, ReportOk
<1>5. ReportsAreTrue
  <2>1. ASSUME NEW since PROVE CountersAgree(Included(dir, since), Report(since))
    BY <1>1, ReportCountersAgree DEF CountersAgree, Report
  <2>2. ASSUME NEW since \in 1 .. now PROVE TellsTheTruth(Report(since), since)
    BY <1>1, ReportsTell
  <2> QED BY <2>1, <2>2 DEF ReportsAreTrue
<1> QED BY <1>2, <1>4, <1>5

\* The invariant of the parts in which observations are recorded.
LEMMA HistoryStays == MCSpec => [](Recording => HistoryInv)
<1>1. MCInit => (Recording => HistoryInv)
  BY HistoryInit DEF MCInit, Recording
<1>2. (Recording => HistoryInv) /\ [MCNext]_<<part, now, recording, planning>>
        => (Recording => HistoryInv)'
  <2> SUFFICES ASSUME Recording => HistoryInv, [MCNext]_<<part, now, recording, planning>>,
                      Recording'
               PROVE  HistoryInv'
    OBVIOUS
  <2>1. CASE UNCHANGED <<part, now, recording, planning>>
    <3>1. Recording /\ UNCHANGED vars
      BY <2>1 DEF recording, vars, Recording
    <3> QED BY <3>1, HistoryStutters
  <2>2. CASE MCNext
    <3>1. Recording /\ Next
      BY <2>2 DEF MCNext, Recording
    <3> QED BY <3>1, HistoryNext
  <2> QED BY <2>1, <2>2
<1> QED BY <1>1, <1>2, PTL DEF MCSpec

\* What a report says of the trial is true, whatever was pruned, cleared, paused
\* or killed before: of every window, BuildReport fails only where a sum of
\* bytes overflows (no pair of rows ever has a duplicate identifier or disagrees
\* on its path, baseline or target, so connectionPairer.finalize succeeds), its
\* counters add up, no counter exceeds the number of connections it happened to,
\* each is exact where nothing as young as the window was lost, and every
\* percentile is a nearest rank.
THEOREM ReportsAreHonest == MCSpec => []ReportIsTrue
<1>1. (Recording => HistoryInv) => ReportIsTrue
  BY TruthHolds DEF ReportIsTrue
<1> QED BY <1>1, HistoryStays, PTL

\* What AssessObservations calls ready_for_descriptive_analysis was earned by
\* what the engine did: recording is paused, every line of the window is of the
\* planned session, at least the required number of its connections committed,
\* and, where nothing of the window was lost and every connection got an
\* identifier, the completeness of the pairs and the share of canceled relays
\* hold of the connections themselves and not only of the lines.
THEOREM ReadinessEarned == MCSpec => []ReadinessIsEarned
<1>1. (Recording => HistoryInv) => ReadinessIsEarned
  BY ReadinessHolds DEF ReadinessIsEarned
<1> QED BY <1>1, HistoryStays, PTL
=============================================================================
