------------------------ MODULE CandidateRace_proofs ------------------------
(***************************************************************************)
(* Proofs about one race of two candidates, whatever its goroutines do:    *)
(* its types, that every connection has an owner, that the race blames     *)
(* nobody it cancelled itself, and that each of its steps is one that      *)
(* RaceOutcome allows.                                                     *)
(***************************************************************************)
EXTENDS CandidateRace, FiniteSetTheorems, TLAPS

-----------------------------------------------------------------------------
(* The result channel, and sets of candidates.                             *)

Elems(queue)    == {queue[i] : i \in DOMAIN queue}
Distinct(queue) == \A i, j \in DOMAIN queue : queue[i] = queue[j] => i = j

\* Sending adds a new result to the channel's elements.
LEMMA AppendResult ==
    ASSUME NEW queue \in Seq(Candidates), Distinct(queue), NEW c \in Candidates, c \notin Elems(queue)
    PROVE  LET longer == Append(queue, c) IN
           /\ longer \in Seq(Candidates) /\ Distinct(longer)
           /\ Len(longer) = Len(queue) + 1 /\ Elems(longer) = Elems(queue) \cup {c}
<1> DEFINE longer == Append(queue, c)
<1>1. longer \in Seq(Candidates) /\ Len(queue) \in Nat /\ DOMAIN queue = 1..Len(queue)
      OBVIOUS
<1>2. Len(longer) = Len(queue) + 1 /\ DOMAIN longer = 1..(Len(queue) + 1)  BY <1>1
<1>3. longer[Len(queue) + 1] = c /\ \A i \in DOMAIN queue : longer[i] = queue[i]  BY <1>1
<1>4. DOMAIN longer = DOMAIN queue \cup {Len(queue) + 1}  BY <1>1, <1>2
<1>5. \A i \in DOMAIN queue : queue[i] # c  BY DEF Elems
<1> HIDE DEF longer
<1>6. Distinct(longer)  BY <1>3, <1>4, <1>5 DEF Distinct
<1>7. Elems(longer) = Elems(queue) \cup {c}  BY <1>3, <1>4 DEF Elems
<1> QED  BY <1>1, <1>2, <1>6, <1>7 DEF longer

\* Reading takes the first one out.
LEMMA ReadResult ==
    ASSUME NEW queue \in Seq(Candidates), Distinct(queue), queue # <<>>
    PROVE  /\ Head(queue) \in Elems(queue) /\ Head(queue) \in Candidates
           /\ Tail(queue) \in Seq(Candidates) /\ Distinct(Tail(queue))
           /\ Len(Tail(queue)) = Len(queue) - 1 /\ Len(queue) >= 1
           /\ Elems(Tail(queue)) = Elems(queue) \ {Head(queue)}
<1> DEFINE rest == Tail(queue)
<1>1. /\ Len(queue) \in Nat /\ Len(queue) >= 1 /\ DOMAIN queue = 1..Len(queue)
      /\ rest \in Seq(Candidates) /\ Len(rest) = Len(queue) - 1 /\ DOMAIN rest = 1..(Len(queue) - 1)
      /\ Head(queue) = queue[1] /\ Head(queue) \in Candidates
      OBVIOUS
<1>2. \A i \in DOMAIN rest : rest[i] = queue[i + 1] /\ i + 1 \in DOMAIN queue /\ i + 1 # 1
      BY <1>1
<1>3. \A i \in DOMAIN queue : i = 1 \/ (i - 1 \in DOMAIN rest /\ i = (i - 1) + 1)  BY <1>1
<1>4. 1 \in DOMAIN queue  BY <1>1
<1> HIDE DEF rest
<1>5. Distinct(rest)
  <2> SUFFICES ASSUME NEW i \in DOMAIN rest, NEW j \in DOMAIN rest, rest[i] = rest[j] PROVE i = j
      BY DEF Distinct
  <2>1. i + 1 = j + 1  BY <1>2 DEF Distinct
  <2> QED  BY <1>1, <2>1
<1>6. Elems(rest) \subseteq Elems(queue) \ {queue[1]}
      BY <1>2, <1>4 DEF Elems, Distinct
<1>7. Elems(queue) \ {queue[1]} \subseteq Elems(rest)
  <2> SUFFICES ASSUME NEW i \in DOMAIN queue, queue[i] # queue[1] PROVE queue[i] \in Elems(rest)
      BY DEF Elems
  <2>1. i - 1 \in DOMAIN rest /\ i = (i - 1) + 1  BY <1>3
  <2> QED  BY <1>2, <2>1 DEF Elems
<1>8. queue[1] \in Elems(queue)  BY <1>4 DEF Elems
<1> QED  BY <1>1, <1>5, <1>6, <1>7, <1>8 DEF rest

One(condition) == IF condition THEN 1 ELSE 0

\* There are two candidates, so a set of them is counted candidate by candidate.
LEMMA CountCandidates ==
    ASSUME NEW S, S \subseteq Candidates
    PROVE  /\ IsFiniteSet(S)
           /\ Cardinality(S) = One(First \in S) + One(Second \in S)
<1>1. First # Second  BY DEF First, Second
<1>2. IsFiniteSet({}) /\ Cardinality({}) = 0  BY FS_EmptySet
<1>3. /\ IsFiniteSet({First}) /\ Cardinality({First}) = 1
      /\ IsFiniteSet({Second}) /\ Cardinality({Second}) = 1
      BY FS_Singleton
<1>4. IsFiniteSet({First} \cup {Second}) /\ Cardinality({First} \cup {Second}) = 2
      BY <1>1, <1>3, FS_AddElement
<1>5. S = {} \/ S = {First} \/ S = {Second} \/ S = {First} \cup {Second}  BY DEF Candidates
<1> QED  BY <1>1, <1>2, <1>3, <1>4, <1>5 DEF One

-----------------------------------------------------------------------------
(* The inductive invariant.                                                *)

\* Where each Dial is, and what its connection and its watcher are then.
DialInv ==
    \A c \in Candidates :
        /\ c \in started <=> dial[c] # "idle"
        /\ dial[c] \in {"idle", "base"} => conn[c] = "none"
        /\ result[c] = "none" <=> dial[c] \in {"idle", "base", "handshake"}
        /\ dial[c] \in {"closing", "sent"} /\ result[c] # "ready" => conn[c] # "open"
        /\ watcher[c] = "armed" => dial[c] \in {"handshake", "closing"}

\* Whose results are in the channel, read, or yet to come.
ResultsInv ==
    /\ First \in started
    /\ results \in Seq(Candidates) /\ Distinct(results)
    /\ Elems(results) \cap received = {}
    /\ \A c \in Elems(results) \cup received : dial[c] = "sent"
    /\ \A c \in Candidates : dial[c] = "sent" /\ conn[c] = "open" =>
          c \in Elems(results) \/ (main = "won" /\ winner = c)

\* As many results are on their way, sent or unsent, as somebody waits for.
OnTheirWay == One(First \in started /\ dial[First] # "sent")
              + One(Second \in started /\ dial[Second] # "sent") + Len(results)
Awaited == IF main = "select"
           THEN One(First \in started) + One(Second \in started)
                - (One(First \in received) + One(Second \in received))
           ELSE draining

\* How the race can have ended, and what its context then says.
OutcomeInv ==
    /\ main = "select" => context # "race_returned" /\ draining = 0
    /\ \A c \in received : result[c] = "ready" => main = "won" /\ winner = c
    /\ main = "won" => winner \in received
    /\ main = "both_failed" => received = Candidates
    /\ \A c \in Candidates : main = "select" /\ result[c] = "canceled" => context = "parent_canceled"
    /\ \A c \in Candidates : main = "select" /\ result[c] = "ready" => conn[c] = "open" \/ Expired
    /\ LoserNotBlamed

RaceInv == TypeOK /\ DialInv /\ ResultsInv /\ OnTheirWay = Awaited /\ OutcomeInv

LEMMA CandidatesAre ==
    /\ First \in Candidates /\ Second \in Candidates /\ First # Second
    /\ \A c \in Candidates : c = First \/ c = Second
BY DEF Candidates, First, Second

LEMMA RaceInit == Init => RaceInv
<1> SUFFICES ASSUME Init PROVE RaceInv  OBVIOUS
<1>1. TypeOK  BY CandidatesAre DEF Init, TypeOK
<1>2. DialInv  BY CandidatesAre DEF Init, DialInv
<1>3. DOMAIN results = {} /\ Len(results) = 0 /\ results \in Seq(Candidates)  BY DEF Init
<1>4. ResultsInv  BY <1>3 DEF Init, ResultsInv, Elems, Distinct
<1>5. OnTheirWay = Awaited
      BY <1>3, CandidatesAre DEF Init, OnTheirWay, Awaited, One
<1>6. OutcomeInv  BY CandidatesAre DEF Init, OutcomeInv, LoserNotBlamed
<1> QED  BY <1>1, <1>2, <1>4, <1>5, <1>6 DEF RaceInv

\* Nobody awaits more results than there are candidates.
LEMMA AwaitedBound ==
    ASSUME received \subseteq started, draining \in 0..2
    PROVE  Awaited \in Int /\ Awaited =< 2
<1>1. /\ One(First \in started) \in 0..1 /\ One(Second \in started) \in 0..1
      /\ One(First \in received) \in 0..1 /\ One(Second \in received) \in 0..1
      BY DEF One
<1> QED  BY <1>1 DEF Awaited

\* A candidate's Dial hands its result over: what was unsent is now sent.
LEMMA SendStep ==
    ASSUME RaceInv, NEW c \in Candidates, dial[c] \in {"base", "closing"}, Send(c),
           UNCHANGED <<mainVars, context>>
    PROVE  /\ dial' \in [Candidates -> {"idle", "base", "handshake", "closing", "sent"}]
           /\ results' \in Seq(Candidates) /\ Distinct(results') /\ Len(results') =< 2
           /\ Elems(results') = Elems(results) \cup {c}
           /\ (OnTheirWay = Awaited)'
<1> USE DEF RaceInv, ResultsInv
<1>1. c \notin Elems(results) /\ c \in started  BY DEF DialInv
<1>2. /\ results' \in Seq(Candidates) /\ Distinct(results')
      /\ Len(results') = Len(results) + 1 /\ Elems(results') = Elems(results) \cup {c}
      BY <1>1, AppendResult DEF Send
<1>3. dial' = [dial EXCEPT ![c] = "sent"] /\ dial[c] # "sent"  BY DEF Send
<1>4. dial' \in [Candidates -> {"idle", "base", "handshake", "closing", "sent"}]
      BY <1>3 DEF TypeOK
<1>5. Len(results) \in Nat  OBVIOUS
<1>6. OnTheirWay' = OnTheirWay
  <2>1. started' = started  BY DEF mainVars
  <2>2. /\ One(First \in started /\ dial[First] # "sent") \in 0..1
        /\ One(Second \in started /\ dial[Second] # "sent") \in 0..1
        BY DEF One
  <2>3. CASE c = First
    <3>1. /\ One(First \in started /\ dial[First] # "sent") = 1
          /\ One(First \in started' /\ dial'[First] # "sent") = 0
          /\ One(Second \in started' /\ dial'[Second] # "sent")
               = One(Second \in started /\ dial[Second] # "sent")
          BY <1>1, <1>3, <2>1, <2>3, CandidatesAre DEF One, TypeOK
    <3> QED  BY <1>2, <1>5, <2>2, <3>1 DEF OnTheirWay
  <2>4. CASE c = Second
    <3>1. /\ One(Second \in started /\ dial[Second] # "sent") = 1
          /\ One(Second \in started' /\ dial'[Second] # "sent") = 0
          /\ One(First \in started' /\ dial'[First] # "sent")
               = One(First \in started /\ dial[First] # "sent")
          BY <1>1, <1>3, <2>1, <2>4, CandidatesAre DEF One, TypeOK
    <3> QED  BY <1>2, <1>5, <2>2, <3>1 DEF OnTheirWay
  <2> QED  BY <2>3, <2>4, CandidatesAre
<1>7. Awaited' = Awaited  BY DEF Awaited, mainVars
<1>8. Len(results') =< 2
  <2>1. /\ One(First \in started' /\ dial'[First] # "sent") \in 0..1
        /\ One(Second \in started' /\ dial'[Second] # "sent") \in 0..1
        BY DEF One
  <2>2. Len(results') \in Nat /\ Len(results') =< OnTheirWay'
        BY <1>2, <1>5, <2>1 DEF OnTheirWay
  <2>3. Awaited \in Int /\ Awaited =< 2  BY AwaitedBound DEF TypeOK
  <2>4. OnTheirWay' = Awaited  BY <1>6
  <2> QED  BY <2>2, <2>3, <2>4
<1> QED  BY <1>2, <1>4, <1>6, <1>7, <1>8

\* A step that sends and reads nothing leaves the account of the results alone.
LEMMA NothingSent ==
    ASSUME RaceInv, UNCHANGED <<mainVars, results>>,
           \A c \in Candidates : dial'[c] = "sent" <=> dial[c] = "sent"
    PROVE  (OnTheirWay = Awaited)'
<1>1. OnTheirWay' = OnTheirWay  BY CandidatesAre DEF OnTheirWay, One, mainVars
<1>2. Awaited' = Awaited  BY DEF Awaited, mainVars
<1> QED  BY <1>1, <1>2 DEF RaceInv

\* Every step of a candidate leaves alone what the other one does.
LEMMA BaseFailsStep == ASSUME RaceInv, NEW c \in Candidates, BaseFails(c) PROVE RaceInv'
<1> USE DEF RaceInv
<1>1. PICK f \in FailureClass : result' = [result EXCEPT ![c] = f]  BY DEF BaseFails
<1>2. /\ dial[c] = "base" /\ Send(c) /\ UNCHANGED <<mainVars, context, conn, watcher>>
      /\ dial' = [dial EXCEPT ![c] = "sent"]
      BY DEF BaseFails, Send
<1>3. f \in {"failed", "timeout", "canceled"}
      /\ (f = "canceled" => context # "live" /\ context # "deadline")
      BY DEF FailureClass
<1>4. /\ dial' \in [Candidates -> {"idle", "base", "handshake", "closing", "sent"}]
      /\ results' \in Seq(Candidates) /\ Distinct(results') /\ Len(results') =< 2
      /\ Elems(results') = Elems(results) \cup {c}
      /\ (OnTheirWay = Awaited)'
      BY <1>2, SendStep
<1>5. result' \in [Candidates -> {"none", "ready", "failed", "timeout", "canceled"}]
      BY <1>1, <1>3 DEF TypeOK
<1>6. TypeOK'  BY <1>2, <1>4, <1>5 DEF TypeOK, mainVars
<1>7. DialInv'  BY <1>1, <1>2, <1>3 DEF DialInv, TypeOK, mainVars
<1>8. c \notin received /\ c \notin Elems(results)  BY <1>2 DEF ResultsInv
<1>9. ResultsInv'
  <2>1. \A x \in Candidates : dial'[x] = "sent" /\ conn'[x] = "open" =>
            x \in Elems(results)' \/ (main' = "won" /\ winner' = x)
        BY <1>2, <1>4 DEF ResultsInv, DialInv, TypeOK, mainVars
  <2>2. \A x \in Elems(results)' \cup received' : dial'[x] = "sent"
        BY <1>2, <1>4 DEF ResultsInv, TypeOK, mainVars
  <2>3. Elems(results)' \cap received' = {}  BY <1>2, <1>4, <1>8 DEF ResultsInv, mainVars
  <2> QED  BY <1>2, <1>4, <2>1, <2>2, <2>3 DEF ResultsInv, mainVars
<1>10. OutcomeInv'
  <2>1. \A x \in received : result'[x] = result[x]  BY <1>1, <1>8 DEF TypeOK
  <2>2. LoserNotBlamed'  BY <1>2, <2>1 DEF OutcomeInv, LoserNotBlamed, mainVars
  <2>3. \A x \in Candidates : main' = "select" /\ result'[x] = "canceled" => context' = "parent_canceled"
        BY <1>1, <1>2, <1>3 DEF OutcomeInv, TypeOK, mainVars
  <2>4. \A x \in Candidates : main' = "select" /\ result'[x] = "ready" => conn'[x] = "open" \/ Expired'
        BY <1>1, <1>2, <1>3 DEF OutcomeInv, TypeOK, mainVars, Expired
  <2> QED  BY <1>2, <2>1, <2>2, <2>3, <2>4 DEF OutcomeInv, mainVars
<1> QED  BY <1>4, <1>6, <1>7, <1>9, <1>10

LEMMA ReturnStep == ASSUME RaceInv, NEW c \in Candidates, Return(c) PROVE RaceInv'
<1> USE DEF RaceInv
<1>1. /\ dial[c] = "closing" /\ Send(c) /\ UNCHANGED <<mainVars, context, conn, result>>
      /\ dial' = [dial EXCEPT ![c] = "sent"] /\ watcher' = [watcher EXCEPT ![c] = "off"]
      BY DEF Return, Send
<1>2. /\ dial' \in [Candidates -> {"idle", "base", "handshake", "closing", "sent"}]
      /\ results' \in Seq(Candidates) /\ Distinct(results') /\ Len(results') =< 2
      /\ Elems(results') = Elems(results) \cup {c}
      /\ (OnTheirWay = Awaited)'
      BY <1>1, SendStep
<1>3. TypeOK'  BY <1>1, <1>2 DEF TypeOK, mainVars
<1>4. DialInv'  BY <1>1 DEF DialInv, TypeOK, mainVars
<1>5. c \notin received  BY <1>1 DEF ResultsInv
<1>6. ResultsInv'
  <2>1. \A x \in Candidates : dial'[x] = "sent" /\ conn'[x] = "open" =>
            x \in Elems(results)' \/ (main' = "won" /\ winner' = x)
        BY <1>1, <1>2 DEF ResultsInv, TypeOK, mainVars
  <2>2. \A x \in Elems(results)' \cup received' : dial'[x] = "sent"
        BY <1>1, <1>2 DEF ResultsInv, TypeOK, mainVars
  <2>3. Elems(results)' \cap received' = {}  BY <1>1, <1>2, <1>5 DEF ResultsInv, mainVars
  <2> QED  BY <1>1, <1>2, <2>1, <2>2, <2>3 DEF ResultsInv, mainVars
<1>7. OutcomeInv'  BY <1>1 DEF OutcomeInv, LoserNotBlamed, mainVars, Expired
<1> QED  BY <1>2, <1>3, <1>4, <1>6, <1>7

\* The steps that stay within Dial, and those of the watcher.
LEMMA DialStep ==
    ASSUME RaceInv, NEW c \in Candidates,
           BaseConnects(c) \/ HandshakeFails(c) \/ HandshakeReady(c) \/ WatcherFires(c)
    PROVE  RaceInv'
<1> USE DEF RaceInv
<1>1. UNCHANGED <<mainVars, context, results>>
      BY DEF BaseConnects, HandshakeFails, HandshakeReady, WatcherFires
<1>2. /\ dial[c] \in {"base", "handshake", "closing"}
      /\ \/ dial' = [dial EXCEPT ![c] = "handshake"] \/ dial' = [dial EXCEPT ![c] = "closing"]
         \/ dial' = dial
      BY DEF BaseConnects, HandshakeFails, HandshakeReady, WatcherFires, DialInv
<1>3. \A x \in Candidates : dial'[x] = "sent" <=> dial[x] = "sent"  BY <1>2 DEF TypeOK
<1>4. (OnTheirWay = Awaited)'  BY <1>1, <1>3, NothingSent
<1>5. FailureClass \subseteq {"failed", "timeout", "canceled"}
      /\ ("canceled" \in FailureClass => context # "live" /\ context # "deadline")
      BY DEF FailureClass
<1>6. TypeOK'
  <2>1. CASE BaseConnects(c)  BY <1>1, <2>1 DEF BaseConnects, TypeOK, mainVars
  <2>2. CASE HandshakeFails(c)  BY <1>1, <1>5, <2>2 DEF HandshakeFails, TypeOK, mainVars
  <2>3. CASE HandshakeReady(c)  BY <1>1, <2>3 DEF HandshakeReady, TypeOK, mainVars
  <2>4. CASE WatcherFires(c)  BY <1>1, <2>4 DEF WatcherFires, TypeOK, mainVars
  <2> QED  BY <2>1, <2>2, <2>3, <2>4
<1>7. DialInv'
  <2>1. CASE BaseConnects(c)  BY <1>1, <2>1 DEF BaseConnects, DialInv, TypeOK, mainVars
  <2>2. CASE HandshakeFails(c)
        BY <1>1, <1>5, <2>2 DEF HandshakeFails, DialInv, TypeOK, mainVars
  <2>3. CASE HandshakeReady(c)  BY <1>1, <2>3 DEF HandshakeReady, DialInv, TypeOK, mainVars
  <2>4. CASE WatcherFires(c)  BY <1>1, <2>4 DEF WatcherFires, DialInv, TypeOK, mainVars
  <2> QED  BY <2>1, <2>2, <2>3, <2>4
<1>8. \A x \in Candidates : x # c => conn'[x] = conn[x] /\ result'[x] = result[x]
      BY DEF BaseConnects, HandshakeFails, HandshakeReady, WatcherFires, TypeOK
<1>9. c \notin received /\ c \notin Elems(results)  BY <1>2 DEF ResultsInv
<1>10. dial'[c] # "sent"  BY <1>2, <1>3
<1>11. ResultsInv'
  <2>1. \A x \in Elems(results) \cup received : x \in Candidates /\ dial[x] = "sent"
        BY DEF ResultsInv, TypeOK, Elems
  <2>2. \A x \in Elems(results)' \cup received' : dial'[x] = "sent"
        BY <1>1, <1>3, <2>1 DEF mainVars
  <2>3. \A x \in Candidates : dial'[x] = "sent" /\ conn'[x] = "open" =>
            x \in Elems(results)' \/ (main' = "won" /\ winner' = x)
        BY <1>1, <1>3, <1>8, <1>10 DEF ResultsInv, mainVars
  <2> QED  BY <1>1, <2>2, <2>3 DEF ResultsInv, mainVars
<1>12. OutcomeInv'
  <2>1. \A x \in received : x \in Candidates /\ result'[x] = result[x]  BY <1>8, <1>9 DEF TypeOK
  <2>2. LoserNotBlamed'  BY <1>1, <2>1 DEF OutcomeInv, LoserNotBlamed, mainVars
  <2>3. main' = "select" /\ result'[c] = "canceled" => context' = "parent_canceled"
    <3>1. CASE BaseConnects(c) \/ WatcherFires(c)
          BY <1>1, <3>1 DEF BaseConnects, WatcherFires, OutcomeInv, mainVars
    <3>2. CASE HandshakeFails(c)
          BY <1>1, <1>5, <3>2 DEF HandshakeFails, OutcomeInv, mainVars, TypeOK
    <3>3. CASE HandshakeReady(c)  BY <3>3 DEF HandshakeReady, TypeOK
    <3> QED  BY <3>1, <3>2, <3>3
  <2>4. main' = "select" /\ result'[c] = "ready" => conn'[c] = "open" \/ Expired'
    <3>1. CASE BaseConnects(c)  BY <3>1 DEF BaseConnects, TypeOK
    <3>2. CASE HandshakeFails(c)  BY <1>5, <3>2 DEF HandshakeFails, TypeOK
    <3>3. CASE HandshakeReady(c)  BY <3>3 DEF HandshakeReady, TypeOK
    <3>4. CASE WatcherFires(c)
          BY <1>1, <3>4 DEF WatcherFires, OutcomeInv, Expired, mainVars, TypeOK
    <3> QED  BY <3>1, <3>2, <3>3, <3>4
  <2>5. \A x \in Candidates : /\ main' = "select" /\ result'[x] = "canceled" => context' = "parent_canceled"
                              /\ main' = "select" /\ result'[x] = "ready" => conn'[x] = "open" \/ Expired'
        BY <1>1, <1>8, <2>3, <2>4 DEF OutcomeInv, Expired, mainVars
  <2> QED  BY <1>1, <2>1, <2>2, <2>5 DEF OutcomeInv, mainVars
<1> QED  BY <1>4, <1>6, <1>7, <1>11, <1>12

\* Whoever reads the channel takes the oldest result, of a candidate that
\* nobody has read before.
LEMMA ReadStep ==
    ASSUME RaceInv, results # <<>>
    PROVE  /\ Head(results) \in Candidates /\ Head(results) \in Elems(results)
           /\ Head(results) \in started /\ Head(results) \notin received
           /\ dial[Head(results)] = "sent"
           /\ Tail(results) \in Seq(Candidates) /\ Distinct(Tail(results))
           /\ Len(Tail(results)) = Len(results) - 1 /\ Len(results) \in Nat \ {0}
           /\ Elems(Tail(results)) = Elems(results) \ {Head(results)}
<1>1. results \in Seq(Candidates) /\ Distinct(results)  BY DEF RaceInv, ResultsInv
<1>2. /\ Head(results) \in Elems(results) /\ Head(results) \in Candidates
      /\ Tail(results) \in Seq(Candidates) /\ Distinct(Tail(results))
      /\ Len(Tail(results)) = Len(results) - 1 /\ Len(results) >= 1
      /\ Elems(Tail(results)) = Elems(results) \ {Head(results)}
      BY <1>1, ReadResult
<1>3. Len(results) \in Nat  BY <1>1
<1>4. dial[Head(results)] = "sent" /\ Head(results) \notin received
      BY <1>2 DEF RaceInv, ResultsInv
<1>5. Head(results) \in started  BY <1>2, <1>4 DEF RaceInv, DialInv
<1> QED  BY <1>2, <1>3, <1>4, <1>5

\* What is still awaited of the candidates not read, counted one by one.
LEMMA CountRead ==
    ASSUME TypeOK, NEW c \in started, c \notin received
    PROVE  /\ Cardinality(started) = One(First \in started) + One(Second \in started)
           /\ Cardinality(received) = One(First \in received) + One(Second \in received)
           /\ Cardinality(received \cup {c})
                = One(First \in received \cup {c}) + One(Second \in received \cup {c})
           /\ One(First \in received \cup {c}) + One(Second \in received \cup {c})
                = One(First \in received) + One(Second \in received) + 1
<1>1. received \cup {c} \subseteq Candidates /\ started \subseteq Candidates /\ c \in Candidates
      BY DEF TypeOK
<1>2. One(First \in received \cup {c}) + One(Second \in received \cup {c})
        = One(First \in received) + One(Second \in received) + 1
      BY <1>1, CandidatesAre DEF One
<1> QED  BY <1>1, <1>2, CountCandidates

LEMMA OnesAreNumbers ==
    /\ One(First \in started) \in 0..1 /\ One(Second \in started) \in 0..1
    /\ One(First \in received) \in 0..1 /\ One(Second \in received) \in 0..1
    /\ One(First \in started /\ dial[First] # "sent") \in 0..1
    /\ One(Second \in started /\ dial[Second] # "sent") \in 0..1
BY DEF One

LEMMA OnDoneStep == ASSUME RaceInv, OnDone PROVE RaceInv'
<1> USE DEF RaceInv
<1>1. /\ main = "select" /\ context # "live" /\ main' = "context_ended" /\ context' = context
      /\ draining' = Cardinality(started) - Cardinality(received)
      /\ UNCHANGED <<started, received, winner, timer, dialVars, results>>
      BY DEF OnDone, ReturnRace, Cancel
<1>2. received \subseteq Candidates /\ started \subseteq Candidates  BY DEF TypeOK
<1>3. draining' = One(First \in started) + One(Second \in started)
                  - (One(First \in received) + One(Second \in received))
  <2>1. Cardinality(started) = One(First \in started) + One(Second \in started)
        BY <1>2, CountCandidates
  <2>2. Cardinality(received) = One(First \in received) + One(Second \in received)
        BY <1>2, CountCandidates
  <2> QED  BY <1>1, <2>1, <2>2, OnesAreNumbers
<1>4. OnTheirWay' = OnTheirWay  BY <1>1 DEF OnTheirWay, dialVars
<1>5. Awaited' = Awaited  BY <1>1, <1>3 DEF Awaited
<1>6. draining' \in 0..2
  <2>1. Len(results) \in Nat  BY DEF ResultsInv
  <2>2. draining' = OnTheirWay  BY <1>1, <1>3 DEF Awaited
  <2> QED  BY <1>3, <2>1, <2>2, OnesAreNumbers DEF OnTheirWay
<1>7. TypeOK'  BY <1>1, <1>6 DEF TypeOK, dialVars
<1>8. DialInv'  BY <1>1 DEF DialInv, dialVars
<1>9. ResultsInv'  BY <1>1 DEF ResultsInv, dialVars
<1>10. OutcomeInv'
  <2>1. LoserNotBlamed'  BY <1>1 DEF OutcomeInv, LoserNotBlamed, dialVars, TypeOK
  <2> QED  BY <1>1, <2>1 DEF OutcomeInv, dialVars
<1> QED  BY <1>4, <1>5, <1>7, <1>8, <1>9, <1>10

\* Launching the second candidate adds one to what is awaited and unsent.
LEMMA LaunchStep ==
    ASSUME RaceInv, Second \notin started, Launch(Second), main = "select",
           timer' \in {"running", "expired", "off"},
           UNCHANGED <<main, received, winner, draining, context, conn, watcher, result, results>>
    PROVE  RaceInv'
<1> USE DEF RaceInv
<1>1. dial[Second] = "idle" /\ Second \notin received  BY CandidatesAre DEF DialInv, TypeOK
<1>2. started' = started \cup {Second} /\ dial' = [dial EXCEPT ![Second] = "base"]  BY DEF Launch
<1>3. TypeOK'  BY <1>2, CandidatesAre DEF TypeOK
<1>4. DialInv'  BY <1>1, <1>2, CandidatesAre DEF DialInv, TypeOK
<1>5. \A x \in Candidates : dial[x] = "sent" <=> dial'[x] = "sent"  BY <1>1, <1>2 DEF TypeOK
<1>6. ResultsInv'
  <2>1. \A x \in Elems(results) \cup received : x \in Candidates
        BY DEF ResultsInv, Elems, TypeOK
  <2> QED  BY <1>2, <1>5, <2>1 DEF ResultsInv
<1>7. OnTheirWay' = OnTheirWay + 1 /\ Awaited' = Awaited + 1
  <2>1. /\ One(First \in started' /\ dial'[First] # "sent")
             = One(First \in started /\ dial[First] # "sent")
        /\ One(Second \in started' /\ dial'[Second] # "sent")
             = One(Second \in started /\ dial[Second] # "sent") + 1
        /\ One(First \in started') = One(First \in started)
        /\ One(Second \in started') = One(Second \in started) + 1
        BY <1>1, <1>2, CandidatesAre DEF One, TypeOK
  <2>2. Len(results) \in Nat  BY DEF ResultsInv
  <2> QED  BY <2>1, <2>2, OnesAreNumbers DEF OnTheirWay, Awaited
<1>8. OutcomeInv'  BY DEF OutcomeInv, LoserNotBlamed, Expired
<1> QED  BY <1>3, <1>4, <1>6, <1>7, <1>8

LEMMA OnTimerStep == ASSUME RaceInv, OnTimer PROVE RaceInv'
<1> USE DEF RaceInv
<1>1. /\ main = "select" /\ timer' = "off"
      /\ UNCHANGED <<main, received, winner, draining, context, conn, watcher, result, results>>
      BY DEF OnTimer
<1>2. CASE Second \in started
  <2>1. started' = started /\ dial' = dial  BY <1>2 DEF OnTimer
  <2>2. OnTheirWay' = OnTheirWay /\ Awaited' = Awaited
        BY <1>1, <2>1 DEF OnTheirWay, Awaited
  <2> QED  BY <1>1, <2>1, <2>2
           DEF TypeOK, DialInv, ResultsInv, OutcomeInv, LoserNotBlamed, Expired
<1>3. CASE Second \notin started
      BY <1>1, <1>3, LaunchStep DEF OnTimer
<1> QED  BY <1>2, <1>3

LEMMA OnReadyStep == ASSUME RaceInv, OnReady PROVE RaceInv'
<1> USE DEF RaceInv
<1> DEFINE c == Head(results)
<1>1. /\ main = "select" /\ results # <<>> /\ result[c] = "ready"
      /\ winner' = c /\ received' = received \cup {c} /\ results' = Tail(results)
      /\ main' = "won" /\ context' = IF context = "live" THEN "race_returned" ELSE context
      /\ draining' = Cardinality(started) - Cardinality(received')
      /\ UNCHANGED <<started, timer, dialVars>>
      BY DEF OnReady, ReturnRace, Cancel
<1>2. /\ c \in Candidates /\ c \in Elems(results) /\ c \in started /\ c \notin received
      /\ dial[c] = "sent"
      /\ results' \in Seq(Candidates) /\ Distinct(results')
      /\ Len(results') = Len(results) - 1 /\ Len(results) \in Nat \ {0}
      /\ Elems(results') = Elems(results) \ {c}
      BY <1>1, ReadStep
<1> HIDE DEF c
<1>3. draining' = Awaited - 1 /\ Awaited \in Int
      BY <1>1, <1>2, CountRead, OnesAreNumbers DEF Awaited
<1>4. OnTheirWay' = OnTheirWay - 1  BY <1>1, <1>2, OnesAreNumbers DEF OnTheirWay, dialVars
<1>5. Awaited' = draining'  BY <1>1 DEF Awaited
<1>6. draining' \in 0..2
  <2>1. Awaited =< 2  BY AwaitedBound DEF TypeOK
  <2>2. OnTheirWay >= 1  BY <1>2, OnesAreNumbers DEF OnTheirWay
  <2> QED  BY <1>3, <2>1, <2>2
<1>7. TypeOK'
  <2>1. Len(results') =< 2  BY <1>2 DEF TypeOK
  <2>2. received' \subseteq started'  BY <1>1, <1>2 DEF TypeOK
  <2> QED  BY <1>1, <1>2, <1>6, <2>1, <2>2 DEF TypeOK, dialVars
<1>8. DialInv'  BY <1>1 DEF DialInv, dialVars
<1>9. ResultsInv'  BY <1>1, <1>2 DEF ResultsInv, dialVars
<1>10. OutcomeInv'
  <2>1. \A x \in received' : result'[x] = "canceled" => context' = "parent_canceled"
        BY <1>1, <1>2 DEF OutcomeInv, dialVars, TypeOK
  <2>2. \A x \in received' : result'[x] = "ready" => x = c
        BY <1>1 DEF OutcomeInv, dialVars
  <2> QED  BY <1>1, <2>1, <2>2 DEF OutcomeInv, LoserNotBlamed
<1> QED  BY <1>3, <1>4, <1>5, <1>7, <1>8, <1>9, <1>10

\* What every failure read does, whether or not it ends the race.
LEMMA OnFailureStep == ASSUME RaceInv, OnFailure PROVE RaceInv'
<1> USE DEF RaceInv
<1> DEFINE c == Head(results)
<1>1. /\ main = "select" /\ results # <<>> /\ result[c] # "ready"
      /\ received' = received \cup {c} /\ results' = Tail(results)
      /\ UNCHANGED <<winner, conn, watcher, result>>
      BY DEF OnFailure
<1>2. /\ c \in Candidates /\ c \in Elems(results) /\ c \in started /\ c \notin received
      /\ dial[c] = "sent"
      /\ results' \in Seq(Candidates) /\ Distinct(results')
      /\ Len(results') = Len(results) - 1 /\ Len(results) \in Nat \ {0}
      /\ Elems(results') = Elems(results) \ {c}
      BY <1>1, ReadStep
<1>3. \/ /\ c = First /\ Second \notin started /\ timer' = "off" /\ Launch(Second)
         /\ UNCHANGED <<main, context, draining>>
      \/ /\ UNCHANGED <<timer, started, dial>> /\ received' = Candidates
         /\ ReturnRace("both_failed", received')
      \/ UNCHANGED <<timer, started, dial, main, context, draining>>
      BY DEF OnFailure
<1> HIDE DEF c
<1>4. conn[c] # "open"  BY <1>1, <1>2 DEF DialInv
<1>5. /\ received' \subseteq started' /\ started \subseteq started' /\ started' \subseteq Candidates
      BY <1>1, <1>2, <1>3, CandidatesAre DEF TypeOK, Launch
<1>6. \A x \in Candidates : dial[x] = "sent" <=> dial'[x] = "sent"
      BY <1>3, CandidatesAre DEF Launch, DialInv, TypeOK
<1>7. DialInv'
      BY <1>1, <1>3, CandidatesAre DEF DialInv, Launch, TypeOK
<1>8. ResultsInv'
  <2>1. \A x \in Elems(results') \cup received' : x \in Candidates /\ dial'[x] = "sent"
        BY <1>1, <1>2, <1>6 DEF ResultsInv, Elems, TypeOK
  <2>2. \A x \in Candidates : dial'[x] = "sent" /\ conn'[x] = "open" => x \in Elems(results')
        BY <1>1, <1>2, <1>4, <1>6 DEF ResultsInv
  <2> QED  BY <1>1, <1>2, <1>5, <2>1, <2>2 DEF ResultsInv
<1>9. \A x \in received' : result'[x] # "ready"
      BY <1>1 DEF OutcomeInv
<1>10. OnTheirWay' = Awaited' /\ (main' # "select" => draining' \in 0..2)
       /\ (main' = "select" => draining' = 0)
  <2>1. CASE c = First /\ Second \notin started /\ Launch(Second) /\ UNCHANGED <<main, draining>>
    <3>1. /\ One(First \in started' /\ dial'[First] # "sent")
               = One(First \in started /\ dial[First] # "sent")
          /\ One(Second \in started' /\ dial'[Second] # "sent")
               = One(Second \in started /\ dial[Second] # "sent") + 1
          /\ One(First \in started') = One(First \in started)
          /\ One(Second \in started') = One(Second \in started) + 1
          BY <2>1, CandidatesAre DEF Launch, One, TypeOK
    <3>2. OnTheirWay' = OnTheirWay  BY <1>2, <3>1, OnesAreNumbers DEF OnTheirWay
    <3>3. One(First \in received') + One(Second \in received')
             = One(First \in received) + One(Second \in received) + 1
          BY <1>1, <1>2, CountRead
    <3>4. Awaited' = Awaited  BY <1>1, <2>1, <3>1, <3>3, OnesAreNumbers DEF Awaited
    <3> QED  BY <1>1, <2>1, <3>2, <3>4 DEF OutcomeInv
  <2>2. CASE UNCHANGED <<started, dial>> /\ ReturnRace("both_failed", received')
    <3>1. draining' = Awaited - 1 /\ Awaited \in Int
      <4>1. draining' = Cardinality(started) - Cardinality(received \cup {c})
            BY <1>1, <2>2 DEF ReturnRace
      <4>2. /\ Cardinality(started) = One(First \in started) + One(Second \in started)
            /\ Cardinality(received \cup {c})
                  = One(First \in received) + One(Second \in received) + 1
            BY <1>2, CountRead
      <4>3. Awaited = One(First \in started) + One(Second \in started)
                      - (One(First \in received) + One(Second \in received))
            BY <1>1 DEF Awaited
      <4> QED  BY <4>1, <4>2, <4>3, OnesAreNumbers
    <3>2. OnTheirWay' = OnTheirWay - 1  BY <1>2, <2>2, OnesAreNumbers DEF OnTheirWay
    <3>3. Awaited' = draining' /\ main' = "both_failed"  BY <2>2 DEF Awaited, ReturnRace
    <3>4. Awaited =< 2  BY AwaitedBound DEF TypeOK
    <3>5. OnTheirWay >= 1  BY <1>2, OnesAreNumbers DEF OnTheirWay
    <3> QED  BY <3>1, <3>2, <3>3, <3>4, <3>5
  <2>3. CASE UNCHANGED <<started, dial, main, draining>>
    <3>1. OnTheirWay' = OnTheirWay - 1  BY <1>2, <2>3, OnesAreNumbers DEF OnTheirWay
    <3>2. Awaited' = Awaited - 1 /\ Awaited \in Int
      <4>1. One(First \in received') + One(Second \in received')
               = One(First \in received) + One(Second \in received) + 1
            BY <1>1, <1>2, CountRead
      <4>2. Awaited' = One(First \in started) + One(Second \in started)
                       - (One(First \in received') + One(Second \in received'))
            BY <1>1, <2>3 DEF Awaited
      <4>3. Awaited = One(First \in started) + One(Second \in started)
                      - (One(First \in received) + One(Second \in received))
            BY <1>1 DEF Awaited
      <4> QED  BY <4>1, <4>2, <4>3, OnesAreNumbers
    <3> QED  BY <1>1, <2>3, <3>1, <3>2 DEF OutcomeInv
  <2> QED  BY <1>3, <2>1, <2>2, <2>3
<1>11. TypeOK'
  <2>1. main' \in {"select", "both_failed"} /\ draining' \in 0..2
        BY <1>1, <1>3, <1>10 DEF ReturnRace
  <2>2. context' \in {"live", "parent_canceled", "deadline", "race_returned"}
        BY <1>3 DEF ReturnRace, Cancel, TypeOK
  <2>3. dial' \in [Candidates -> {"idle", "base", "handshake", "closing", "sent"}]
        BY <1>3 DEF Launch, TypeOK
  <2>4. timer' \in {"running", "expired", "off"}  BY <1>3 DEF TypeOK
  <2>5. Len(results') =< 2  BY <1>2 DEF TypeOK
  <2> QED  BY <1>1, <1>2, <1>5, <2>1, <2>2, <2>3, <2>4, <2>5 DEF TypeOK
<1>12. OutcomeInv'
  <2>1. CASE UNCHANGED <<main, context>>
    <3>1. main' = "select" /\ context' = context /\ context # "race_returned" /\ draining' = 0
          BY <1>1, <1>10, <2>1 DEF OutcomeInv
    <3> QED  BY <1>1, <1>9, <3>1 DEF OutcomeInv, LoserNotBlamed, Expired
  <2>2. CASE received' = Candidates /\ ReturnRace("both_failed", received')
    <3>1. main' = "both_failed" /\ (context # "live" => context' = context)
          BY <2>2 DEF ReturnRace, Cancel
    <3>2. \A x \in received' : result'[x] = "canceled" => context' = "parent_canceled"
          BY <1>1, <2>2, <3>1 DEF OutcomeInv
    <3> QED  BY <1>9, <2>2, <3>1, <3>2 DEF OutcomeInv, LoserNotBlamed
  <2> QED  BY <1>3, <2>1, <2>2
<1> QED  BY <1>7, <1>8, <1>10, <1>11, <1>12

LEMMA DrainStep == ASSUME RaceInv, Drain PROVE RaceInv'
<1> USE DEF RaceInv
<1> DEFINE c == Head(results)
<1>1. /\ draining > 0 /\ results # <<>> /\ draining' = draining - 1 /\ results' = Tail(results)
      /\ conn' = [conn EXCEPT ![c] = IF result[c] = "ready" THEN "closed" ELSE @]
      /\ UNCHANGED <<main, started, received, winner, timer, context, dial, watcher, result>>
      BY DEF Drain
<1>2. /\ c \in Candidates /\ c \in Elems(results) /\ c \in started /\ c \notin received
      /\ dial[c] = "sent"
      /\ results' \in Seq(Candidates) /\ Distinct(results')
      /\ Len(results') = Len(results) - 1 /\ Len(results) \in Nat \ {0}
      /\ Elems(results') = Elems(results) \ {c}
      BY <1>1, ReadStep
<1> HIDE DEF c
<1>3. main # "select"  BY <1>1 DEF OutcomeInv
<1>4. OnTheirWay' = OnTheirWay - 1  BY <1>1, <1>2, OnesAreNumbers DEF OnTheirWay
<1>5. Awaited' = Awaited - 1  BY <1>1, <1>3 DEF Awaited
<1>6. TypeOK'
  <2>1. draining' \in 0..2 /\ Len(results') =< 2  BY <1>1, <1>2 DEF TypeOK
  <2>2. conn' \in [Candidates -> {"none", "open", "closed"}]  BY <1>1 DEF TypeOK
  <2> QED  BY <1>1, <1>2, <2>1, <2>2 DEF TypeOK
<1>7. \A x \in Candidates : conn'[x] = conn[x] \/ (x = c /\ conn'[x] = "closed")
      BY <1>1 DEF TypeOK
<1>8. conn'[c] # "open"  BY <1>1, <1>2 DEF TypeOK, DialInv
<1>9. DialInv'  BY <1>1, <1>2, <1>7 DEF DialInv
<1>10. ResultsInv'
  <2>1. \A x \in Candidates : dial'[x] = "sent" /\ conn'[x] = "open" =>
            x \in Elems(results') \/ (main' = "won" /\ winner' = x)
        BY <1>1, <1>2, <1>7, <1>8 DEF ResultsInv
  <2> QED  BY <1>1, <1>2, <2>1 DEF ResultsInv
<1>11. OutcomeInv'  BY <1>1, <1>3 DEF OutcomeInv, LoserNotBlamed
<1> QED  BY <1>4, <1>5, <1>6, <1>9, <1>10, <1>11

\* Time and the caller only move the timer and the context.
LEMMA ElseStep ==
    ASSUME RaceInv, HeadStartEnds \/ DeadlinePasses \/ ParentCancels \/ UNCHANGED vars
    PROVE  RaceInv'
<1> USE DEF RaceInv
<1>1. UNCHANGED <<main, started, received, winner, draining, dialVars, results>>
      BY DEF HeadStartEnds, DeadlinePasses, ParentCancels, vars, mainVars
<1>2. \/ context' = context
      \/ context = "live" /\ context' \in {"deadline", "parent_canceled"}
      BY DEF HeadStartEnds, DeadlinePasses, ParentCancels, vars
<1>3. timer' \in {"running", "expired", "off"}
      BY DEF HeadStartEnds, DeadlinePasses, ParentCancels, vars, mainVars, TypeOK
<1>4. TypeOK'  BY <1>1, <1>2, <1>3 DEF TypeOK, dialVars
<1>5. DialInv' /\ ResultsInv'  BY <1>1 DEF DialInv, ResultsInv, dialVars
<1>6. OnTheirWay' = OnTheirWay /\ Awaited' = Awaited
      BY <1>1 DEF OnTheirWay, Awaited, dialVars
<1>7. OutcomeInv'
      BY <1>1, <1>2 DEF OutcomeInv, LoserNotBlamed, Expired, dialVars
<1> QED  BY <1>4, <1>5, <1>6, <1>7

LEMMA RaceNext == RaceInv /\ [Next]_vars => RaceInv'
BY BaseFailsStep, ReturnStep, DialStep, OnDoneStep, OnTimerStep, OnReadyStep, OnFailureStep,
   DrainStep, ElseStep DEF Next, Candidate, Select, Finished

-----------------------------------------------------------------------------
(* What the invariant says of the properties.                              *)

LEMMA InvOwned == RaceInv => EveryConnectionOwned
<1> SUFFICES ASSUME RaceInv PROVE EveryConnectionOwned  OBVIOUS
<1> USE DEF RaceInv
<1>1. Unread = OnTheirWay
  <2> DEFINE unsent == {c \in started : dial[c] # "sent"}
  <2>1. unsent \subseteq Candidates  BY DEF TypeOK
  <2>2. /\ First \in unsent <=> (First \in started /\ dial[First] # "sent")
        /\ Second \in unsent <=> (Second \in started /\ dial[Second] # "sent")
        OBVIOUS
  <2>3. Cardinality(unsent) = One(First \in unsent) + One(Second \in unsent)
        BY <2>1, CountCandidates
  <2>4. Cardinality(unsent) = One(First \in started /\ dial[First] # "sent")
                              + One(Second \in started /\ dial[Second] # "sent")
        BY <2>2, <2>3 DEF One
  <2> QED  BY <2>4 DEF Unread, OnTheirWay
<1>2. received \subseteq Candidates /\ started \subseteq Candidates  BY DEF TypeOK
<1>3. Unread = IF main = "select" THEN Cardinality(started) - Cardinality(received) ELSE draining
  <2>1. Cardinality(started) = One(First \in started) + One(Second \in started)
        BY <1>2, CountCandidates
  <2>2. Cardinality(received) = One(First \in received) + One(Second \in received)
        BY <1>2, CountCandidates
  <2> QED  BY <1>1, <2>1, <2>2, OnesAreNumbers DEF Awaited
<1>4. ASSUME NEW c \in Candidates, conn[c] = "open"
      PROVE  \/ dial[c] \in {"handshake", "closing"}
             \/ \E i \in DOMAIN results : results[i] = c
             \/ main = "won" /\ winner = c
  <2>1. dial[c] \in {"handshake", "closing", "sent"}  BY <1>4 DEF DialInv, TypeOK
  <2> QED  BY <1>4, <2>1 DEF ResultsInv, Elems
<1> QED  BY <1>3, <1>4 DEF EveryConnectionOwned

LEMMA InvFinal == RaceInv => BothFailedIsFinal
<1> SUFFICES ASSUME RaceInv, main = "both_failed"
             PROVE  /\ draining = 0 /\ results = <<>>
                    /\ \A c \in Candidates : conn[c] # "open" /\ result[c] \notin {"none", "ready"}
    BY DEF BothFailedIsFinal
<1> USE DEF RaceInv
<1>1. received = Candidates  BY DEF OutcomeInv
<1>2. \A c \in Candidates : dial[c] = "sent" /\ result[c] # "ready"
      BY <1>1 DEF ResultsInv, OutcomeInv
<1>3. \A c \in Candidates : conn[c] # "open" /\ result[c] # "none"
      BY <1>2 DEF DialInv
<1>4. Elems(results) = {} /\ results \in Seq(Candidates)
  <2>1. Elems(results) \subseteq Candidates  BY DEF ResultsInv, Elems
  <2> QED  BY <1>1, <2>1 DEF ResultsInv
<1>5. DOMAIN results = {}  BY <1>4 DEF Elems
<1>6. Len(results) = 0 /\ results = <<>>  BY <1>4, <1>5
<1>7. OnTheirWay = 0  BY <1>2, <1>6, CandidatesAre DEF OnTheirWay, One
<1> QED  BY <1>2, <1>3, <1>6, <1>7 DEF Awaited

\* Every variable of a race keeps its type: the channel never holds more
\* results than its capacity, so that no candidate's goroutine ever blocks.
THEOREM RaceTypes == Spec => []TypeOK
<1>1. RaceInv => TypeOK  BY DEF RaceInv
<1> QED  BY <1>1, RaceInit, RaceNext, PTL DEF Spec

\* However its goroutines interleave, a race leaves no connection without an
\* owner, blames no candidate that it cancelled itself, and is lost only when
\* both candidates have failed and left nothing behind.
THEOREM RaceIsSafe == Spec => [](EveryConnectionOwned /\ LoserNotBlamed /\ BothFailedIsFinal)
<1>1. RaceInv => EveryConnectionOwned /\ LoserNotBlamed /\ BothFailedIsFinal
      BY InvOwned, InvFinal DEF RaceInv, OutcomeInv
<1> QED  BY <1>1, RaceInit, RaceNext, PTL DEF Spec

-----------------------------------------------------------------------------
(* Every step of the race is one that its caller was promised.             *)

Promised == INSTANCE RaceOutcome WITH
    open <- Held, outcome <- Outcome, chosen <- Chosen, expired <- Expired

LEMMA PromisedInit == Init => Promised!Init
BY DEF Init, Promised!Init, Held, Outcome, Chosen, Expired

\* A step within Dial, of the watcher or of the drain, seen from outside.
LEMMA HeldStep ==
    ASSUME RaceInv, UNCHANGED <<main, winner, context>>, NEW c \in Candidates, c \notin Chosen,
           \A x \in Candidates \ {c} : conn'[x] = conn[x]
    PROVE  Promised!Next \/ UNCHANGED Promised!vars
<1>1. /\ Outcome' = Outcome /\ Chosen' = Chosen /\ Expired' = Expired
      BY DEF Outcome, Chosen, Expired
<1>2. Held' = Held \/ (c \notin Held /\ Held' = Held \cup {c}) \/ (c \in Held /\ Held' = Held \ {c})
      BY DEF Held
<1>3. CASE Held' = Held  BY <1>1, <1>3 DEF Promised!vars
<1>4. CASE c \notin Held /\ Held' = Held \cup {c}
      BY <1>1, <1>4 DEF Promised!Next, Promised!Open
<1>5. CASE c \in Held /\ Held' = Held \ {c}
      BY <1>1, <1>5 DEF Promised!Next, Promised!Close
<1> QED  BY <1>2, <1>3, <1>4, <1>5

LEMMA PromisedNext ==
    RaceInv /\ [Next]_vars => Promised!Next \/ UNCHANGED Promised!vars
<1> SUFFICES ASSUME RaceInv, [Next]_vars PROVE Promised!Next \/ UNCHANGED Promised!vars  OBVIOUS
<1> USE DEF RaceInv
<1>1. ASSUME NEW c \in Candidates, Candidate(c) PROVE Promised!Next \/ UNCHANGED Promised!vars
  <2>1. UNCHANGED <<main, winner, context>> /\ dial[c] # "sent"
        BY <1>1 DEF Candidate, BaseFails, BaseConnects, HandshakeFails, HandshakeReady, WatcherFires,
           Return, mainVars, DialInv
  <2>2. c \notin Chosen  BY <2>1 DEF Chosen, OutcomeInv, ResultsInv
  <2>3. \A x \in Candidates \ {c} : conn'[x] = conn[x]
        BY <1>1 DEF Candidate, BaseFails, BaseConnects, HandshakeFails, HandshakeReady, WatcherFires,
           Return, TypeOK
  <2> QED  BY <2>1, <2>2, <2>3, HeldStep
<1>2. ASSUME Drain PROVE Promised!Next \/ UNCHANGED Promised!vars
  <2> DEFINE c == Head(results)
  <2>1. c \in Candidates /\ c \notin received  BY <1>2, ReadStep DEF Drain
  <2>2. UNCHANGED <<main, winner, context>> /\ \A x \in Candidates \ {c} : conn'[x] = conn[x]
        BY <1>2 DEF Drain, TypeOK
  <2> HIDE DEF c
  <2>3. c \notin Chosen  BY <2>1 DEF Chosen, OutcomeInv
  <2> QED  BY <2>1, <2>2, <2>3, HeldStep
<1>3. ASSUME OnReady PROVE Promised!Next
  <2> DEFINE c == Head(results)
  <2>1. /\ main = "select" /\ main' = "won" /\ winner' = c /\ conn' = conn /\ result[c] = "ready"
        /\ context' = IF context = "live" THEN "race_returned" ELSE context
        BY <1>3 DEF OnReady, ReturnRace, Cancel, dialVars
  <2>2. c \in Candidates  BY <1>3, ReadStep DEF OnReady
  <2> HIDE DEF c
  <2>3. c \in Held \/ Expired  BY <2>1, <2>2 DEF Held, OutcomeInv
  <2>4. Outcome = "pending" /\ Outcome' = "won" /\ Chosen' = {c}  BY <2>1 DEF Outcome, Chosen
  <2>5. Held' = Held /\ Expired' = Expired  BY <2>1 DEF Held, Expired
  <2> QED  BY <2>2, <2>3, <2>4, <2>5 DEF Promised!Next, Promised!Choose
<1>4. ASSUME OnDone \/ OnFailure PROVE Promised!Next \/ UNCHANGED Promised!vars
  <2>1. /\ main = "select" /\ conn' = conn /\ winner' = winner
        /\ \/ UNCHANGED <<main, context>>
           \/ /\ main' \in {"both_failed", "context_ended"}
              /\ context' = IF context = "live" THEN "race_returned" ELSE context
        BY <1>4 DEF OnDone, OnFailure, ReturnRace, Cancel, dialVars
  <2>2. Held' = Held /\ Expired' = Expired  BY <2>1 DEF Held, Expired
  <2>3. CASE UNCHANGED <<main, context>>
        BY <2>1, <2>2, <2>3 DEF Promised!vars, Outcome, Chosen
  <2>4. CASE main' \in {"both_failed", "context_ended"}
    <3>1. Outcome = "pending" /\ Outcome' = "failed" /\ Chosen' = Chosen
          BY <2>1, <2>4 DEF Outcome, Chosen
    <3> QED  BY <2>2, <3>1 DEF Promised!Next, Promised!Fail
  <2> QED  BY <2>1, <2>3, <2>4
<1>5. ASSUME OnTimer \/ HeadStartEnds \/ UNCHANGED vars PROVE UNCHANGED Promised!vars
  <2>1. UNCHANGED <<main, winner, context, conn>>
        BY <1>5 DEF OnTimer, HeadStartEnds, vars, mainVars, dialVars
  <2> QED  BY <2>1 DEF Promised!vars, Held, Outcome, Chosen, Expired
<1>6. ASSUME DeadlinePasses \/ ParentCancels PROVE Promised!Next
  <2>1. /\ context = "live" /\ context' \in {"deadline", "parent_canceled"}
        /\ UNCHANGED <<main, winner, conn>>
        BY <1>6 DEF DeadlinePasses, ParentCancels, mainVars, dialVars
  <2>2. ~Expired /\ Expired' = TRUE  BY <2>1 DEF Expired
  <2>3. UNCHANGED <<Held, Outcome, Chosen>>  BY <2>1 DEF Held, Outcome, Chosen
  <2> QED  BY <2>2, <2>3 DEF Promised!Next, Promised!Expire
<1> QED  BY <1>1, <1>2, <1>3, <1>4, <1>5, <1>6 DEF Next, Select, Finished

\* Racer.Race implements, step by step, what RaceOutcome promises its caller:
\* one outcome, one choice, of a connection that was open unless its time ran
\* out under it, and after it only losers are closed.
THEOREM RaceImplements == Spec => Promised!Init /\ [][Promised!Next]_Promised!vars
<1>1. Spec => []RaceInv  BY RaceInit, RaceNext, PTL DEF Spec
<1>2. RaceInv /\ [Next]_vars => [Promised!Next]_Promised!vars  BY PromisedNext
<1> QED  BY <1>1, <1>2, PromisedInit, PTL DEF Spec
=============================================================================
