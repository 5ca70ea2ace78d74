------------------------ MODULE MCConnection_proofs ------------------------
(***************************************************************************)
(* Proofs about one proxied connection, whichever call it makes: no        *)
(* connection is left without an owner, no path is blamed for what it did  *)
(* not do, and both ways of choosing a path keep step by step the promise  *)
(* that RaceOutcome states; and a relay reports, for every amount of data, *)
(* what happened to its two connections.  The proofs about the race are in *)
(* a module of their own; those about the relay come first.                *)
(***************************************************************************)
EXTENDS MCConnection, TLAPS

-----------------------------------------------------------------------------
(* The counter counts the directions that are not done.                    *)

Running(s) == IF copier[s] = "done" THEN 0 ELSE 1

\* It says "finished" exactly when there are none.
CounterInv ==
    /\ remaining = Running("left") + Running("right")
    /\ finished <=> remaining = 0

TypeInv == TypeOK /\ CounterInv

LEMMA TypeInit == Init => TypeInv
<1> SUFFICES ASSUME Init PROVE TypeInv  OBVIOUS
<1>1. copier = [s \in Sides |-> "reading"] /\ remaining = 2 /\ finished = FALSE  BY DEF Init
<1>2. Running("left") = 1 /\ Running("right") = 1  BY <1>1 DEF Running, Sides
<1>6. CounterInv  BY <1>1, <1>2 DEF CounterInv
<1>3. sent \in [Sides -> 0..MaxBytes] /\ copied \in [Sides -> 0..MaxBytes]
      BY RelayAssumption DEF Init
<1>4. canHalfClose \subseteq Sides /\ handedClosed \in BOOLEAN  BY DEF Init, Sides
<1>5. TypeOK
  <2>1. /\ peer \in [Sides -> {"open", "fin", "reset"}] /\ ours \in [Sides -> {"open", "closed"}]
        /\ finSent \in [Sides -> BOOLEAN] /\ end \in [Sides -> {"none", "eof", "reset", "closed"}]
        BY DEF Init
  <2>2. copier \in [Sides -> {"reading", "writing", "reported", "half_closed", "done"}]  BY <1>1
  <2>3. closer = "waiting" /\ context = "live" /\ remaining \in 0..2  BY <1>1 DEF Init
  <2>4. finished \in BOOLEAN /\ canceled \in BOOLEAN /\ returned \in BOOLEAN  BY DEF Init
  <2> QED  BY <1>3, <1>4, <2>1, <2>2, <2>3, <2>4 DEF TypeOK
<1> QED  BY <1>5, <1>6 DEF TypeInv

LEMMA OtherSide == \A s \in Sides : Other(s) \in Sides /\ Other(s) # s /\ Sides = {s, Other(s)}
BY DEF Sides, Other

\* A direction that has not counted itself moves within itself.
LEMMA RunningMoves ==
    ASSUME TypeInv, NEW s \in Sides, NEW place \in {"reading", "writing", "reported", "half_closed"},
           copier[s] # "done", Goto(s, place), UNCHANGED <<remaining, finished>>
    PROVE  CounterInv' /\ copier' \in [Sides -> {"reading", "writing", "reported", "half_closed", "done"}]
BY DEF TypeInv, TypeOK, CounterInv, Running, Goto, Sides

LEMMA CopyEndsType ==
    ASSUME TypeInv, NEW s \in Sides, NEW how \in {"eof", "reset", "closed"},
           copier[s] # "done", CopyEnds(s, how)
    PROVE  TypeInv'
<1>1. CounterInv' /\ copier' \in [Sides -> {"reading", "writing", "reported", "half_closed", "done"}]
      BY RunningMoves DEF CopyEnds
<1> QED  BY <1>1 DEF CopyEnds, TypeInv, TypeOK, given, peerVars

LEMMA TypeNext == TypeInv /\ [Next]_vars => TypeInv'
<1> SUFFICES ASSUME TypeInv, [Next]_vars PROVE TypeInv'  OBVIOUS
<1>0. TypeOK /\ CounterInv  BY DEF TypeInv
<1>1. ASSUME NEW s \in Sides, PeerWrites(s) \/ PeerEnds(s) PROVE TypeInv'
  <2>1. UNCHANGED <<given, ours, copyVars, closer, canceled, context, returned>>
        BY <1>1 DEF PeerWrites, PeerEnds
  <2>2. sent' \in [Sides -> 0..MaxBytes]
    <3>1. sent[s] \in 0..MaxBytes /\ sent[Other(s)] \in 0..MaxBytes
          BY <1>0, OtherSide DEF TypeOK
    <3>2. CASE PeerWrites(s)
      <4>1. sent[s] + 1 \in 0..MaxBytes  BY <3>1, <3>2, RelayAssumption DEF PeerWrites
      <4> QED  BY <1>0, <3>2, <4>1 DEF PeerWrites, TypeOK
    <3>3. CASE PeerEnds(s)  BY <1>0, <3>3 DEF PeerEnds, TypeOK
    <3> QED  BY <1>1, <3>2, <3>3
  <2>3. peer' \in [Sides -> {"open", "fin", "reset"}]
        BY <1>0, <1>1 DEF PeerWrites, PeerEnds, TypeOK
  <2> QED  BY <1>0, <2>1, <2>2, <2>3 DEF TypeInv, TypeOK, given, copyVars, CounterInv, Running
<1>2. ASSUME NEW s \in Sides, ReadEOF(s) \/ ReadFails(s) \/ WriteFails(s) PROVE TypeInv'
  <2>1. copier[s] # "done" /\ \E how \in {"eof", "reset", "closed"} : CopyEnds(s, how)
        BY <1>2 DEF ReadEOF, ReadFails, WriteFails
  <2> QED  BY <2>1, CopyEndsType
<1>3. ASSUME NEW s \in Sides, ReadData(s) PROVE TypeInv'
  <2>1. CounterInv' /\ copier' \in [Sides -> {"reading", "writing", "reported", "half_closed", "done"}]
        BY <1>3, RunningMoves DEF ReadData
  <2> QED  BY <1>3, <2>1 DEF ReadData, TypeInv, TypeOK, given, peerVars
<1>4. ASSUME NEW s \in Sides, WriteData(s) PROVE TypeInv'
  <2>1. CounterInv' /\ copier' \in [Sides -> {"reading", "writing", "reported", "half_closed", "done"}]
        BY <1>4, RunningMoves DEF WriteData
  <2>2. copied' \in [Sides -> 0..MaxBytes]
    <3>1. PICK upto \in (copied[s] + 1)..sent[s] : copied' = [copied EXCEPT ![s] = upto]
          BY <1>4 DEF WriteData
    <3>2. copied[s] \in 0..MaxBytes /\ sent[s] \in 0..MaxBytes  BY DEF TypeInv, TypeOK
    <3>3. upto \in 0..MaxBytes  BY <3>1, <3>2, RelayAssumption
    <3> QED  BY <3>1, <3>3 DEF TypeInv, TypeOK
  <2> QED  BY <1>4, <2>1, <2>2 DEF WriteData, TypeInv, TypeOK, given, peerVars
<1>5. ASSUME NEW s \in Sides, HalfClose(s) PROVE TypeInv'
  <2>1. CounterInv' /\ copier' \in [Sides -> {"reading", "writing", "reported", "half_closed", "done"}]
        BY <1>5, RunningMoves DEF HalfClose
  <2>2. finSent' \in [Sides -> BOOLEAN]
        BY <1>0, <1>5, OtherSide DEF HalfClose, TypeOK
  <2> QED  BY <1>5, <2>1, <2>2 DEF HalfClose, TypeInv, TypeOK, given, peerVars
<1>6. ASSUME NEW s \in Sides, Count(s) PROVE TypeInv'
  <2>1. Running(s) = 1 /\ Running(s)' = 0 /\ Running(Other(s))' = Running(Other(s))
        BY <1>0, <1>6, OtherSide DEF Count, Goto, Running, TypeOK
  <2>2. /\ Running("left") + Running("right") = Running(s) + Running(Other(s))
        /\ (Running("left") + Running("right"))' = Running(s)' + Running(Other(s))'
        BY DEF Sides, Other, Running
  <2>3. remaining' = remaining - 1 /\ finished' = (remaining' = 0)  BY <1>6 DEF Count
  <2>4. CounterInv'
    <3>1. Running(s) \in 0..1 /\ Running(Other(s)) \in 0..1  BY DEF Running
    <3>2. remaining = Running(s) + Running(Other(s))  BY <1>0, <2>2 DEF CounterInv
    <3>3. remaining' = (Running("left") + Running("right"))'  BY <2>1, <2>2, <2>3, <3>1, <3>2
    <3> QED  BY <2>3, <3>3 DEF CounterInv
  <2>5. remaining' \in 0..2 /\ finished' \in BOOLEAN
    <3>1. Running("left")' \in 0..1 /\ Running("right")' \in 0..1  BY DEF Running
    <3>2. remaining' = Running("left")' + Running("right")'  BY <2>4 DEF CounterInv
    <3>3. remaining' \in 0..2  BY <3>1, <3>2
    <3>4. finished' \in BOOLEAN  BY <2>3
    <3> QED  BY <3>3, <3>4
  <2> QED  BY <1>0, <1>6, <2>4, <2>5 DEF Count, Goto, TypeInv, TypeOK, given, peerVars
<1>7. ASSUME Closer \/ Return \/ ContextEnds \/ ServerCloses PROVE TypeInv'
  <2>1. UNCHANGED <<given, peerVars, copyVars>>
        BY <1>7 DEF Closer, CloserWakes, CloserDecides, CloseLeft, CloseRight, CloserGoto,
           Return, ContextEnds, ServerCloses
  <2>2. /\ ours' \in [Sides -> {"open", "closed"}] /\ canceled' \in BOOLEAN
        /\ closer' \in {"waiting", "deciding", "close_left", "close_right", "done"}
        /\ context' \in {"live", "ended"} /\ returned' \in BOOLEAN
    <3>1. CASE CloserWakes \/ Return \/ ContextEnds
          BY <1>0, <3>1 DEF CloserWakes, CloserGoto, Return, ContextEnds, TypeOK
    <3>2. CASE CloserDecides  BY <1>0, <3>2 DEF CloserDecides, CloserGoto, TypeOK
    <3>3. CASE CloseLeft \/ CloseRight
          BY <1>0, <3>3 DEF CloseLeft, CloseRight, CloserGoto, TypeOK
    <3>4. CASE ServerCloses  BY <1>0, <3>4 DEF ServerCloses, TypeOK
    <3> QED  BY <1>7, <3>1, <3>2, <3>3, <3>4 DEF Closer
  <2> QED  BY <1>0, <2>1, <2>2 DEF TypeInv, TypeOK, CounterInv, Running, given, peerVars, copyVars
<1>8. CASE UNCHANGED vars
      BY <1>0, <1>8 DEF vars, TypeInv, TypeOK, CounterInv, Running, given, peerVars, copyVars
<1> QED  BY <1>1, <1>2, <1>3, <1>4, <1>5, <1>6, <1>7, <1>8 DEF Next, Copy, Finished

\* Every variable of a relay keeps its type, the atomic counter of its
\* copying goroutines between 2 and 0.
THEOREM RelayTypes == Spec => []TypeOK
<1>1. TypeInv => TypeOK  BY DEF TypeInv
<1> QED  BY <1>1, TypeInit, TypeNext, PTL DEF Spec

-----------------------------------------------------------------------------
(* The result is true.  Inductively: the remote side is closed from the    *)
(* start or by the closer, which announces a cancellation before it closes *)
(* anything; the client's side only when the context has ended, be it by   *)
(* that closer or by the server's; the decision is taken once, under an    *)
(* ended context; and a direction that read the end of its stream never    *)
(* has anything to read again.                                             *)

CloserInv ==
    /\ canceled /\ closer \in {"close_right", "done"} => ours["left"] = "closed"
    /\ ours["left"] = "closed" => context = "ended"
    /\ ours["right"] = "closed" <=> handedClosed \/ (canceled /\ closer = "done")
    /\ canceled => closer \in {"close_left", "close_right", "done"} /\ context = "ended"
    /\ closer \in {"close_left", "close_right"} => canceled
    /\ closer = "deciding" => context = "ended"
    /\ returned => closer = "done"

CopierInv ==
    \A s \in Sides :
        /\ end[s] = "closed" => context = "ended" \/ handedClosed
        /\ end[s] # "none" => copier[s] \in {"reported", "half_closed", "done"}
        /\ end[s] = "eof" => peer[s] # "open" /\ copied[s] = sent[s]

RelayInv == CloserInv /\ CopierInv

\* A copy that has its result: our end of a connection is closed only after a
\* cancellation, and EOF is read only after everything before it.
LEMMA CopyEndsTrue ==
    ASSUME TypeOK, RelayInv, NEW s \in Sides, NEW how \in {"eof", "reset", "closed"}, CopyEnds(s, how),
           how = "closed" => context = "ended" \/ handedClosed, how = "eof" => peer[s] # "open" /\ copied[s] = sent[s]
    PROVE  RelayInv'
<1>1. CloserInv'  BY DEF CopyEnds, RelayInv, CloserInv, given
<1>2. CopierInv'  BY DEF CopyEnds, Goto, RelayInv, CopierInv, TypeOK, given, peerVars
<1> QED  BY <1>1, <1>2 DEF RelayInv

LEMMA ClosedHasCause ==
    ASSUME TypeOK, RelayInv, NEW s \in Sides, ours[s] = "closed"
    PROVE  context = "ended" \/ handedClosed
BY DEF RelayInv, CloserInv, Sides

LEMMA RelayNext == TypeOK /\ RelayInv /\ [Next]_vars => RelayInv'
<1> SUFFICES ASSUME TypeOK, RelayInv, [Next]_vars PROVE RelayInv'  OBVIOUS
<1>0. CloserInv /\ CopierInv  BY DEF RelayInv
<1>1. ASSUME NEW s \in Sides, PeerWrites(s) \/ PeerEnds(s) PROVE RelayInv'
  <2>1. CloserInv'  BY <1>0, <1>1 DEF PeerWrites, PeerEnds, CloserInv, given, copyVars
  <2>2. CopierInv'
        BY <1>0, <1>1 DEF PeerWrites, PeerEnds, CopierInv, given, copyVars, TypeOK
  <2> QED  BY <2>1, <2>2 DEF RelayInv
<1>2. ASSUME NEW s \in Sides, ReadEOF(s) PROVE RelayInv'
      BY <1>2, CopyEndsTrue DEF ReadEOF
<1>3. ASSUME NEW s \in Sides, ReadFails(s) \/ WriteFails(s) PROVE RelayInv'
  <2>1. CopyEnds(s, "reset") \/ (CopyEnds(s, "closed") /\ (context = "ended" \/ handedClosed))
        BY <1>3, OtherSide, ClosedHasCause DEF ReadFails, WriteFails
  <2> QED  BY <2>1, CopyEndsTrue
<1>4. ASSUME NEW s \in Sides, ReadData(s) \/ HalfClose(s) \/ Count(s) PROVE RelayInv'
  <2>1. CloserInv'  BY <1>0, <1>4 DEF ReadData, HalfClose, Count, CloserInv, given
  <2>2. CopierInv'
        BY <1>0, <1>4 DEF ReadData, HalfClose, Count, Goto, CopierInv, given, peerVars, TypeOK
  <2> QED  BY <2>1, <2>2 DEF RelayInv
<1>5. ASSUME NEW s \in Sides, WriteData(s) PROVE RelayInv'
  <2>1. CloserInv'  BY <1>0, <1>5 DEF WriteData, CloserInv, given
  <2>2. end[s] = "none" /\ UNCHANGED <<peer, sent, end, context, handedClosed>>
        BY <1>0, <1>5 DEF WriteData, CopierInv, TypeOK, given, peerVars
  <2>3. \A o \in Sides \ {s} : copied'[o] = copied[o] /\ copier'[o] = copier[o]
        BY <1>5 DEF WriteData, Goto, TypeOK
  <2>4. CopierInv'  BY <1>0, <2>2, <2>3 DEF CopierInv
  <2> QED  BY <2>1, <2>4 DEF RelayInv
<1>6. ASSUME Closer PROVE RelayInv'
  <2>1. CloserInv'
    <3>1. CASE CloserWakes
          BY <1>0, <3>1 DEF CloserWakes, CloserGoto, CloserInv, TypeOK, given
    <3>2. CASE CloserDecides
          BY <1>0, <3>2 DEF CloserDecides, CloserGoto, CloserInv, TypeOK, given
    <3>3. CASE CloseLeft
          BY <1>0, <3>3 DEF CloseLeft, CloserGoto, CloserInv, TypeOK, given, Sides
    <3>4. CASE CloseRight
          BY <1>0, <3>4 DEF CloseRight, CloserGoto, CloserInv, TypeOK, given, Sides
    <3> QED  BY <1>6, <3>1, <3>2, <3>3, <3>4 DEF Closer
  <2>2. UNCHANGED <<end, copier, peer, copied, sent, context, handedClosed>>
        BY <1>6 DEF Closer, CloserWakes, CloserDecides, CloseLeft, CloseRight, CloserGoto,
           given, peerVars, copyVars
  <2>3. CopierInv'  BY <1>0, <2>2 DEF CopierInv
  <2> QED  BY <2>1, <2>3 DEF RelayInv
<1>7. ASSUME Return \/ ContextEnds PROVE RelayInv'
      BY <1>0, <1>7 DEF Return, ContextEnds, RelayInv, CloserInv, CopierInv, given, peerVars, copyVars
<1>9. ASSUME ServerCloses PROVE RelayInv'
  <2>1. CloserInv'  BY <1>0, <1>9 DEF ServerCloses, CloserInv, TypeOK, given, Sides
  <2>2. CopierInv'  BY <1>0, <1>9 DEF ServerCloses, CopierInv, given, peerVars, copyVars
  <2> QED  BY <2>1, <2>2 DEF RelayInv
<1>8. CASE UNCHANGED vars
      BY <1>0, <1>8 DEF vars, RelayInv, CloserInv, CopierInv, given, peerVars, copyVars
<1> QED  BY <1>1, <1>2, <1>3, <1>4, <1>5, <1>6, <1>7, <1>8, <1>9 DEF Next, Copy, Finished

LEMMA RelayInit == Init => RelayInv
BY DEF Init, RelayInv, CloserInv, CopierInv, Sides

LEMMA RelayResult == TypeOK /\ RelayInv => ResultIsTrue
BY DEF TypeOK, RelayInv, CloserInv, CopierInv, ResultIsTrue, CutMeansStopped,
       RemoteCutMeansCanceled, CanceledIsClosed, NothingLost, Sides

\* netrelay.Bidirectional reports what happened, in whatever order the
\* copying goroutines, its closer, the server's closer and the context end: a
\* direction cut by our own closing implies that the context ended (unless the
\* remote was handed over closed), the remote is closed under the relay only by
\* a cancellation, "canceled" implies that the context ended and nothing is
\* left open, and EOF implies that nothing was lost.
THEOREM RelayIsTrue == Spec => []ResultIsTrue
<1>1. Spec => []RelayInv  BY RelayInit, RelayNext, RelayTypes, PTL DEF Spec
<1> QED  BY <1>1, RelayTypes, RelayResult, PTL

-----------------------------------------------------------------------------
(* ConnectPreferredWithFallback: the inductive invariant.                  *)

Failures == {"failed", "timeout", "canceled"}

\* Where the running Dial is, and what its connection and result are then.
AttemptInv ==
    /\ Fallback!Trying <=> dial # "none"
    /\ dial = "base" => conn[stage] = "none" /\ result[stage] = "none" /\ watcher = "off"
    /\ dial = "handshake" => result[stage] = "none"
    /\ dial = "closing" => /\ result[stage] # "none"
                           /\ conn[stage] = "open" => result[stage] = "ready"
                           /\ result[stage] = "ready" => conn[stage] = "open" \/ firstCtx # "live"

\* What is left of the path that is not being tried.
PathsInv ==
    /\ stage \in {Fallback!First, "won_first"} =>
          conn[Fallback!Second] = "none" /\ result[Fallback!Second] = "none"
    /\ stage \notin {Fallback!First, "won_first"} => conn[Fallback!First] # "open"
    /\ stage \in {Fallback!Second, "won_second"} => result[Fallback!First] \in Failures
    /\ stage = "won_second" => result[Fallback!Second] = "ready"
    /\ stage = "failed" => conn[Fallback!Second] # "open"

\* A shutdown ends both contexts, and so the second attempt with the first;
\* the first context has ended by half of the time.
ContextInv ==
    /\ firstCtx = "canceled" => pathCtx = "canceled"
    /\ pathCtx # "live" => firstCtx # "live"
    /\ result[Fallback!First] = "canceled" =>
          /\ firstCtx = "canceled" /\ result[Fallback!Second] # "ready"
          /\ stage = Fallback!Second => dial # "handshake"
    /\ firstCtx = "live" => elapsed < Fallback!FirstBudget
    /\ prompt /\ stage = Fallback!First => elapsed =< Fallback!FirstBudget

FallInv == Fallback!TypeOK /\ AttemptInv /\ PathsInv /\ ContextInv

LEMMA PathsAre ==
    /\ Fallback!First = "preferred" /\ Fallback!Second = "opposite"
    /\ Fallback!Candidates = {"preferred", "opposite"}
BY DEF Fallback!First, Fallback!Second, Fallback!Candidates

LEMMA BudgetType ==
    ASSUME mayFall \in BOOLEAN
    PROVE  /\ Fallback!FirstBudget \in Nat \ {0} /\ Fallback!FirstBudget =< Timeout
           /\ mayFall => 2 * Fallback!FirstBudget =< Timeout
<1>1. Timeout \div 2 \in Nat \ {0} /\ 2 * (Timeout \div 2) =< Timeout /\ Timeout \div 2 =< Timeout
      BY TimeoutAssumption
<1> QED  BY <1>1, TimeoutAssumption DEF Fallback!FirstBudget

LEMMA FallInit == Fallback!Init => FallInv
<1> SUFFICES ASSUME Fallback!Init PROVE FallInv  OBVIOUS
<1> USE PathsAre
<1>1. Fallback!TypeOK
      BY TimeoutAssumption DEF Fallback!Init, Fallback!TypeOK, Fallback!Contexts
<1>2. AttemptInv  BY DEF Fallback!Init, AttemptInv, Fallback!Trying
<1>3. PathsInv  BY DEF Fallback!Init, PathsInv
<1>4. mayFall \in BOOLEAN  BY DEF Fallback!Init
<1>5. ContextInv  BY <1>4, BudgetType DEF Fallback!Init, ContextInv
<1> QED  BY <1>1, <1>2, <1>3, <1>5 DEF FallInv

\* The class of a failure is that of the context, if it has ended.
LEMMA ClassOfFailure ==
    ASSUME Fallback!TypeOK, NEW f \in Fallback!FailureClass
    PROVE  /\ f \in Failures
           /\ f = "canceled" => Fallback!Context = "canceled"
<1>1. Fallback!Context \in {"live", "deadline", "canceled"}
      BY DEF Fallback!Context, Fallback!TypeOK, Fallback!Contexts
<1>2. CASE Fallback!Context = "live"  BY <1>2 DEF Fallback!FailureClass, Failures
<1>3. CASE Fallback!Context = "deadline"  BY <1>3 DEF Fallback!FailureClass, Failures
<1>4. CASE Fallback!Context = "canceled"  BY <1>4 DEF Fallback!FailureClass, Failures
<1> QED  BY <1>1, <1>2, <1>3, <1>4

\* The steps of the running Dial.
LEMMA FallDialStep ==
    ASSUME FallInv,
           \/ Fallback!BaseFails \/ Fallback!BaseConnects \/ Fallback!WatcherFires
           \/ Fallback!HandshakeFails \/ Fallback!HandshakeReady
    PROVE  FallInv'
<1> USE PathsAre DEF FallInv
<1>1. UNCHANGED <<prompt, mayFall, stage, elapsed, firstCtx, pathCtx>>
      BY DEF Fallback!BaseFails, Fallback!BaseConnects, Fallback!WatcherFires,
         Fallback!HandshakeFails, Fallback!HandshakeReady, Fallback!contexts
<1>2. stage \in {"preferred", "opposite"} /\ Fallback!Trying /\ Fallback!Trying'
      BY <1>1 DEF Fallback!BaseFails, Fallback!BaseConnects, Fallback!WatcherFires,
         Fallback!HandshakeFails, Fallback!HandshakeReady, Fallback!Trying
<1>3. Fallback!FirstBudget' = Fallback!FirstBudget  BY <1>1 DEF Fallback!FirstBudget
<1>4. CASE Fallback!BaseFails
  <2>1. PICK f \in Fallback!FailureClass : result' = [result EXCEPT ![stage] = f]
        BY <1>4 DEF Fallback!BaseFails
  <2>2. dial = "base" /\ dial' = "closing" /\ UNCHANGED <<watcher, conn>>
        BY <1>4 DEF Fallback!BaseFails
  <2>3. f \in Failures /\ (f = "canceled" => Fallback!Context = "canceled")
        BY <2>1, ClassOfFailure
  <2>4. Fallback!TypeOK'  BY <1>1, <2>1, <2>2, <2>3 DEF Fallback!TypeOK, Failures
  <2>5. AttemptInv'
        BY <1>1, <1>2, <2>1, <2>2, <2>3 DEF AttemptInv, Fallback!TypeOK, Failures
  <2>6. PathsInv'  BY <1>1, <1>2, <2>1, <2>2 DEF PathsInv, Fallback!TypeOK
  <2>7. ContextInv'
        BY <1>1, <1>2, <1>3, <2>1, <2>2, <2>3
           DEF ContextInv, PathsInv, Fallback!TypeOK, Fallback!Context, Failures
  <2> QED  BY <2>4, <2>5, <2>6, <2>7
<1>5. CASE Fallback!BaseConnects
  <2>1. /\ dial = "base" /\ Fallback!Context = "live" /\ dial' = "handshake" /\ watcher' = "armed"
        /\ conn' = [conn EXCEPT ![stage] = "open"] /\ result' = result
        BY <1>5 DEF Fallback!BaseConnects
  <2>2. Fallback!TypeOK'  BY <1>1, <2>1 DEF Fallback!TypeOK
  <2>3. AttemptInv'  BY <1>1, <1>2, <2>1 DEF AttemptInv
  <2>4. PathsInv'  BY <1>1, <1>2, <2>1 DEF PathsInv, Fallback!TypeOK
  <2>5. ContextInv'
        BY <1>1, <1>2, <1>3, <2>1 DEF ContextInv, Fallback!Context
  <2> QED  BY <2>2, <2>3, <2>4, <2>5
<1>6. CASE Fallback!WatcherFires
  <2>1. /\ Fallback!Context # "live" /\ watcher = "armed" /\ watcher' = "fired"
        /\ conn' = [conn EXCEPT ![stage] = "closed"] /\ UNCHANGED <<dial, result>>
        BY <1>6 DEF Fallback!WatcherFires
  <2>2. firstCtx # "live"  BY <2>1 DEF Fallback!Context, ContextInv
  <2>3. dial # "base"  BY <2>1 DEF AttemptInv
  <2>4. Fallback!TypeOK'  BY <1>1, <2>1 DEF Fallback!TypeOK
  <2>5. conn'[stage] = "closed"  BY <1>2, <2>1 DEF Fallback!TypeOK
  <2>6. AttemptInv'  BY <1>1, <1>2, <2>1, <2>2, <2>3, <2>5 DEF AttemptInv
  <2>7. PathsInv'  BY <1>1, <1>2, <2>1 DEF PathsInv, Fallback!TypeOK
  <2>8. ContextInv'  BY <1>1, <1>3, <2>1 DEF ContextInv
  <2> QED  BY <2>4, <2>6, <2>7, <2>8
<1>7. CASE Fallback!HandshakeFails
  <2>1. PICK f \in Fallback!FailureClass : result' = [result EXCEPT ![stage] = f]
        BY <1>7 DEF Fallback!HandshakeFails
  <2>2. /\ dial = "handshake" /\ dial' = "closing" /\ watcher' = watcher
        /\ conn' = [conn EXCEPT ![stage] = "closed"]
        BY <1>7 DEF Fallback!HandshakeFails
  <2>3. f \in Failures /\ (f = "canceled" => Fallback!Context = "canceled")
        BY <2>1, ClassOfFailure
  <2>4. Fallback!TypeOK'  BY <1>1, <2>1, <2>2, <2>3 DEF Fallback!TypeOK, Failures
  <2>5. AttemptInv'
        BY <1>1, <1>2, <2>1, <2>2, <2>3 DEF AttemptInv, Fallback!TypeOK, Failures
  <2>6. PathsInv'  BY <1>1, <1>2, <2>1, <2>2 DEF PathsInv, Fallback!TypeOK
  <2>7. ContextInv'
        BY <1>1, <1>2, <1>3, <2>1, <2>2, <2>3
           DEF ContextInv, PathsInv, Fallback!TypeOK, Fallback!Context, Failures
  <2> QED  BY <2>4, <2>5, <2>6, <2>7
<1>8. CASE Fallback!HandshakeReady
  <2>1. /\ dial = "handshake" /\ conn[stage] = "open" /\ dial' = "closing"
        /\ result' = [result EXCEPT ![stage] = "ready"] /\ UNCHANGED <<watcher, conn>>
        BY <1>8 DEF Fallback!HandshakeReady
  <2>2. Fallback!TypeOK'  BY <1>1, <2>1 DEF Fallback!TypeOK
  <2>3. AttemptInv'  BY <1>1, <1>2, <2>1 DEF AttemptInv, Fallback!TypeOK
  <2>4. PathsInv'  BY <1>1, <1>2, <2>1 DEF PathsInv, Fallback!TypeOK
  <2>5. ContextInv'
        BY <1>1, <1>2, <1>3, <2>1 DEF ContextInv, Fallback!TypeOK
  <2> QED  BY <2>2, <2>3, <2>4, <2>5
<1> QED  BY <1>4, <1>5, <1>6, <1>7, <1>8

\* The call goes on to the opposite path, or returns.
LEMMA FallReturnStep ==
    ASSUME FallInv, Fallback!Succeeds \/ Fallback!FallsBack \/ Fallback!GivesUp
    PROVE  FallInv'
<1> USE PathsAre DEF FallInv
<1>1. /\ dial = "closing" /\ stage \in {"preferred", "opposite"}
      /\ UNCHANGED <<prompt, mayFall, conn, result, elapsed, firstCtx, pathCtx>>
      BY DEF Fallback!Succeeds, Fallback!FallsBack, Fallback!GivesUp, Fallback!Returned,
         Fallback!Trying, Fallback!contexts
<1>2. Fallback!FirstBudget' = Fallback!FirstBudget  BY <1>1 DEF Fallback!FirstBudget
<1>3. CASE Fallback!Succeeds
  <2>1. /\ result[stage] = "ready" /\ dial' = "none" /\ watcher' = "off"
        /\ stage' = IF stage = "preferred" THEN "won_first" ELSE "won_second"
        BY <1>3 DEF Fallback!Succeeds
  <2>2. Fallback!TypeOK'  BY <1>1, <2>1 DEF Fallback!TypeOK
  <2>3. AttemptInv'  BY <2>1 DEF AttemptInv, Fallback!Trying
  <2>4. PathsInv'  BY <1>1, <2>1 DEF PathsInv, AttemptInv
  <2>5. ContextInv'  BY <1>1, <1>2, <2>1 DEF ContextInv
  <2> QED  BY <2>2, <2>3, <2>4, <2>5
<1>4. CASE Fallback!FallsBack
  <2>1. /\ stage = "preferred" /\ result["preferred"] # "ready" /\ stage' = "opposite"
        /\ dial' = "base" /\ watcher' = "off"
        BY <1>4 DEF Fallback!FallsBack
  <2>2. Fallback!TypeOK'  BY <1>1, <2>1 DEF Fallback!TypeOK
  <2>3. AttemptInv'  BY <1>1, <2>1 DEF AttemptInv, PathsInv, Fallback!Trying
  <2>4. result["preferred"] \in Failures
        BY <1>1, <2>1 DEF AttemptInv, Fallback!TypeOK, Failures
  <2>5. PathsInv'  BY <1>1, <2>1, <2>4 DEF PathsInv, AttemptInv
  <2>6. ContextInv'  BY <1>1, <1>2, <2>1 DEF ContextInv
  <2> QED  BY <2>2, <2>3, <2>5, <2>6
<1>5. CASE Fallback!GivesUp
  <2>1. /\ result[stage] # "ready" /\ stage' = "failed" /\ dial' = "none" /\ watcher' = "off"
        BY <1>5 DEF Fallback!GivesUp
  <2>2. Fallback!TypeOK'  BY <1>1, <2>1 DEF Fallback!TypeOK
  <2>3. AttemptInv'  BY <2>1 DEF AttemptInv, Fallback!Trying
  <2>4. PathsInv'  BY <1>1, <2>1 DEF PathsInv, AttemptInv
  <2>5. ContextInv'  BY <1>1, <1>2, <2>1 DEF ContextInv
  <2> QED  BY <2>2, <2>3, <2>4, <2>5
<1> QED  BY <1>3, <1>4, <1>5

\* Time passes, or the server shuts down.
LEMMA FallTimeStep ==
    ASSUME FallInv, Fallback!Tick \/ Fallback!ParentCancels
    PROVE  FallInv'
<1> USE PathsAre DEF FallInv
<1>1. UNCHANGED <<prompt, mayFall, stage, dial, watcher, conn, result>>
      BY DEF Fallback!Tick, Fallback!ParentCancels
<1>2. Fallback!FirstBudget' = Fallback!FirstBudget  BY <1>1 DEF Fallback!FirstBudget
<1>3. /\ Fallback!FirstBudget \in Nat \ {0} /\ Fallback!FirstBudget =< Timeout
      BY BudgetType DEF Fallback!TypeOK
<1>4. elapsed \in 0..Timeout /\ firstCtx \in {"live", "deadline", "canceled"}
      /\ pathCtx \in {"live", "deadline", "canceled"}
      BY DEF Fallback!TypeOK, Fallback!Contexts
<1>5. /\ elapsed' \in 0..Timeout
      /\ firstCtx' \in {"live", "deadline", "canceled"} /\ pathCtx' \in {"live", "deadline", "canceled"}
      /\ firstCtx # "live" => firstCtx' = firstCtx
      /\ pathCtx # "live" => pathCtx' = pathCtx
  <2>1. CASE Fallback!Tick
        BY <1>4, <2>1, TimeoutAssumption DEF Fallback!Tick, Fallback!Ended
  <2>2. CASE Fallback!ParentCancels
        BY <1>4, <2>2 DEF Fallback!ParentCancels, Fallback!Ended
  <2> QED  BY <2>1, <2>2
<1>6. Fallback!TypeOK'  BY <1>1, <1>5 DEF Fallback!TypeOK, Fallback!Contexts
<1>7. AttemptInv'  BY <1>1, <1>5 DEF AttemptInv, Fallback!Trying
<1>8. PathsInv'  BY <1>1 DEF PathsInv
<1>9. ContextInv'
  <2>1. CASE Fallback!Tick
    <3>1. /\ elapsed' = elapsed + 1
          /\ pathCtx' = IF elapsed' = Timeout /\ pathCtx = "live" THEN "deadline" ELSE pathCtx
          /\ firstCtx' = IF elapsed' >= Fallback!FirstBudget /\ firstCtx = "live"
                         THEN "deadline" ELSE firstCtx
          BY <2>1 DEF Fallback!Tick, Fallback!Ended
    <3>2. /\ firstCtx' = "canceled" => pathCtx' = "canceled"
          /\ pathCtx' # "live" => firstCtx' # "live"
          /\ firstCtx' = "live" => elapsed' < Fallback!FirstBudget
          BY <1>3, <1>4, <1>5, <3>1, TimeoutAssumption DEF ContextInv
    <3>3. prompt /\ stage = "preferred" => elapsed' =< Fallback!FirstBudget
      <4> SUFFICES ASSUME prompt, stage = "preferred" PROVE elapsed' =< Fallback!FirstBudget
          OBVIOUS
      <4>1. firstCtx = "live"
            BY <2>1 DEF Fallback!Tick, Fallback!Due, Fallback!Trying, Fallback!Context
      <4>2. elapsed < Fallback!FirstBudget  BY <4>1 DEF ContextInv
      <4> QED  BY <1>3, <1>4, <3>1, <4>2
    <3> QED  BY <1>1, <1>2, <1>5, <3>2, <3>3 DEF ContextInv
  <2>2. CASE Fallback!ParentCancels
        BY <1>1, <1>2, <2>2 DEF Fallback!ParentCancels, Fallback!Ended, ContextInv
  <2> QED  BY <2>1, <2>2
<1> QED  BY <1>6, <1>7, <1>8, <1>9

LEMMA FallUnchanged == FallInv /\ UNCHANGED fallVars => FallInv'
BY DEF fallVars, FallInv, Fallback!TypeOK, AttemptInv, PathsInv, ContextInv, Fallback!Trying,
       Fallback!FirstBudget

LEMMA FallNext == FallInv /\ Fallback!Next => FallInv'
<1> SUFFICES ASSUME FallInv, Fallback!Next PROVE FallInv'  OBVIOUS
<1>1. CASE Fallback!Finished
  <2>1. UNCHANGED fallVars
        BY <1>1 DEF Fallback!Finished, Fallback!vars, Fallback!contexts, fallVars
  <2> QED  BY <2>1, FallUnchanged
<1> QED  BY <1>1, FallDialStep, FallReturnStep, FallTimeStep DEF Fallback!Next

LEMMA FallSafe == FallInv => Fallback!OneConnectionAtATime /\ Fallback!OverwriteIsEarned
<1> SUFFICES ASSUME FallInv PROVE Fallback!OneConnectionAtATime /\ Fallback!OverwriteIsEarned
    OBVIOUS
<1> USE PathsAre DEF FallInv
<1>1. Fallback!OneConnectionAtATime  BY DEF Fallback!OneConnectionAtATime, PathsInv
<1>2. Fallback!OverwriteIsEarned
      BY DEF Fallback!OverwriteIsEarned, PathsInv, ContextInv, Failures
<1> QED  BY <1>1, <1>2

-----------------------------------------------------------------------------
(* The race, under the names it has here.                                  *)

RP == INSTANCE CandidateRace_proofs WITH
    context <- raceCtx, dial <- rdial, conn <- rconn, watcher <- rwatcher, result <- rresult

\* CandidateRace_proofs speaks of the same race: its definitions are those of Race.
LEMMA RaceNames ==
    /\ Race!First = RP!First /\ Race!Second = RP!Second /\ Race!Candidates = RP!Candidates
    /\ Race!mainVars = RP!mainVars /\ Race!dialVars = RP!dialVars /\ Race!vars = RP!vars
    /\ Race!FailureClass = RP!FailureClass
BY DEF Race!First, RP!First, Race!Second, RP!Second, Race!Candidates, RP!Candidates,
       Race!mainVars, RP!mainVars, Race!dialVars, RP!dialVars, Race!vars, RP!vars,
       Race!FailureClass, RP!FailureClass

LEMMA RaceDial ==
    ASSUME NEW c
    PROVE  Race!Candidate(c) => RP!Candidate(c)
<1>1. Race!BaseFails(c) => RP!BaseFails(c)
      BY RaceNames DEF Race!BaseFails, RP!BaseFails, Race!Send, RP!Send, Race!mainVars, RP!mainVars
<1>2. Race!BaseConnects(c) => RP!BaseConnects(c)
      BY DEF Race!BaseConnects, RP!BaseConnects, Race!mainVars, RP!mainVars
<1>3. Race!HandshakeFails(c) => RP!HandshakeFails(c)
      BY RaceNames DEF Race!HandshakeFails, RP!HandshakeFails, Race!mainVars, RP!mainVars
<1>4. Race!HandshakeReady(c) => RP!HandshakeReady(c)
      BY DEF Race!HandshakeReady, RP!HandshakeReady, Race!mainVars, RP!mainVars
<1>5. Race!WatcherFires(c) => RP!WatcherFires(c)
      BY DEF Race!WatcherFires, RP!WatcherFires, Race!mainVars, RP!mainVars
<1>6. Race!Return(c) => RP!Return(c)
      BY DEF Race!Return, RP!Return, Race!Send, RP!Send, Race!mainVars, RP!mainVars
<1> QED  BY <1>1, <1>2, <1>3, <1>4, <1>5, <1>6 DEF Race!Candidate, RP!Candidate

LEMMA RaceCounts == \A S : Race!Cardinality(S) = RP!Cardinality(S)
BY DEF Race!Cardinality, RP!Cardinality

LEMMA RaceSelect == Race!Select => RP!Select
<1> USE DEF Race!dialVars, RP!dialVars, Race!First, RP!First, Race!Second, RP!Second,
    Race!Candidates, RP!Candidates, Race!Launch, RP!Launch, Race!Cancel, RP!Cancel,
    Race!ReturnRace, RP!ReturnRace
<1>1. Race!OnDone => RP!OnDone  BY RaceCounts DEF Race!OnDone, RP!OnDone
<1>2. Race!OnTimer => RP!OnTimer  BY DEF Race!OnTimer, RP!OnTimer
<1>3. Race!OnReady => RP!OnReady  BY RaceCounts DEF Race!OnReady, RP!OnReady
<1>4. Race!OnFailure => RP!OnFailure  BY RaceCounts DEF Race!OnFailure, RP!OnFailure
<1> QED  BY <1>1, <1>2, <1>3, <1>4 DEF Race!Select, RP!Select

LEMMA RaceElse ==
    /\ Race!Drain => RP!Drain
    /\ Race!HeadStartEnds \/ Race!DeadlinePasses \/ Race!ParentCancels
          => RP!HeadStartEnds \/ RP!DeadlinePasses \/ RP!ParentCancels
    /\ Race!Finished => RP!Finished
<1>1. Race!Drain => RP!Drain  BY DEF Race!Drain, RP!Drain
<1>2. Race!HeadStartEnds => RP!HeadStartEnds
      BY DEF Race!HeadStartEnds, RP!HeadStartEnds, Race!dialVars, RP!dialVars
<1>3. Race!DeadlinePasses => RP!DeadlinePasses
      BY RaceNames DEF Race!DeadlinePasses, RP!DeadlinePasses, Race!dialVars, RP!dialVars, Race!mainVars, RP!mainVars
<1>4. Race!ParentCancels => RP!ParentCancels
      BY RaceNames DEF Race!ParentCancels, RP!ParentCancels, Race!dialVars, RP!dialVars, Race!mainVars, RP!mainVars
<1>5. Race!Finished => RP!Finished
      BY DEF Race!Finished, RP!Finished, Race!vars, RP!vars, Race!dialVars, RP!dialVars, Race!mainVars, RP!mainVars
<1> QED  BY <1>1, <1>2, <1>3, <1>4, <1>5

LEMMA RaceStep == Race!Next => RP!Next
BY RaceNames, RaceDial, RaceSelect, RaceElse DEF Race!Next, RP!Next

LEMMA RaceFacts ==
    /\ Race!Init => RP!RaceInv
    /\ RP!RaceInv /\ (Race!Next \/ UNCHANGED raceVars) => RP!RaceInv'
<1>1. Race!Init => RP!Init
      BY DEF Race!Init, RP!Init, Race!Candidates, RP!Candidates, Race!First, RP!First,
         Race!Second, RP!Second
<1>2. UNCHANGED raceVars => UNCHANGED RP!vars
      BY DEF raceVars, RP!vars, RP!mainVars, RP!dialVars
<1> QED  BY <1>1, <1>2, RaceStep, RP!RaceInit, RP!RaceNext

LEMMA RaceSafe ==
    RP!RaceInv => /\ Race!TypeOK /\ Race!EveryConnectionOwned
                  /\ Race!BothFailedIsFinal /\ Race!LoserNotBlamed
<1> SUFFICES ASSUME RP!RaceInv
             PROVE  /\ Race!TypeOK /\ Race!EveryConnectionOwned
                    /\ Race!BothFailedIsFinal /\ Race!LoserNotBlamed
    OBVIOUS
<1>1. RP!TypeOK /\ RP!LoserNotBlamed  BY DEF RP!RaceInv, RP!OutcomeInv
<1>2. RP!EveryConnectionOwned /\ RP!BothFailedIsFinal  BY RP!InvOwned, RP!InvFinal
<1>3. Race!TypeOK  BY <1>1, RaceNames DEF Race!TypeOK, RP!TypeOK
<1>4. Race!Unread = RP!Unread  BY RaceCounts DEF Race!Unread, RP!Unread
<1>5. Race!EveryConnectionOwned
      BY <1>2, <1>4, RaceCounts, RaceNames DEF Race!EveryConnectionOwned, RP!EveryConnectionOwned
<1>6. Race!BothFailedIsFinal
      BY <1>2, RaceNames DEF Race!BothFailedIsFinal, RP!BothFailedIsFinal
<1>7. Race!LoserNotBlamed  BY <1>1 DEF Race!LoserNotBlamed, RP!LoserNotBlamed
<1> QED  BY <1>3, <1>5, <1>6, <1>7

-----------------------------------------------------------------------------
(* The three calls together.                                               *)

CallInv ==
    /\ call \in {"race", "fallback", "relay"}
    /\ TypeInv /\ RP!RaceInv /\ FallInv

allVars == <<call, vars, raceVars, fallVars>>

LEMMA CallInit == MCInit => CallInv
BY TypeInit, RaceFacts, FallInit DEF MCInit, CallInv

LEMMA TypeUnchanged == TypeInv /\ UNCHANGED vars => TypeInv'
BY TypeNext

LEMMA CallNext == CallInv /\ [MCNext]_allVars => CallInv'
<1> SUFFICES ASSUME CallInv, [MCNext]_allVars PROVE CallInv'  OBVIOUS
<1> USE DEF CallInv
<1>1. call' = call  BY DEF MCNext, allVars
<1>2. TypeInv'
  <2>1. Next \/ UNCHANGED vars  BY DEF MCNext, allVars
  <2> QED  BY <2>1, TypeNext
<1>3. RP!RaceInv'
  <2>1. Race!Next \/ UNCHANGED raceVars  BY DEF MCNext, allVars
  <2> QED  BY <2>1, RaceFacts
<1>4. FallInv'
  <2>1. Fallback!Next \/ UNCHANGED fallVars  BY DEF MCNext, allVars
  <2> QED  BY <2>1, FallNext, FallUnchanged
<1> QED  BY <1>1, <1>2, <1>3, <1>4

\* Whichever call is made, every connection it opens has somebody who will
\* use or close it, the second path is dialled only when nothing of the first
\* is left, and a call that failed leaves nothing open.
THEOREM CallsOwnConnections == MCSpec => []ConnectionsOwned
<1>1. CallInv => ConnectionsOwned
      BY RaceSafe, FallSafe DEF CallInv, ConnectionsOwned, CallTypeOK, TypeInv, FallInv
<1> QED  BY <1>1, CallInit, CallNext, PTL DEF MCSpec, allVars

\* What the learner is told of the path that was not chosen is what that path
\* did: neither cancellation by the winner nor a shutdown is its failure.
THEOREM CallsBlameFairly == MCSpec => []BlameIsEarned
<1>1. CallInv => BlameIsEarned  BY RaceSafe, FallSafe DEF CallInv, BlameIsEarned
<1> QED  BY <1>1, CallInit, CallNext, PTL DEF MCSpec, allVars

-----------------------------------------------------------------------------
(* Both calls keep the promise that RaceOutcome states, step by step.      *)

LEMMA PromiseInit == MCInit => Promise!Init
<1> SUFFICES ASSUME MCInit PROVE Promise!Init  OBVIOUS
<1>1. Race!Held = {} /\ Race!Outcome = "pending" /\ Race!Chosen = {} /\ Race!Expired = FALSE
      BY DEF MCInit, Race!Init, Race!Held, Race!Outcome, Race!Chosen, Race!Expired
<1>2. /\ Fallback!Held = {} /\ Fallback!Outcome = "pending" /\ Fallback!Chosen = {}
      /\ Fallback!Expired = FALSE
      BY PathsAre DEF MCInit, Fallback!Init, Fallback!Held, Fallback!Outcome, Fallback!Chosen,
         Fallback!Expired, Fallback!Trying
<1> QED  BY <1>1, <1>2 DEF Promise!Init

\* What the race's own proof says, in the names that Promise has.
LEMMA PromiseRace ==
    ASSUME InRace, InRace', RP!RaceInv, Race!Next
    PROVE  Promise!Next \/ UNCHANGED Promise!vars
<1>1. RP!Promised!Next \/ UNCHANGED RP!Promised!vars  BY RaceStep, RP!PromisedNext
<1>2. /\ Race!Held = RP!Held /\ Race!Outcome = RP!Outcome
      /\ Race!Chosen = RP!Chosen /\ Race!Expired = RP!Expired
      BY RaceNames DEF Race!Held, RP!Held, Race!Outcome, RP!Outcome, Race!Chosen, RP!Chosen,
         Race!Expired, RP!Expired
<1>3. /\ Race!Held' = RP!Held' /\ Race!Outcome' = RP!Outcome'
      /\ Race!Chosen' = RP!Chosen' /\ Race!Expired' = RP!Expired'
      BY RaceNames DEF Race!Held, RP!Held, Race!Outcome, RP!Outcome, Race!Chosen, RP!Chosen,
         Race!Expired, RP!Expired
<1>4. CASE UNCHANGED RP!Promised!vars
      BY <1>2, <1>3, <1>4 DEF RP!Promised!vars, Promise!vars
<1>5. CASE RP!Promised!Fail
      BY <1>2, <1>3, <1>5 DEF RP!Promised!Fail, Promise!Fail, Promise!Next
<1>6. CASE RP!Promised!Expire
      BY <1>2, <1>3, <1>6 DEF RP!Promised!Expire, Promise!Expire, Promise!Next
<1>7. ASSUME NEW c \in RP!Candidates,
             RP!Promised!Open(c) \/ RP!Promised!Close(c) \/ RP!Promised!Choose(c)
      PROVE  Promise!Next
  <2>1. c \in Race!Candidates  BY RaceNames
  <2>2. Promise!Open(c) \/ Promise!Close(c) \/ Promise!Choose(c)
        BY <1>2, <1>3, <1>7 DEF RP!Promised!Open, Promise!Open, RP!Promised!Close, Promise!Close,
           RP!Promised!Choose, Promise!Choose
  <2> QED  BY <2>1, <2>2 DEF Promise!Next
<1> QED  BY <1>1, <1>4, <1>5, <1>6, <1>7 DEF RP!Promised!Next

\* The connections of the path being tried are the only ones that change.
LEMMA HeldByTrying ==
    ASSUME FallInv, ~InRace, ~InRace', Fallback!Trying, UNCHANGED <<stage, firstCtx>>,
           \A c \in Fallback!Candidates \ {stage} : conn'[c] = conn[c]
    PROVE  Promise!Next \/ UNCHANGED Promise!vars
<1>1. stage \in Race!Candidates
      BY DEF Fallback!Trying, Fallback!Candidates, Fallback!First, Fallback!Second,
         Race!Candidates, Race!First, Race!Second
<1>2. stage \notin Fallback!Chosen
      BY PathsAre DEF Fallback!Trying, Fallback!Chosen
<1>3. UNCHANGED <<Fallback!Outcome, Fallback!Chosen, Fallback!Expired>>
      BY DEF Fallback!Outcome, Fallback!Chosen, Fallback!Expired, Fallback!Trying
<1>4. \/ Fallback!Held' = Fallback!Held
      \/ stage \notin Fallback!Held /\ Fallback!Held' = Fallback!Held \cup {stage}
      \/ stage \in Fallback!Held /\ Fallback!Held' = Fallback!Held \ {stage}
      BY DEF Fallback!Held, Fallback!Trying
<1>5. CASE Fallback!Held' = Fallback!Held  BY <1>3, <1>5 DEF Promise!vars
<1>6. CASE stage \notin Fallback!Held /\ Fallback!Held' = Fallback!Held \cup {stage}
      BY <1>1, <1>2, <1>3, <1>6 DEF Promise!Next, Promise!Open
<1>7. CASE stage \in Fallback!Held /\ Fallback!Held' = Fallback!Held \ {stage}
      BY <1>1, <1>2, <1>3, <1>7 DEF Promise!Next, Promise!Close
<1> QED  BY <1>4, <1>5, <1>6, <1>7

LEMMA PromiseFallback ==
    ASSUME FallInv, ~InRace, ~InRace', Fallback!Next
    PROVE  Promise!Next \/ UNCHANGED Promise!vars
<1> USE PathsAre DEF FallInv
<1>1. CASE \/ Fallback!BaseFails \/ Fallback!BaseConnects \/ Fallback!WatcherFires
           \/ Fallback!HandshakeFails \/ Fallback!HandshakeReady
  <2>1. Fallback!Trying /\ UNCHANGED <<stage, firstCtx>>
        BY <1>1 DEF Fallback!BaseFails, Fallback!BaseConnects, Fallback!WatcherFires,
           Fallback!HandshakeFails, Fallback!HandshakeReady, Fallback!contexts
  <2>2. \A c \in Fallback!Candidates \ {stage} : conn'[c] = conn[c]
        BY <1>1 DEF Fallback!BaseFails, Fallback!BaseConnects, Fallback!WatcherFires,
           Fallback!HandshakeFails, Fallback!HandshakeReady, Fallback!TypeOK
  <2> QED  BY <2>1, <2>2, HeldByTrying
<1>2. CASE Fallback!FallsBack
  <2>1. /\ stage = "preferred" /\ stage' = "opposite" /\ conn' = conn /\ firstCtx' = firstCtx
        BY <1>2 DEF Fallback!FallsBack, Fallback!contexts
  <2>2. UNCHANGED <<Fallback!Held, Fallback!Outcome, Fallback!Chosen, Fallback!Expired>>
        BY <2>1 DEF Fallback!Held, Fallback!Outcome, Fallback!Chosen, Fallback!Expired,
           Fallback!Trying
  <2> QED  BY <2>2 DEF Promise!vars
<1>3. CASE Fallback!GivesUp
  <2>1. /\ Fallback!Trying /\ stage' = "failed" /\ conn' = conn /\ firstCtx' = firstCtx
        BY <1>3 DEF Fallback!GivesUp, Fallback!Returned, Fallback!contexts
  <2>2. /\ UNCHANGED <<Fallback!Held, Fallback!Chosen, Fallback!Expired>>
        /\ Fallback!Outcome = "pending" /\ Fallback!Outcome' = "failed"
        BY <2>1 DEF Fallback!Held, Fallback!Outcome, Fallback!Chosen, Fallback!Expired,
           Fallback!Trying
  <2> QED  BY <2>2 DEF Promise!Next, Promise!Fail
<1>4. CASE Fallback!Succeeds
  <2>1. /\ stage \in {"preferred", "opposite"} /\ dial = "closing" /\ result[stage] = "ready"
        /\ stage' = IF stage = "preferred" THEN "won_first" ELSE "won_second"
        /\ conn' = conn /\ firstCtx' = firstCtx
        BY <1>4 DEF Fallback!Succeeds, Fallback!Returned, Fallback!Trying, Fallback!contexts
  <2>2. stage \in Fallback!Held \/ Fallback!Expired
        BY <2>1 DEF AttemptInv, Fallback!Held, Fallback!Expired
  <2>3. /\ UNCHANGED <<Fallback!Held, Fallback!Expired>>
        /\ Fallback!Outcome = "pending" /\ Fallback!Outcome' = "won" /\ Fallback!Chosen' = {stage}
        BY <2>1 DEF Fallback!Held, Fallback!Outcome, Fallback!Chosen, Fallback!Expired,
           Fallback!Trying
  <2>4. stage \in Race!Candidates
        BY <2>1 DEF Race!Candidates, Race!First, Race!Second
  <2> QED  BY <2>2, <2>3, <2>4 DEF Promise!Next, Promise!Choose
<1>5. CASE Fallback!Tick \/ Fallback!ParentCancels
  <2>1. UNCHANGED <<stage, conn>>  BY <1>5 DEF Fallback!Tick, Fallback!ParentCancels
  <2>2. firstCtx # "live" => firstCtx' = firstCtx
        BY <1>5 DEF Fallback!Tick, Fallback!ParentCancels, Fallback!Ended
  <2>3. UNCHANGED <<Fallback!Held, Fallback!Outcome, Fallback!Chosen>>
        BY <2>1 DEF Fallback!Held, Fallback!Outcome, Fallback!Chosen, Fallback!Trying
  <2>4. Fallback!Expired' = Fallback!Expired \/ (~Fallback!Expired /\ Fallback!Expired' = TRUE)
        BY <2>2 DEF Fallback!Expired
  <2>5. CASE Fallback!Expired' = Fallback!Expired  BY <2>3, <2>5 DEF Promise!vars
  <2>6. CASE ~Fallback!Expired /\ Fallback!Expired' = TRUE
        BY <2>3, <2>6 DEF Promise!Next, Promise!Expire
  <2> QED  BY <2>4, <2>5, <2>6
<1>6. CASE Fallback!Finished
  <2>1. UNCHANGED <<stage, conn, firstCtx>>
        BY <1>6 DEF Fallback!Finished, Fallback!vars, Fallback!contexts
  <2>2. UNCHANGED <<Fallback!Held, Fallback!Outcome, Fallback!Chosen, Fallback!Expired>>
        BY <2>1 DEF Fallback!Held, Fallback!Outcome, Fallback!Chosen, Fallback!Expired,
           Fallback!Trying
  <2> QED  BY <2>2 DEF Promise!vars
<1> QED  BY <1>1, <1>2, <1>3, <1>4, <1>5, <1>6 DEF Fallback!Next

\* When what the caller sees of either call has not moved, nothing is asked.
LEMMA PromiseUnchanged ==
    call' = call /\ UNCHANGED <<raceVars, fallVars>> => UNCHANGED Promise!vars
<1> SUFFICES ASSUME call' = call, UNCHANGED <<raceVars, fallVars>> PROVE UNCHANGED Promise!vars
    OBVIOUS
<1>1. InRace' = InRace  BY DEF InRace
<1>2. UNCHANGED <<Race!Held, Race!Outcome, Race!Chosen, Race!Expired>>
      BY DEF raceVars, Race!Held, Race!Outcome, Race!Chosen, Race!Expired
<1>3. UNCHANGED <<Fallback!Held, Fallback!Outcome, Fallback!Chosen, Fallback!Expired>>
      BY DEF fallVars, Fallback!Held, Fallback!Outcome, Fallback!Chosen, Fallback!Expired,
         Fallback!Trying
<1> QED  BY <1>1, <1>2, <1>3 DEF Promise!vars

LEMMA PromiseNext ==
    CallInv /\ [MCNext]_allVars => [Promise!Next]_Promise!vars
<1> SUFFICES ASSUME CallInv, [MCNext]_allVars PROVE Promise!Next \/ UNCHANGED Promise!vars
    OBVIOUS
<1> USE DEF CallInv
<1>1. call' = call  BY DEF MCNext, allVars
<1>2. CASE InRace /\ Race!Next
  <2>1. InRace'  BY <1>1, <1>2 DEF InRace
  <2> QED  BY <1>2, <2>1, PromiseRace
<1>3. CASE InFallback /\ Fallback!Next
  <2>1. ~InRace /\ ~InRace'  BY <1>1, <1>3 DEF InRace, InFallback
  <2> QED  BY <1>3, <2>1, PromiseFallback
<1>4. CASE UNCHANGED <<raceVars, fallVars>>  BY <1>1, <1>4, PromiseUnchanged
<1> QED  BY <1>2, <1>3, <1>4 DEF MCNext, allVars

\* The second attempt begins with half of the time left.
LEMMA HalfLeft ==
    CallInv /\ [MCNext]_allVars =>
        [prompt /\ stage = Fallback!First /\ stage' = Fallback!Second
            => 2 * elapsed =< Timeout]_Fallback!vars
<1> SUFFICES ASSUME CallInv, [MCNext]_allVars, prompt, stage = Fallback!First,
                    stage' = Fallback!Second
             PROVE  2 * elapsed =< Timeout
    OBVIOUS
<1> USE PathsAre
<1>1. FallInv  BY DEF CallInv
<1>2. Fallback!Next  BY DEF MCNext, allVars, fallVars
<1>3. mayFall
      BY <1>2 DEF Fallback!Next, Fallback!BaseFails, Fallback!BaseConnects, Fallback!WatcherFires,
         Fallback!HandshakeFails, Fallback!HandshakeReady, Fallback!Succeeds, Fallback!FallsBack,
         Fallback!GivesUp, Fallback!Tick, Fallback!ParentCancels, Fallback!Finished, Fallback!vars
<1>4. elapsed =< Fallback!FirstBudget  BY <1>1 DEF FallInv, ContextInv
<1>5. elapsed \in 0..Timeout /\ mayFall \in BOOLEAN  BY <1>1 DEF FallInv, Fallback!TypeOK
<1>6. Fallback!FirstBudget \in Nat \ {0} /\ 2 * Fallback!FirstBudget =< Timeout
      BY <1>3, <1>5, BudgetType
<1> QED  BY <1>4, <1>5, <1>6, TimeoutAssumption

\* Racer.Race and ConnectPreferredWithFallback both do, step by step, what
\* RaceOutcome promises the sidecar, and a remembered path that stays silent
\* leaves the other one half of the time.
THEOREM CallsKeepPromise == MCSpec => StepsAsPromised
<1>1. MCSpec => []CallInv  BY CallInit, CallNext, PTL DEF MCSpec, allVars
<1>2. MCSpec => Promise!Init  BY PromiseInit DEF MCSpec
<1>3. MCSpec => [][Promise!Next]_Promise!vars
      BY <1>1, PromiseNext, PTL DEF MCSpec, allVars
<1>4. MCSpec => [][prompt /\ stage = Fallback!First /\ stage' = Fallback!Second
                      => 2 * elapsed =< Timeout]_Fallback!vars
      BY <1>1, HalfLeft, PTL DEF MCSpec, allVars
<1> QED  BY <1>2, <1>3, <1>4 DEF StepsAsPromised, Fallback!FallbackHasHalfTheTime
=============================================================================
