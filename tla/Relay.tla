------------------------------- MODULE Relay -------------------------------
(***************************************************************************)
(* netrelay.Bidirectional: two copying goroutines over two connections, an *)
(* atomic counter that tells the closer goroutine when both are finished,  *)
(* and a context whose end makes the closer close both connections.  The   *)
(* server that called it has a closer of its own for the client, on the    *)
(* same context (serveConnection).  Each connection ends in a peer that    *)
(* writes, half-closes, resets or does nothing; a direction is named by    *)
(* the side it reads from.                                                 *)
(***************************************************************************)
EXTENDS Naturals

CONSTANT MaxBytes  \* bound: what the two peers write, in units

Sides == {"left", "right"}
ASSUME RelayAssumption == MaxBytes \in Nat

Other(s) == IF s = "left" THEN "right" ELSE "left"

VARIABLES
    canHalfClose, \* sides whose connection has a CloseWrite method
    handedClosed, \* the remote connection was closed before the relay began
    sent,      \* what the peer of a side has written
    peer,      \* and whether it may write more: "open", "fin" or "reset"
    ours,      \* our end of each connection: "open" or "closed"
    finSent,   \* our CloseWrite has told the peer of a side that all is said
    copier,    \* where a direction's goroutine is
    copied,    \* the bytes it has written to the other side
    end,       \* how its io.Copy ended
    remaining, \* directions not finished
    finished,  \* the channel is closed
    closer,    \* where the closer goroutine is
    canceled,  \* the closer has announced a cancellation
    context,   \* "live" or "ended"
    returned   \* Bidirectional has returned

given    == <<canHalfClose, handedClosed>>
peerVars == <<sent, peer>>
copyVars == <<finSent, copier, copied, end, remaining, finished>>
vars == <<given, peerVars, ours, copyVars, closer, canceled, context, returned>>

TypeOK ==
    /\ canHalfClose \subseteq Sides /\ handedClosed \in BOOLEAN
    /\ sent \in [Sides -> 0..MaxBytes] /\ copied \in [Sides -> 0..MaxBytes]
    /\ peer \in [Sides -> {"open", "fin", "reset"}]
    /\ ours \in [Sides -> {"open", "closed"}] /\ finSent \in [Sides -> BOOLEAN]
    /\ copier \in [Sides -> {"reading", "writing", "reported", "half_closed", "done"}]
    /\ end \in [Sides -> {"none", "eof", "reset", "closed"}]
    /\ remaining \in 0..2 /\ finished \in BOOLEAN
    /\ closer \in {"waiting", "deciding", "close_left", "close_right", "done"}
    /\ canceled \in BOOLEAN /\ context \in {"live", "ended"} /\ returned \in BOOLEAN

Init ==
    /\ sent = [s \in Sides |-> 0] /\ copied = sent
    /\ peer = [s \in Sides |-> "open"]
    /\ finSent = [s \in Sides |-> FALSE]
    /\ copier = [s \in Sides |-> "reading"] /\ end = [s \in Sides |-> "none"]
    /\ remaining = 2 /\ finished = FALSE
    /\ closer = "waiting" /\ canceled = FALSE /\ context = "live" /\ returned = FALSE
    \* left is a TCP client; right is TCP, or the connection a TLS dial wraps.
    /\ canHalfClose \in {Sides, {"left"}}
    \* The time of its race may have run out on the right one (CandidateRace).
    /\ handedClosed \in BOOLEAN
    /\ ours = [s \in Sides |-> IF s = "right" /\ handedClosed THEN "closed" ELSE "open"]

-----------------------------------------------------------------------------
(* The peers and the caller.                                               *)

PeerWrites(s) ==
    /\ peer[s] = "open" /\ sent[s] + sent[Other(s)] < MaxBytes
    /\ sent' = [sent EXCEPT ![s] = @ + 1]
    /\ UNCHANGED <<given, peer, ours, copyVars, closer, canceled, context, returned>>

PeerEnds(s) ==
    /\ peer[s] # "reset"
    /\ \E how \in {"fin", "reset"} \ {peer[s]} : peer' = [peer EXCEPT ![s] = how]
    /\ UNCHANGED <<given, sent, ours, copyVars, closer, canceled, context, returned>>

ContextEnds ==
    /\ context = "live"
    /\ context' = "ended"
    /\ UNCHANGED <<given, peerVars, ours, copyVars, closer, canceled, returned>>

\* serveConnection's goroutine closes the client, which is the left side,
\* before, between or after the steps of the relay's own closer.
ServerCloses ==
    /\ context = "ended" /\ ~returned /\ ours["left"] = "open"
    /\ ours' = [ours EXCEPT !["left"] = "closed"]
    /\ UNCHANGED <<given, peerVars, copyVars, closer, canceled, context, returned>>

-----------------------------------------------------------------------------
(* copyDirection.                                                          *)

Goto(s, place) == copier' = [copier EXCEPT ![s] = place]

\* io.Copy has its result, which goes to the buffered channel at once.
CopyEnds(s, how) ==
    /\ Goto(s, "reported")
    /\ end' = [end EXCEPT ![s] = how]
    /\ UNCHANGED <<given, peerVars, ours, finSent, copied, remaining, finished,
                   closer, canceled, context, returned>>

ReadData(s) ==
    /\ copier[s] = "reading" /\ ours[s] = "open" /\ sent[s] > copied[s]
    /\ Goto(s, "writing")
    /\ UNCHANGED <<given, peerVars, ours, finSent, copied, end, remaining, finished,
                   closer, canceled, context, returned>>

\* Mutant: the end of the stream overtakes the data before it.
ReadEOF_Early(s) ==
    /\ copier[s] = "reading" /\ ours[s] = "open" /\ peer[s] = "fin"
    /\ CopyEnds(s, "eof")

ReadEOF(s) ==
    /\ copier[s] = "reading" /\ ours[s] = "open"
    /\ peer[s] = "fin" /\ sent[s] = copied[s]
    /\ CopyEnds(s, "eof")

\* A reset may overtake data that was not read yet.
ReadFails(s) ==
    /\ copier[s] = "reading"
    /\ \/ ours[s] = "closed" /\ CopyEnds(s, "closed")
       \/ ours[s] = "open" /\ peer[s] = "reset" /\ CopyEnds(s, "reset")

\* The write takes all that was sent up to some point after the read.
WriteData(s) ==
    /\ copier[s] = "writing" /\ ours[Other(s)] = "open"
    /\ Goto(s, "reading")
    /\ \E upto \in (copied[s] + 1)..sent[s] : copied' = [copied EXCEPT ![s] = upto]
    /\ UNCHANGED <<given, peerVars, ours, finSent, end, remaining, finished,
                   closer, canceled, context, returned>>

WriteFails(s) ==
    /\ copier[s] = "writing"
    /\ \/ ours[Other(s)] = "closed" /\ CopyEnds(s, "closed")
       \/ ours[Other(s)] = "open" /\ peer[Other(s)] = "reset" /\ CopyEnds(s, "reset")

\* Mutant: a finished direction closes the connection it wrote to.
HalfClose_Closes(s) ==
    /\ copier[s] = "reported"
    /\ Goto(s, "half_closed")
    /\ ours' = [ours EXCEPT ![Other(s)] = "closed"]
    /\ UNCHANGED <<given, peerVars, finSent, copied, end, remaining, finished,
                   closer, canceled, context, returned>>

\* However the copy ended, the other peer is told, if the connection can.
HalfClose(s) ==
    /\ copier[s] = "reported"
    /\ Goto(s, "half_closed")
    /\ finSent' = [finSent EXCEPT ![Other(s)] =
                     @ \/ (Other(s) \in canHalfClose /\ ours[Other(s)] = "open")]
    /\ UNCHANGED <<given, peerVars, ours, copied, end, remaining, finished,
                   closer, canceled, context, returned>>

\* Mutant: the first direction to finish dismisses the closer.
Count_First(s) ==
    /\ copier[s] = "half_closed"
    /\ Goto(s, "done")
    /\ remaining' = remaining - 1
    /\ finished' = TRUE
    /\ UNCHANGED <<given, peerVars, ours, finSent, copied, end, closer, canceled, context, returned>>

\* The deferred function: the last direction dismisses the closer.
Count(s) ==
    /\ copier[s] = "half_closed"
    /\ Goto(s, "done")
    /\ remaining' = remaining - 1
    /\ finished' = (remaining' = 0)
    /\ UNCHANGED <<given, peerVars, ours, finSent, copied, end, closer, canceled, context, returned>>

-----------------------------------------------------------------------------
(* The closer goroutine, and the return.                                   *)

CloserGoto(place) ==
    /\ closer' = place
    /\ UNCHANGED <<given, peerVars, copyVars, context, returned>>

\* Both channels may be ready: select takes either.
CloserWakes ==
    /\ closer = "waiting"
    /\ \/ context = "ended" /\ CloserGoto("deciding")
       \/ finished /\ CloserGoto("done")
    /\ UNCHANGED <<ours, canceled>>

CloserDecides ==
    /\ closer = "deciding"
    /\ CloserGoto(IF finished THEN "done" ELSE "close_left")
    /\ canceled' = ~finished
    /\ UNCHANGED ours

CloseLeft ==
    /\ closer = "close_left" /\ CloserGoto("close_right")
    /\ ours' = [ours EXCEPT !["left"] = "closed"]
    /\ UNCHANGED canceled

CloseRight ==
    /\ closer = "close_right" /\ CloserGoto("done")
    /\ ours' = [ours EXCEPT !["right"] = "closed"]
    /\ UNCHANGED canceled

\* wait.Wait, then <-closerDone.
Return ==
    /\ ~returned /\ closer = "done" /\ \A s \in Sides : copier[s] = "done"
    /\ returned' = TRUE
    /\ UNCHANGED <<given, peerVars, ours, copyVars, closer, canceled, context>>

-----------------------------------------------------------------------------
Copy(s) == \/ ReadData(s) \/ ReadEOF(s) \/ ReadFails(s)
           \/ WriteFails(s) \/ HalfClose(s) \/ Count(s)
Closer  == CloserWakes \/ CloserDecides \/ CloseLeft \/ CloseRight

Finished == returned /\ UNCHANGED vars

Next == \/ \E s \in Sides : PeerWrites(s) \/ PeerEnds(s) \/ Copy(s) \/ WriteData(s)
        \/ Closer \/ Return \/ ContextEnds \/ ServerCloses
        \/ Finished

Spec == Init /\ [][Next]_vars

\* Our goroutines run.  A write ends only when the peer reads or the
\* connection is closed, and a peer owes nothing.
Fairness == /\ \A s \in Sides : WF_vars(Copy(s))
            /\ WF_vars(Closer) /\ WF_vars(Return)
FairSpec == Spec /\ Fairness

\* The same with peers that read what is written to them.
TakesAll  == \A s \in Sides : WF_vars(WriteData(s))
PeersRead == FairSpec /\ TakesAll

-----------------------------------------------------------------------------
(* Properties.                                                             *)

\* No direction is cut by our own closing as long as the context is live: the
\* end of one direction leaves the other one running.  (The result of a cut
\* relay may still be "ended": the server's closer ends both copies before the
\* relay's own has looked.)
CutMeansStopped ==
    (\E s \in Sides : end[s] = "closed") => context = "ended" \/ handedClosed

\* The remote connection is closed under its relay only by a cancellation.
RemoteCutMeansCanceled ==
    ours["right"] = "closed" => canceled \/ handedClosed

\* A canceled relay has a cause, and leaves neither connection open.
CanceledIsClosed ==
    returned /\ canceled => context = "ended" /\ \A s \in Sides : ours[s] = "closed"

\* A direction that ended in EOF has carried everything its peer had sent.
NothingLost ==
    \A s \in Sides : end[s] = "eof" => copied[s] = sent[s]

\* So the result the caller records, of the ends and of the cancellation, is
\* what happened, in whatever order copiers, closer and context end.
ResultIsTrue ==
    CutMeansStopped /\ RemoteCutMeansCanceled /\ CanceledIsClosed /\ NothingLost

\* "a peer that never responds cannot outlive its server": once the context
\* has ended the relay returns, whatever the peers do.
Returns == (context = "ended") ~> returned

\* The catalog lists half-close handling: a peer that has said all is heard
\* by the other one, unless that is gone or the relay is canceled.
Heard(s) == \/ finSent[Other(s)] \/ peer[Other(s)] = "reset" \/ peer[s] = "reset"
            \/ context = "ended"
HalfCloseArrives ==
    \A s \in Sides : (peer[s] = "fin" /\ ~handedClosed) ~> Heard(s)

\* The same of two connections that can half-close, as the Guard passes them,
\* with peers that read.
HalfCloseOfTCP ==
    TakesAll => \A s \in Sides :
        (peer[s] = "fin" /\ canHalfClose = Sides /\ ~handedClosed) ~> Heard(s)
=============================================================================
