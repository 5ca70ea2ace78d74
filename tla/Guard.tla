------------------------------- MODULE Guard -------------------------------
(***************************************************************************)
(* guard.Server: for each SOCKS request the adaptive engine is dialled     *)
(* with a short timeout, then the original policy's listener; the client   *)
(* is answered, and its payload relayed, on the one lane that accepted.    *)
(* A dial is socks5.DialContext: connect, handshake, a last look at the    *)
(* context, and a watcher that may still close what is then returned.      *)
(***************************************************************************)
EXTENDS ConnectionServer

Adaptive == "adaptive"
Original == "original"
Lanes    == {Adaptive, Original}

VARIABLES
    dial,      \* of the lane being dialled: "handshake", "checked", or none
    deadline,  \* whether the context of that dial has timed out
    lane,      \* each connection's two upstream connections
    selected,  \* the lane the handler goes on with
    reply,     \* what the client was told
    event,     \* the guard_decision that was emitted
    payload    \* lanes that client payload was written to

handlerVars == <<dial, deadline, lane, selected, reply, event, payload>>
vars == <<serverVars, inbound, closer, pc, handlerVars>>

TypeOK ==
    /\ ServerTypeOK
    /\ pc \in [Conns -> {NoHandler, Started, Adaptive, Original, "reply", "relay",
                         "closing", Returning, Done}]
    /\ dial \in [Conns -> {"none", "handshake", "checked"}]
    /\ deadline \in [Conns -> BOOLEAN]
    /\ lane \in [Conns -> [Lanes -> {"none", "open", "closed"}]]
    /\ selected \in [Conns -> Lanes \cup {"none"}]
    /\ reply \in [Conns -> {"none", "succeeded", "refused"}]
    /\ event \in [Conns -> Lanes \cup {"none", "unavailable"}]
    /\ payload \in [Conns -> SUBSET Lanes]

Init ==
    /\ ServerInit
    /\ dial = [c \in Conns |-> "none"]
    /\ deadline = [c \in Conns |-> FALSE]
    /\ lane = [c \in Conns |-> [l \in Lanes |-> "none"]]
    /\ selected = [c \in Conns |-> "none"]
    /\ reply = [c \in Conns |-> "none"]
    /\ event = [c \in Conns |-> "none"]
    /\ payload = [c \in Conns |-> {}]

Goto(c, there) == pc' = [pc EXCEPT ![c] = there]
Ended(c)       == ctx \/ deadline[c]

\* A handler's step leaves the server's own state and the others' alone.
Handler == UNCHANGED <<serverVars, closer>>

-----------------------------------------------------------------------------
ReadRequest(c) ==
    /\ pc[c] = Started /\ inbound[c] = "open"
    /\ Goto(c, Adaptive)
    /\ UNCHANGED <<inbound, handlerVars>> /\ Handler

\* Malformed, out of time, or the connection is gone.
RequestFails(c) ==
    /\ pc[c] = Started
    /\ Goto(c, "closing")
    /\ UNCHANGED <<inbound, handlerVars>> /\ Handler

-----------------------------------------------------------------------------
(* socks5.DialContext of lane l.                                           *)

Connects(c, l) ==
    /\ pc[c] = l /\ dial[c] = "none" /\ ~Ended(c)
    /\ dial' = [dial EXCEPT ![c] = "handshake"]
    /\ lane' = [lane EXCEPT ![c][l] = "open"]
    /\ UNCHANGED <<inbound, pc, deadline, selected, reply, event, payload>> /\ Handler

\* The reply was read and the context is still alive.
Checks(c, l) ==
    /\ pc[c] = l /\ dial[c] = "handshake" /\ lane[c][l] = "open" /\ ~Ended(c)
    /\ dial' = [dial EXCEPT ![c] = "checked"]
    /\ UNCHANGED <<inbound, pc, deadline, lane, selected, reply, event, payload>> /\ Handler

\* Even after that look: the watcher is stopped last.
Watcher(c, l) ==
    /\ pc[c] = l /\ dial[c] # "none" /\ Ended(c) /\ lane[c][l] = "open"
    /\ lane' = [lane EXCEPT ![c][l] = "closed"]
    /\ UNCHANGED <<inbound, pc, dial, deadline, selected, reply, event, payload>> /\ Handler

Accepted(c, l) ==
    /\ pc[c] = l /\ dial[c] = "checked"
    /\ selected' = [selected EXCEPT ![c] = l]
    /\ dial' = [dial EXCEPT ![c] = "none"]
    /\ Goto(c, "reply")
    /\ UNCHANGED <<inbound, deadline, lane, reply, event, payload>> /\ Handler

\* Refused, failed or out of time: the original lane gets a context of its own.
AdaptiveFails(c) ==
    /\ pc[c] = Adaptive /\ dial[c] # "checked"
    /\ lane' = [lane EXCEPT ![c][Adaptive] = IF dial[c] = "none" THEN @ ELSE "closed"]
    /\ dial' = [dial EXCEPT ![c] = "none"]
    /\ deadline' = [deadline EXCEPT ![c] = FALSE]
    /\ Goto(c, Original)
    /\ UNCHANGED <<inbound, selected, reply, event, payload>> /\ Handler

OriginalFails(c) ==
    /\ pc[c] = Original /\ dial[c] # "checked"
    /\ lane' = [lane EXCEPT ![c][Original] = IF dial[c] = "none" THEN @ ELSE "closed"]
    /\ dial' = [dial EXCEPT ![c] = "none"]
    /\ event' = [event EXCEPT ![c] = "unavailable"]
    /\ reply' = [reply EXCEPT ![c] = IF inbound[c] = "open" THEN "refused" ELSE @]
    /\ Goto(c, "closing")
    /\ UNCHANGED <<inbound, deadline, selected, payload>> /\ Handler

\* Mutant: only the original lane's dial has a deadline.
TimesOut_OriginalOnly(c) ==
    /\ pc[c] = Original /\ ~deadline[c]
    /\ deadline' = [deadline EXCEPT ![c] = TRUE]
    /\ UNCHANGED <<inbound, pc, dial, lane, selected, reply, event, payload>> /\ Handler
TimesOut(c) ==
    /\ pc[c] \in Lanes /\ ~deadline[c]
    /\ deadline' = [deadline EXCEPT ![c] = TRUE]
    /\ UNCHANGED <<inbound, pc, dial, lane, selected, reply, event, payload>> /\ Handler

-----------------------------------------------------------------------------
ReplySent(c) ==
    /\ pc[c] = "reply" /\ inbound[c] = "open"
    /\ reply' = [reply EXCEPT ![c] = "succeeded"]
    /\ event' = [event EXCEPT ![c] = selected[c]]
    /\ Goto(c, "relay")
    /\ UNCHANGED <<inbound, dial, deadline, lane, selected, payload>> /\ Handler

\* The client is gone, or its own deadline has passed: no event.
ReplyFails(c) ==
    /\ pc[c] = "reply"
    /\ Goto(c, "closing")
    /\ UNCHANGED <<inbound, handlerVars>> /\ Handler

Relays(c) ==
    /\ pc[c] = "relay" /\ inbound[c] = "open" /\ lane[c][selected[c]] = "open"
    /\ payload' = [payload EXCEPT ![c] = @ \cup {selected[c]}]
    /\ UNCHANGED <<inbound, pc, dial, deadline, lane, selected, reply, event>> /\ Handler

RelayEnds(c) ==
    /\ pc[c] = "relay"
    /\ Goto(c, "closing")
    /\ UNCHANGED <<inbound, handlerVars>> /\ Handler

\* The deferred closes of handle.
Closes(c) ==
    /\ pc[c] = "closing"
    /\ inbound' = [inbound EXCEPT ![c] = "closed"]
    /\ lane' = [lane EXCEPT ![c] = [l \in Lanes |-> IF l = selected[c] THEN "closed" ELSE @[l]]]
    /\ Goto(c, Returning)
    /\ UNCHANGED <<dial, deadline, selected, reply, event, payload>> /\ Handler

Handle(c) ==
    \/ ReadRequest(c) \/ RequestFails(c)
    \/ \E l \in Lanes : Connects(c, l) \/ Checks(c, l) \/ Watcher(c, l) \/ Accepted(c, l)
    \/ AdaptiveFails(c) \/ OriginalFails(c) \/ TimesOut(c)
    \/ ReplySent(c) \/ ReplyFails(c) \/ Relays(c) \/ RelayEnds(c) \/ Closes(c)

Next ==
    \/ ServerNext /\ UNCHANGED handlerVars
    \/ \E c \in Conns : Handle(c)
    \/ serve = "returned" /\ UNCHANGED vars

Spec == Init /\ [][Next]_vars

\* Goroutines run, deadlines pass and a closed connection or an ended context
\* wakes who waits for it; neither the client nor a lane owes anything.
Fairness ==
    /\ WF_vars(ListenerCloses /\ UNCHANGED handlerVars)
    /\ WF_vars(AcceptFails /\ listener = "closed" /\ UNCHANGED handlerVars)
    /\ WF_vars(ServeReturns /\ UNCHANGED handlerVars)
    /\ \A c \in Conns :
        /\ WF_vars((CloserFires(c) \/ HandlerEnds(c)) /\ UNCHANGED handlerVars)
        /\ WF_vars(RequestFails(c))
        /\ WF_vars(TimesOut(c))
        /\ WF_vars((AdaptiveFails(c) \/ OriginalFails(c)) /\ Ended(c))
        /\ WF_vars(\E l \in Lanes : Accepted(c, l))
        /\ WF_vars(ReplySent(c) \/ ReplyFails(c))
        /\ WF_vars(RelayEnds(c) /\ inbound[c] = "closed")
        /\ WF_vars(Closes(c))
FairSpec == Spec /\ Fairness

-----------------------------------------------------------------------------
(* Properties.                                                             *)

\* ADR-0006: no payload reaches a lane before the client was answered on it,
\* and none ever reaches, or finds open, the other lane.
PayloadOnOneLane ==
    \A c \in Conns :
        /\ payload[c] \subseteq {event[c]}
        /\ reply[c] = "succeeded" => \A l \in Lanes \ {event[c]} : lane[c][l] # "open"

\* When Serve has returned, no handler, watcher or connection is left.
NothingOutlivesServe ==
    serve = "returned" => \A c \in Conns :
        /\ inbound[c] # "open" /\ closer[c] # "watching"
        /\ \A l \in Lanes : lane[c][l] # "open"

\* A client whose request was read is answered or cut off: a wedged engine
\* costs it AdaptiveTimeout and not its connection.
RequestIsAnswered ==
    \A c \in Conns : pc[c] = Adaptive ~> reply[c] # "none" \/ inbound[c] = "closed"

\* After a signal, Serve returns.
StopEnds == parent ~> serve = "returned"
=============================================================================
