------------------------- MODULE ConnectionServer -------------------------
(***************************************************************************)
(* What sidecar.Server and guard.Server share: the accept loop, the        *)
(* goroutine that closes the listener, one handler per connection, the     *)
(* goroutine that closes a connection under its handler when the server    *)
(* stops, and the wait for all of them.  What a handler does is up to the  *)
(* module that extends this one.                                           *)
(***************************************************************************)
EXTENDS Naturals, FiniteSets

CONSTANT Conns

VARIABLES
    parent,    \* whether the caller's context has ended
    ctx,       \* whether serveCtx has
    listener,  \* "open", or closed by its goroutine
    serve,     \* Serve: accepting, waiting for the handlers, or returned
    inbound,   \* client connections: not yet accepted, open, closed, refused
    closer,    \* the goroutine that watches each of them
    pc         \* where each handler is

serverVars == <<parent, ctx, listener, serve>>

\* States of a handler that every server has.
NoHandler == "none"
Started   == "request"   \* about to read the SOCKS request
Returning == "returning" \* its deferred calls have run
Done      == "done"

ServerTypeOK ==
    /\ parent \in BOOLEAN /\ ctx \in BOOLEAN
    /\ listener \in {"open", "closed"}
    /\ serve \in {"accepting", "waiting", "returned"}
    /\ inbound \in [Conns -> {"coming", "open", "closed"}]
    /\ closer \in [Conns -> {"off", "watching", "over"}]

ServerInit ==
    /\ parent = FALSE /\ ctx = FALSE /\ listener = "open" /\ serve = "accepting"
    /\ inbound = [c \in Conns |-> "coming"]
    /\ closer = [c \in Conns |-> "off"]
    /\ pc = [c \in Conns |-> NoHandler]

\* Accept may win against a listener that is being closed.
AcceptConn(c) ==
    /\ serve = "accepting" /\ listener = "open" /\ inbound[c] = "coming"
    /\ inbound' = [inbound EXCEPT ![c] = "open"]
    /\ closer' = [closer EXCEPT ![c] = "watching"]
    /\ pc' = [pc EXCEPT ![c] = Started]
    /\ UNCHANGED serverVars

\* Accept fails, because the listener is closed or by itself (no file
\* descriptors left): either way every handler is told to stop.
AcceptFails ==
    /\ serve = "accepting" /\ serve' = "waiting"
    /\ ctx' = TRUE
    /\ UNCHANGED <<parent, listener, inbound, closer, pc>>

ParentEnds ==
    /\ ~parent /\ parent' = TRUE /\ ctx' = TRUE
    /\ UNCHANGED <<listener, serve, inbound, closer, pc>>

ListenerCloses ==
    /\ ctx /\ listener = "open" /\ listener' = "closed"
    /\ UNCHANGED <<parent, ctx, serve, inbound, closer, pc>>

\* Mutant: the goroutine goes away without closing the connection.
CloserFires_LeavesOpen(c) ==
    /\ ctx /\ closer[c] = "watching"
    /\ closer' = [closer EXCEPT ![c] = "over"]
    /\ UNCHANGED <<serverVars, inbound, pc>>
\* Under a handler that may be reading, dialling or relaying.
CloserFires(c) ==
    /\ ctx /\ closer[c] = "watching"
    /\ closer' = [closer EXCEPT ![c] = "over"]
    /\ inbound' = [inbound EXCEPT ![c] = "closed"]
    /\ UNCHANGED <<serverVars, pc>>

\* close(finished), and the closer is gone before the handler counts as done.
HandlerEnds(c) ==
    /\ pc[c] = Returning
    /\ pc' = [pc EXCEPT ![c] = Done]
    /\ closer' = [closer EXCEPT ![c] = "over"]
    /\ UNCHANGED <<serverVars, inbound>>

\* Mutant: the accept loop returns without waiting for its handlers.
ServeReturns_NoWait ==
    /\ serve = "waiting" /\ serve' = "returned"
    /\ listener' = "closed"
    /\ UNCHANGED <<parent, ctx, inbound, closer, pc>>
\* handlers.Wait, then the deferred calls: the listener's goroutine is gone.
ServeReturns ==
    /\ serve = "waiting" /\ \A c \in Conns : pc[c] \in {NoHandler, Done}
    /\ serve' = "returned"
    /\ listener' = "closed"
    /\ UNCHANGED <<parent, ctx, inbound, closer, pc>>

ServerNext ==
    \/ AcceptFails \/ ParentEnds \/ ListenerCloses \/ ServeReturns
    \/ \E c \in Conns : AcceptConn(c) \/ CloserFires(c) \/ HandlerEnds(c)
=============================================================================
