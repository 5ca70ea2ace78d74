----------------------------- MODULE MCServers -----------------------------
(***************************************************************************)
(* The three programs of the command line, checked in one run: the first   *)
(* state says which one this is, the variables of the others never move.   *)
(* The Guard and the Sidecar share the state of ConnectionServer.          *)
(***************************************************************************)
EXTENDS Supervisor

CONSTANT Conns

VARIABLES
    program,  \* "guard", "sidecar" or "supervisor"
    parent, serveCtx, listener, serve, inbound, closer, at,
    dial, deadline, lane, selected, reply, decision, payload,
    denied, plan, tried, result, chosen, remote, events, told

Guard   == INSTANCE Guard WITH ctx <- serveCtx, pc <- at, event <- decision
Sidecar == INSTANCE Sidecar WITH ctx <- serveCtx, pc <- at, TLS <- TRUE

serverVars  == <<parent, serveCtx, listener, serve, inbound, closer, at>>
guardVars   == <<dial, deadline, lane, selected, reply, decision, payload>>
sidecarVars == <<denied, plan, tried, result, chosen, remote, events, told>>

MCInit ==
    /\ program \in {"guard", "sidecar", "supervisor"}
    /\ Guard!Init /\ Sidecar!Init /\ Init
    /\ program # "sidecar" => denied = {}

MCNext ==
    \/ program = "guard" /\ Guard!Next /\ UNCHANGED <<program, sidecarVars, vars>>
    \/ program = "sidecar" /\ Sidecar!Next /\ UNCHANGED <<program, guardVars, vars>>
    \/ program = "supervisor" /\ Next /\ UNCHANGED <<program, serverVars, guardVars, sidecarVars>>

MCSpec == MCInit /\ [][MCNext]_<<program, serverVars, guardVars, sidecarVars, vars>>

-----------------------------------------------------------------------------
(* Properties: those of the three modules, and one of both servers.        *)

\* Every variable of the program that runs keeps its type.
ProgramTypeOK ==
    /\ TypeOK
    /\ program = "guard" => Guard!TypeOK
    /\ program = "sidecar" => Sidecar!TypeOK

\* No payload goes where it may not: the Guard commits one lane and the client's
\* bytes reach no other; the Sidecar never dials a private name on the direct
\* path, whatever was learned of it.
PathsAreRespected ==
    /\ ProgramTypeOK
    /\ program = "guard" => Guard!PayloadOnOneLane
    /\ program = "sidecar" => Sidecar!DeniedStaysOffDirect

\* What the Sidecar reports of a connection is what happened to it: one terminal
\* event however it ends, and blame on a path only for what that path did.
ReportsAreTrue == program = "sidecar" => Sidecar!OneTerminalEvent /\ Sidecar!BlameIsReal

\* When Serve or Run has returned, no handler, watcher, connection or child is
\* left, and in the Sidecar no further event or evidence can come; and a child
\* delays that by the grace period at most.
NothingOutlivesStop ==
    /\ program = "guard" => Guard!NothingOutlivesServe
    /\ program = "sidecar" => Sidecar!NothingOutlivesServe
    /\ NoOrphans /\ StopIsBounded
=============================================================================
