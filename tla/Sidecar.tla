------------------------------ MODULE Sidecar ------------------------------
(***************************************************************************)
(* sidecar.Server: from the SOCKS request to the relay.  With a TLSRacer   *)
(* the client is acknowledged at once, its ClientHello read, and the       *)
(* privacy policy and the learner decide which paths may be tried; without *)
(* one a plain race comes before the reply.  What a race, a fallback or a  *)
(* single attempt does inside is CandidateRace and PreferredFallback; here *)
(* it ends with what each path came to.                                    *)
(***************************************************************************)
EXTENDS ConnectionServer, Sequences

Direct == "direct"
Proxy  == "proxy"
Paths  == {Direct, Proxy}

CONSTANT TLS  \* whether the server has a TLSRacer

VARIABLES
    denied,  \* targets the privacy policy keeps off Direct
    plan,    \* the paths a connection tries, in order or side by side
    tried,   \* paths that were dialled; those of a failed race, at most
    result,  \* what each of them came to
    chosen,  \* the path whose connection the handler owns
    remote,  \* that connection
    events,  \* decision, diagnostic and relay_outcome events
    told     \* calls of the learner

handlerVars == <<denied, plan, tried, result, chosen, remote, events, told>>
vars == <<serverVars, inbound, closer, pc, handlerVars>>

Plans == {"none", "fixed_direct", "fixed_proxy", "race", "proxy_only"}
Calls == {"observe", "both_failed", "proxy_failed", "proxy_worked"}

TypeOK ==
    /\ ServerTypeOK
    /\ pc \in [Conns -> {NoHandler, Started, "hello", "connecting", "reply", "deciding",
                         "relay", "closing", Returning, Done}]
    /\ denied \in SUBSET Conns /\ plan \in [Conns -> Plans]
    /\ tried \in [Conns -> SUBSET Paths]
    /\ result \in [Conns -> [Paths -> {"none", "ready", "failed", "canceled"}]]
    /\ chosen \in [Conns -> Paths \cup {"none"}]
    /\ remote \in [Conns -> {"none", "open", "closed"}]
    /\ \A c \in Conns : /\ events[c] \in Seq({"decision", "rejected", "diagnostic", "outcome"})
                        /\ Len(events[c]) =< 2
    /\ told \in [Conns -> SUBSET Calls]

Init ==
    /\ ServerInit
    /\ denied \in SUBSET Conns
    /\ plan = [c \in Conns |-> "none"] /\ tried = [c \in Conns |-> {}]
    /\ result = [c \in Conns |-> [p \in Paths |-> "none"]]
    /\ chosen = [c \in Conns |-> "none"] /\ remote = [c \in Conns |-> "none"]
    /\ events = [c \in Conns |-> <<>>] /\ told = [c \in Conns |-> {}]

Goto(c, there) == pc' = [pc EXCEPT ![c] = there]
Emit(c, event) == events' = [events EXCEPT ![c] = Append(@, event)]
Tell(c, call)  == told' = [told EXCEPT ![c] = @ \cup {call}]
Handler == UNCHANGED <<serverVars, closer, denied>>

-----------------------------------------------------------------------------
(* The request, and with TLS the acknowledgement and the ClientHello.      *)

ReadRequest(c) ==
    /\ pc[c] = Started /\ inbound[c] = "open"
    /\ Goto(c, IF TLS THEN "hello" ELSE "connecting")
    /\ plan' = [plan EXCEPT ![c] = IF TLS THEN @ ELSE "race"]
    /\ UNCHANGED <<inbound, tried, result, chosen, remote, events, told>> /\ Handler

\* No request, or the acknowledgement could not be written.
RequestFails(c) ==
    /\ pc[c] = Started
    /\ Goto(c, "closing")
    /\ UNCHANGED <<inbound, plan, tried, result, chosen, remote, events, told>> /\ Handler

HelloRejected(c) ==
    /\ pc[c] = "hello"
    /\ Emit(c, "diagnostic")
    /\ Goto(c, "closing")
    /\ UNCHANGED <<inbound, plan, tried, result, chosen, remote, told>> /\ Handler

\* Mutant: the learner's mapping is followed before privacy is asked.
HelloRead_MappingFirst(c) ==
    /\ pc[c] = "hello" /\ inbound[c] = "open"
    /\ \E p \in {"fixed_direct", "fixed_proxy", "race", "proxy_only"} :
           /\ (p = "proxy_only") => c \in denied
           /\ (p = "race") => c \notin denied
           /\ plan' = [plan EXCEPT ![c] = p]
    /\ Goto(c, "connecting")
    /\ UNCHANGED <<inbound, tried, result, chosen, remote, events, told>> /\ Handler

\* The privacy decision, then FixedPath or PreferredPath.
HelloRead(c) ==
    /\ pc[c] = "hello" /\ inbound[c] = "open"
    /\ \E p \in IF c \in denied THEN {"proxy_only"} ELSE {"fixed_direct", "fixed_proxy", "race"} :
           plan' = [plan EXCEPT ![c] = p]
    /\ Goto(c, "connecting")
    /\ UNCHANGED <<inbound, tried, result, chosen, remote, events, told>> /\ Handler

-----------------------------------------------------------------------------
(* RacePreferred, ConnectPreferredWithFallback or ConnectPath, by outcome. *)

\* A path fails by itself, or is cut short by the end of the server.
Failures == IF ctx THEN {"failed", "canceled"} ELSE {"failed"}

\* The paths a plan may leave behind, with their results, when path wins.
Outcomes(p, path) ==
    LET other == IF path = Direct THEN Proxy ELSE Direct
        won(r)  == [q \in Paths |-> IF q = path THEN "ready" ELSE r]
        alone   == [tried |-> {path}, result |-> won("none")]
        fell    == {[tried |-> Paths, result |-> won("failed")]}
        raced   == {[tried |-> Paths, result |-> won("none")]}
    IN CASE p = "race" -> {alone} \cup fell \cup raced
         [] p = "proxy_only" -> IF path = Proxy THEN {alone} ELSE {}
         [] p = "fixed_direct" -> IF path = Direct THEN {alone} ELSE fell
         [] p = "fixed_proxy"  -> IF path = Proxy THEN {alone} ELSE fell
         [] p = "none" -> {}

\* A candidate is ready; its watcher may have closed it when the server stops
\* or the time of the race runs out (CandidateRace).
\* Of a denied target the learner only hears that the Proxy works; otherwise
\* it is given the pair.
Succeeds(c) ==
    /\ pc[c] = "connecting"
    /\ \E path \in Paths : \E o \in Outcomes(plan[c], path) :
        /\ tried' = [tried EXCEPT ![c] = o.tried]
        /\ result' = [result EXCEPT ![c] = o.result]
        /\ chosen' = [chosen EXCEPT ![c] = path]
    /\ \E r \in {"open", "closed"} : remote' = [remote EXCEPT ![c] = r]
    /\ IF TLS THEN Tell(c, IF c \in denied THEN "proxy_worked" ELSE "observe")
              ELSE UNCHANGED told
    /\ Goto(c, IF TLS THEN "deciding" ELSE "reply")
    /\ UNCHANGED <<inbound, plan, events>> /\ Handler

HealthRelevant(r) == r = "failed"

\* Only a RaceError carries a pair: a race cut short, by the end of the server
\* or by its own deadline, carries none.  A fallback always carries the pair.
Fails(c) ==
    /\ pc[c] = "connecting"
    /\ LET failing == [Paths -> Failures]
           alone   == {[r EXCEPT ![Direct] = "none"] : r \in failing}
           nothing == [q \in Paths |-> "none"]
       IN  \E r \in IF plan[c] = "proxy_only" THEN alone
                    ELSE failing \cup (IF plan[c] = "race" THEN {nothing} ELSE {}) :
            /\ result' = [result EXCEPT ![c] = r]
            /\ tried' = [tried EXCEPT ![c] = IF plan[c] = "proxy_only" THEN {Proxy} ELSE Paths]
            /\ told' = [told EXCEPT ![c] = @ \cup
                   (IF ~TLS THEN {}
                    ELSE IF c \in denied
                    THEN IF HealthRelevant(r[Proxy]) THEN {"proxy_failed"} ELSE {}
                    ELSE IF \A q \in Paths : HealthRelevant(r[q]) THEN {"both_failed"} ELSE {})]
    /\ IF TLS THEN Emit(c, "diagnostic") ELSE UNCHANGED events
    /\ Goto(c, "closing")
    /\ UNCHANGED <<inbound, plan, chosen, remote>> /\ Handler

-----------------------------------------------------------------------------
(* Without TLS: the commit stage and the reply.                            *)

BelowCommitStage(c) ==
    /\ pc[c] = "reply"
    /\ Emit(c, "rejected")
    /\ Goto(c, "closing")
    /\ UNCHANGED <<inbound, plan, tried, result, chosen, remote, told>> /\ Handler

ReplySent(c) ==
    /\ pc[c] = "reply" /\ inbound[c] = "open"
    /\ Goto(c, "deciding")
    /\ UNCHANGED <<inbound, plan, tried, result, chosen, remote, events, told>> /\ Handler

ReplyFails(c) ==
    /\ pc[c] = "reply"
    /\ Goto(c, "closing")
    /\ UNCHANGED <<inbound, plan, tried, result, chosen, remote, events, told>> /\ Handler

-----------------------------------------------------------------------------
(* Commitment and relay.                                                   *)

\* Mutant: nothing is committed once the client has gone away.
Decides_OnlyIfOpen(c) ==
    /\ pc[c] = "deciding"
    /\ IF inbound[c] = "open" THEN Emit(c, "decision") ELSE UNCHANGED events
    /\ Goto(c, "relay")
    /\ UNCHANGED <<inbound, plan, tried, result, chosen, remote, told>> /\ Handler
Decides(c) ==
    /\ pc[c] = "deciding"
    /\ Emit(c, "decision")
    /\ Goto(c, "relay")
    /\ UNCHANGED <<inbound, plan, tried, result, chosen, remote, told>> /\ Handler

RelayEnds(c) ==
    /\ pc[c] = "relay"
    /\ Emit(c, "outcome")
    /\ Goto(c, "closing")
    /\ UNCHANGED <<inbound, plan, tried, result, chosen, remote, told>> /\ Handler

\* The deferred closes of the handler.
Closes(c) ==
    /\ pc[c] = "closing"
    /\ inbound' = [inbound EXCEPT ![c] = "closed"]
    /\ remote' = [remote EXCEPT ![c] = IF @ = "open" THEN "closed" ELSE @]
    /\ Goto(c, Returning)
    /\ UNCHANGED <<plan, tried, result, chosen, events, told>> /\ Handler

Handle(c) ==
    \/ ReadRequest(c) \/ RequestFails(c) \/ HelloRejected(c) \/ HelloRead(c)
    \/ Succeeds(c) \/ Fails(c)
    \/ BelowCommitStage(c) \/ ReplySent(c) \/ ReplyFails(c)
    \/ Decides(c) \/ RelayEnds(c) \/ Closes(c)

Next ==
    \/ ServerNext /\ UNCHANGED handlerVars
    \/ \E c \in Conns : Handle(c)
    \/ serve = "returned" /\ UNCHANGED vars

Spec == Init /\ [][Next]_vars

\* As in Guard; every attempt ends in time (CandidateRace, PreferredFallback).
Fairness ==
    /\ WF_vars(ListenerCloses /\ UNCHANGED handlerVars)
    /\ WF_vars(AcceptFails /\ listener = "closed" /\ UNCHANGED handlerVars)
    /\ WF_vars(ServeReturns /\ UNCHANGED handlerVars)
    /\ \A c \in Conns :
        /\ WF_vars((CloserFires(c) \/ HandlerEnds(c)) /\ UNCHANGED handlerVars)
        /\ WF_vars(RequestFails(c)) /\ WF_vars(HelloRejected(c))
        /\ WF_vars(Fails(c))
        /\ WF_vars(BelowCommitStage(c) \/ ReplySent(c) \/ ReplyFails(c) \/ Decides(c))
        /\ WF_vars(RelayEnds(c) /\ inbound[c] = "closed")
        /\ WF_vars(Closes(c))
FairSpec == Spec /\ Fairness

-----------------------------------------------------------------------------
(* Properties.                                                             *)

\* ADR-0023: the identity-free report pairs a terminal event with a relay
\* outcome of the same connection.  However a connection ends, a handler
\* whose client was acknowledged leaves one terminal event, followed by a
\* relay_outcome exactly when it says that a path was committed.
OneTerminalEvent ==
    TLS => \A c \in Conns : pc[c] \in {Returning, Done} =>
        \/ events[c] \in {<<"diagnostic">>, <<"decision", "outcome">>}
        \/ events[c] = <<>> /\ plan[c] = "none" /\ tried[c] = {}

\* ADR-0007: a target that privacy keeps off Direct is never dialled there,
\* and teaches the learner no path.
DeniedStaysOffDirect ==
    TLS => \A c \in denied : Direct \notin tried[c] /\ "observe" \notin told[c]

\* A shutdown that cuts an attempt short is no evidence of an outage.
BlameIsReal ==
    \A c \in Conns :
        /\ "both_failed" \in told[c] => \A q \in Paths : result[c][q] = "failed"
        /\ "proxy_failed" \in told[c] => result[c][Proxy] = "failed"

\* When Serve has returned, no handler, watcher or connection is left, and
\* no further event or evidence can come: the writers may be closed.
NothingOutlivesServe ==
    serve = "returned" => \A c \in Conns :
        /\ inbound[c] # "open" /\ remote[c] # "open" /\ closer[c] # "watching"
        /\ pc[c] \in {NoHandler, Done}

\* After a signal, Serve returns.
StopEnds == parent ~> serve = "returned"
=============================================================================
