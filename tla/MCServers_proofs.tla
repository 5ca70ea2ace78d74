-------------------------- MODULE MCServers_proofs --------------------------
(***************************************************************************)
(* Proofs about the three programs of the command line, for any number of  *)
(* connections and of services: the Guard, the Sidecar with its TLS paths, *)
(* and the supervisor, each with an inductive invariant of its own, which  *)
(* says what is true of one connection (or service) at each place that its *)
(* goroutine can be.                                                       *)
(***************************************************************************)
EXTENDS MCServers, SequenceTheorems, FiniteSetTheorems, WellFoundedInduction, TLAPS

-----------------------------------------------------------------------------
(* The Guard: the inductive invariant.                                     *)

AdaptiveLane == Guard!Adaptive
OriginalLane == Guard!Original

\* Where a handler is, and what its client's connection and closer are then.
GuardHandler(c) ==
    /\ at[c] = "none" <=> inbound[c] = "coming"
    /\ at[c] = "none" => closer[c] = "off"
    /\ at[c] \in {"returning", "done"} => inbound[c] = "closed"
    /\ at[c] = "done" => closer[c] = "over"
    /\ serve = "returned" => at[c] \in {"none", "done"}

\* Which of its two upstream connections can be open.
GuardLanes(c) ==
    /\ dial[c] # "none" => at[c] \in Guard!Lanes
    /\ at[c] \in {"none", "request"} => \A l \in Guard!Lanes : lane[c][l] = "none"
    /\ at[c] = "adaptive" => lane[c]["original"] = "none"
    /\ at[c] \in Guard!Lanes /\ dial[c] = "none" => lane[c][at[c]] = "none"
    /\ at[c] = "original" => lane[c]["adaptive"] # "open"
    /\ at[c] \in {"reply", "relay", "closing"} =>
          \A l \in Guard!Lanes : l # selected[c] => lane[c][l] # "open"
    /\ at[c] \in {"returning", "done"} => \A l \in Guard!Lanes : lane[c][l] # "open"

\* What the client was told, and where its payload can be.
GuardCommits(c) ==
    /\ at[c] \in {"reply", "relay"} => selected[c] \in Guard!Lanes
    /\ at[c] \in {"none", "request", "adaptive", "original", "reply"} =>
          reply[c] = "none" /\ payload[c] = {}
    /\ at[c] = "relay" => reply[c] = "succeeded"
    /\ reply[c] = "succeeded" => decision[c] = selected[c]
    /\ reply[c] # "succeeded" => payload[c] = {}
    /\ payload[c] \subseteq {decision[c]}

GuardInv ==
    /\ Guard!TypeOK
    /\ \A c \in Conns : GuardHandler(c) /\ GuardLanes(c) /\ GuardCommits(c)

LEMMA GuardNames ==
    /\ Guard!Adaptive = "adaptive" /\ Guard!Original = "original"
    /\ Guard!Lanes = {"adaptive", "original"}
    /\ Guard!NoHandler = "none" /\ Guard!Started = "request"
    /\ Guard!Returning = "returning" /\ Guard!Done = "done"
BY DEF Guard!Adaptive, Guard!Original, Guard!Lanes, Guard!NoHandler, Guard!Started,
       Guard!Returning, Guard!Done

LEMMA GuardInit == Guard!Init => GuardInv
<1> SUFFICES ASSUME Guard!Init PROVE GuardInv  OBVIOUS
<1> USE GuardNames DEF Guard!Init, Guard!ServerInit
<1>1. Guard!TypeOK  BY DEF Guard!TypeOK, Guard!ServerTypeOK
<1>2. ASSUME NEW c \in Conns PROVE GuardHandler(c) /\ GuardLanes(c) /\ GuardCommits(c)
      BY <1>2 DEF GuardHandler, GuardLanes, GuardCommits
<1> QED  BY <1>1, <1>2 DEF GuardInv

\* What is true of a connection stays true while the others move.
LEMMA GuardOthers ==
    ASSUME GuardInv, NEW x \in Conns, serve' = serve,
           /\ inbound'[x] = inbound[x] /\ closer'[x] = closer[x] /\ at'[x] = at[x]
           /\ dial'[x] = dial[x] /\ lane'[x] = lane[x] /\ selected'[x] = selected[x]
           /\ reply'[x] = reply[x] /\ decision'[x] = decision[x] /\ payload'[x] = payload[x]
    PROVE  GuardHandler(x)' /\ GuardLanes(x)' /\ GuardCommits(x)'
BY GuardNames DEF GuardInv, GuardHandler, GuardLanes, GuardCommits

\* The accept loop, the listener, and the goroutine that closes a connection.
LEMMA GuardServerStep ==
    ASSUME GuardInv, Guard!ServerNext, UNCHANGED guardVars
    PROVE  GuardInv'
<1> USE GuardNames DEF GuardInv, guardVars
<1>1. Guard!TypeOK'
  <2>1. Guard!ServerTypeOK'
    <3>0. Guard!ServerTypeOK  BY DEF Guard!TypeOK
    <3>1. CASE Guard!AcceptFails
          BY <3>0, <3>1 DEF Guard!ServerTypeOK, Guard!AcceptFails
    <3>2. CASE Guard!ParentEnds
          BY <3>0, <3>2 DEF Guard!ServerTypeOK, Guard!ParentEnds
    <3>3. CASE Guard!ListenerCloses
          BY <3>0, <3>3 DEF Guard!ServerTypeOK, Guard!ListenerCloses
    <3>4. CASE Guard!ServeReturns
          BY <3>0, <3>4 DEF Guard!ServerTypeOK, Guard!ServeReturns
    <3>5. ASSUME NEW c \in Conns, Guard!AcceptConn(c) PROVE Guard!ServerTypeOK'
          BY <3>0, <3>5 DEF Guard!ServerTypeOK, Guard!AcceptConn, Guard!serverVars
    <3>6. ASSUME NEW c \in Conns, Guard!CloserFires(c) PROVE Guard!ServerTypeOK'
          BY <3>0, <3>6 DEF Guard!ServerTypeOK, Guard!CloserFires, Guard!serverVars
    <3>7. ASSUME NEW c \in Conns, Guard!HandlerEnds(c) PROVE Guard!ServerTypeOK'
          BY <3>0, <3>7 DEF Guard!ServerTypeOK, Guard!HandlerEnds, Guard!serverVars
    <3> QED  BY <3>1, <3>2, <3>3, <3>4, <3>5, <3>6, <3>7 DEF Guard!ServerNext
  <2>2. \/ at' = at
        \/ \E c \in Conns, there \in {"request", "done"} : at' = [at EXCEPT ![c] = there]
        BY DEF Guard!ServerNext, Guard!AcceptFails, Guard!ParentEnds, Guard!ListenerCloses,
           Guard!ServeReturns, Guard!AcceptConn, Guard!CloserFires, Guard!HandlerEnds
  <2> QED  BY <2>1, <2>2 DEF Guard!TypeOK
<1>2. ASSUME NEW x \in Conns PROVE GuardHandler(x)' /\ GuardLanes(x)' /\ GuardCommits(x)'
  <2>1. GuardHandler(x) /\ GuardLanes(x) /\ GuardCommits(x)  BY <1>2
  <2>2. CASE Guard!AcceptFails \/ Guard!ParentEnds \/ Guard!ListenerCloses \/ Guard!ServeReturns
    <3>1. UNCHANGED <<inbound, closer, at>>
          BY <2>2 DEF Guard!AcceptFails, Guard!ParentEnds, Guard!ListenerCloses, Guard!ServeReturns
    <3>2. serve' = "returned" => serve = "returned" \/ at[x] \in {"none", "done"}
          BY <2>2 DEF Guard!AcceptFails, Guard!ParentEnds, Guard!ListenerCloses, Guard!ServeReturns
    <3> QED  BY <2>1, <3>1, <3>2 DEF GuardHandler, GuardLanes, GuardCommits
  <2>3. ASSUME NEW c \in Conns, Guard!AcceptConn(c)
        PROVE  GuardHandler(x)' /\ GuardLanes(x)' /\ GuardCommits(x)'
        BY <2>1, <2>3 DEF Guard!AcceptConn, Guard!serverVars, Guard!TypeOK, Guard!ServerTypeOK,
           GuardHandler, GuardLanes, GuardCommits
  <2>4. ASSUME NEW c \in Conns, Guard!CloserFires(c)
        PROVE  GuardHandler(x)' /\ GuardLanes(x)' /\ GuardCommits(x)'
        BY <2>1, <2>4 DEF Guard!CloserFires, Guard!serverVars, Guard!TypeOK, Guard!ServerTypeOK,
           GuardHandler, GuardLanes, GuardCommits
  <2>5. ASSUME NEW c \in Conns, Guard!HandlerEnds(c)
        PROVE  GuardHandler(x)' /\ GuardLanes(x)' /\ GuardCommits(x)'
        BY <2>1, <2>5 DEF Guard!HandlerEnds, Guard!serverVars, Guard!TypeOK, Guard!ServerTypeOK,
           GuardHandler, GuardLanes, GuardCommits
  <2> QED  BY <2>2, <2>3, <2>4, <2>5 DEF Guard!ServerNext
<1> QED  BY <1>1, <1>2

\* A step of one handler.
LEMMA GuardHandleStep ==
    ASSUME GuardInv, NEW c \in Conns, Guard!Handle(c)
    PROVE  GuardInv'
<1> USE GuardNames DEF GuardInv, Guard!Handler, Guard!serverVars, Guard!Goto, Guard!handlerVars
<1>1. UNCHANGED <<parent, serveCtx, listener, serve, closer>>
      BY DEF Guard!Handle, Guard!ReadRequest, Guard!RequestFails, Guard!Connects, Guard!Checks,
         Guard!Watcher, Guard!Accepted, Guard!AdaptiveFails, Guard!OriginalFails, Guard!TimesOut,
         Guard!ReplySent, Guard!ReplyFails, Guard!Relays, Guard!RelayEnds, Guard!Closes
<1> DEFINE Kept ==
        /\ Guard!TypeOK'
        /\ \A x \in Conns \ {c} :
              /\ inbound'[x] = inbound[x] /\ at'[x] = at[x] /\ dial'[x] = dial[x]
              /\ lane'[x] = lane[x] /\ selected'[x] = selected[x] /\ reply'[x] = reply[x]
              /\ decision'[x] = decision[x] /\ payload'[x] = payload[x]
        /\ GuardHandler(c)' /\ GuardLanes(c)' /\ GuardCommits(c)'
<1> SUFFICES Kept
  <2>1. ASSUME Kept, NEW x \in Conns PROVE GuardHandler(x)' /\ GuardLanes(x)' /\ GuardCommits(x)'
        BY <1>1, <2>1, GuardOthers
  <2> QED  BY <2>1
<1>2. GuardHandler(c) /\ GuardLanes(c) /\ GuardCommits(c)  OBVIOUS
<1>3. CASE Guard!ReadRequest(c)
      BY <1>1, <1>2, <1>3 DEF Guard!ReadRequest, Guard!TypeOK, Guard!ServerTypeOK, GuardHandler,
         GuardLanes, GuardCommits
<1>4. CASE Guard!RequestFails(c)
      BY <1>1, <1>2, <1>4 DEF Guard!RequestFails, Guard!TypeOK, Guard!ServerTypeOK, GuardHandler,
         GuardLanes, GuardCommits
<1>5. CASE Guard!AdaptiveFails(c)
      BY <1>1, <1>2, <1>5 DEF Guard!AdaptiveFails, Guard!TypeOK, Guard!ServerTypeOK, GuardHandler,
         GuardLanes, GuardCommits
<1>6. CASE Guard!OriginalFails(c)
      BY <1>1, <1>2, <1>6 DEF Guard!OriginalFails, Guard!TypeOK, Guard!ServerTypeOK, GuardHandler,
         GuardLanes, GuardCommits
<1>7. CASE Guard!TimesOut(c)
      BY <1>1, <1>2, <1>7 DEF Guard!TimesOut, Guard!TypeOK, Guard!ServerTypeOK, GuardHandler,
         GuardLanes, GuardCommits
<1>8. CASE Guard!ReplySent(c)
      BY <1>1, <1>2, <1>8 DEF Guard!ReplySent, Guard!TypeOK, Guard!ServerTypeOK, GuardHandler,
         GuardLanes, GuardCommits
<1>9. CASE Guard!ReplyFails(c)
      BY <1>1, <1>2, <1>9 DEF Guard!ReplyFails, Guard!TypeOK, Guard!ServerTypeOK, GuardHandler,
         GuardLanes, GuardCommits
<1>10. CASE Guard!Relays(c)
      BY <1>1, <1>2, <1>10 DEF Guard!Relays, Guard!TypeOK, Guard!ServerTypeOK, GuardHandler,
         GuardLanes, GuardCommits
<1>11. CASE Guard!RelayEnds(c)
      BY <1>1, <1>2, <1>11 DEF Guard!RelayEnds, Guard!TypeOK, Guard!ServerTypeOK, GuardHandler,
         GuardLanes, GuardCommits
<1>12. CASE Guard!Closes(c)
      BY <1>1, <1>2, <1>12 DEF Guard!Closes, Guard!TypeOK, Guard!ServerTypeOK, GuardHandler,
         GuardLanes, GuardCommits
<1>13. ASSUME NEW l \in Guard!Lanes, Guard!Connects(c, l) PROVE Kept
      BY <1>1, <1>2, <1>13 DEF Guard!Connects, Guard!TypeOK, Guard!ServerTypeOK, GuardHandler,
         GuardLanes, GuardCommits
<1>14. ASSUME NEW l \in Guard!Lanes, Guard!Checks(c, l) PROVE Kept
      BY <1>1, <1>2, <1>14 DEF Guard!Checks, Guard!TypeOK, Guard!ServerTypeOK, GuardHandler,
         GuardLanes, GuardCommits
<1>15. ASSUME NEW l \in Guard!Lanes, Guard!Watcher(c, l) PROVE Kept
      BY <1>1, <1>2, <1>15 DEF Guard!Watcher, Guard!TypeOK, Guard!ServerTypeOK, GuardHandler,
         GuardLanes, GuardCommits
<1>16. ASSUME NEW l \in Guard!Lanes, Guard!Accepted(c, l) PROVE Kept
      BY <1>1, <1>2, <1>16 DEF Guard!Accepted, Guard!TypeOK, Guard!ServerTypeOK, GuardHandler,
         GuardLanes, GuardCommits
<1> QED  BY <1>3, <1>4, <1>5, <1>6, <1>7, <1>8, <1>9, <1>10, <1>11, <1>12, <1>13, <1>14, <1>15, <1>16 DEF Guard!Handle

LEMMA GuardNext == GuardInv /\ (Guard!Next \/ UNCHANGED <<serverVars, guardVars>>) => GuardInv'
<1>1. GuardInv /\ UNCHANGED <<serverVars, guardVars>> => GuardInv'
  <2> SUFFICES ASSUME GuardInv, UNCHANGED <<serverVars, guardVars>> PROVE GuardInv'  OBVIOUS
  <2>1. Guard!TypeOK'
        BY DEF GuardInv, Guard!TypeOK, Guard!ServerTypeOK, serverVars, guardVars
  <2>2. \A x \in Conns : GuardHandler(x)' /\ GuardLanes(x)' /\ GuardCommits(x)'
        BY GuardOthers DEF serverVars, guardVars
  <2> QED  BY <2>1, <2>2 DEF GuardInv
<1>2. UNCHANGED Guard!handlerVars => UNCHANGED guardVars  BY DEF Guard!handlerVars, guardVars
<1>3. UNCHANGED Guard!vars => UNCHANGED <<serverVars, guardVars>>
      BY DEF Guard!vars, Guard!handlerVars, Guard!serverVars, serverVars, guardVars
<1>4. GuardInv /\ Guard!Next => GuardInv'
      BY <1>1, <1>2, <1>3, GuardServerStep, GuardHandleStep DEF Guard!Next
<1> QED  BY <1>1, <1>4

LEMMA GuardSafe == GuardInv => Guard!PayloadOnOneLane /\ Guard!NothingOutlivesServe
<1> SUFFICES ASSUME GuardInv PROVE Guard!PayloadOnOneLane /\ Guard!NothingOutlivesServe  OBVIOUS
<1> USE GuardNames DEF GuardInv, Guard!TypeOK, GuardHandler, GuardLanes, GuardCommits
<1>1. Guard!PayloadOnOneLane  BY DEF Guard!PayloadOnOneLane
<1>2. Guard!NothingOutlivesServe  BY DEF Guard!NothingOutlivesServe
<1> QED  BY <1>1, <1>2

-----------------------------------------------------------------------------
(* The Sidecar: the inductive invariant.                                   *)

Untried(c) ==
    /\ tried[c] = {} /\ told[c] = {} /\ events[c] = <<>> /\ remote[c] = "none"

SidecarHandler(c) ==
    /\ at[c] = "none" <=> inbound[c] = "coming"
    /\ at[c] = "none" => closer[c] = "off"
    /\ at[c] \in {"returning", "done"} => inbound[c] = "closed" /\ remote[c] # "open"
    /\ at[c] = "done" => closer[c] = "over"
    /\ serve = "returned" => at[c] \in {"none", "done"}

\* How far a connection has come, and the events it has left so far.
SidecarEvents(c) ==
    /\ at[c] # "reply"
    /\ at[c] \in {"none", "request", "hello"} => Untried(c) /\ plan[c] = "none"
    /\ at[c] = "connecting" => /\ Untried(c) /\ plan[c] # "none"
                               /\ c \in denied <=> plan[c] = "proxy_only"
    /\ at[c] = "deciding" => events[c] = <<>>
    /\ at[c] = "relay" => events[c] = <<"decision">>
    /\ at[c] \in {"closing", "returning", "done"} =>
          \/ events[c] \in {<<"diagnostic">>, <<"decision", "outcome">>}
          \/ events[c] = <<>> /\ plan[c] = "none" /\ tried[c] = {}

\* What was dialled, and what the learner heard of it.
SidecarTold(c) ==
    /\ c \in denied => "direct" \notin tried[c] /\ "observe" \notin told[c]
    /\ "both_failed" \in told[c] => \A q \in Sidecar!Paths : result[c][q] = "failed"
    /\ "proxy_failed" \in told[c] => result[c]["proxy"] = "failed"

SidecarInv ==
    /\ Sidecar!TypeOK /\ events = [c \in Conns |-> events[c]]
    /\ \A c \in Conns : SidecarHandler(c) /\ SidecarEvents(c) /\ SidecarTold(c)

LEMMA SidecarNames ==
    /\ Sidecar!Direct = "direct" /\ Sidecar!Proxy = "proxy" /\ Sidecar!Paths = {"direct", "proxy"}
    /\ Sidecar!NoHandler = "none" /\ Sidecar!Started = "request"
    /\ Sidecar!Returning = "returning" /\ Sidecar!Done = "done"
BY DEF Sidecar!Direct, Sidecar!Proxy, Sidecar!Paths, Sidecar!NoHandler, Sidecar!Started,
       Sidecar!Returning, Sidecar!Done

LEMMA SidecarInit == Sidecar!Init => SidecarInv
<1> SUFFICES ASSUME Sidecar!Init PROVE SidecarInv  OBVIOUS
<1> USE SidecarNames DEF Sidecar!Init, Sidecar!ServerInit
<1>1. Sidecar!TypeOK
  <2>1. \A c \in Conns : events[c] \in Seq({"decision", "rejected", "diagnostic", "outcome"})
                        /\ Len(events[c]) =< 2
        OBVIOUS
  <2> QED  BY <2>1 DEF Sidecar!TypeOK, Sidecar!ServerTypeOK, Sidecar!Plans, Sidecar!Calls
<1>2. ASSUME NEW c \in Conns PROVE SidecarHandler(c) /\ SidecarEvents(c) /\ SidecarTold(c)
      BY <1>2 DEF SidecarHandler, SidecarEvents, SidecarTold, Untried
<1>3. events = [c \in Conns |-> events[c]]  OBVIOUS
<1> QED  BY <1>1, <1>2, <1>3 DEF SidecarInv

LEMMA SidecarOthers ==
    ASSUME SidecarInv, NEW x \in Conns, serve' = serve, denied' = denied,
           /\ inbound'[x] = inbound[x] /\ closer'[x] = closer[x] /\ at'[x] = at[x]
           /\ plan'[x] = plan[x] /\ tried'[x] = tried[x] /\ result'[x] = result[x]
           /\ remote'[x] = remote[x] /\ events'[x] = events[x] /\ told'[x] = told[x]
    PROVE  SidecarHandler(x)' /\ SidecarEvents(x)' /\ SidecarTold(x)'
BY SidecarNames DEF SidecarInv, SidecarHandler, SidecarEvents, SidecarTold, Untried

\* The accept loop, the listener, and the goroutine that closes a connection.
LEMMA SidecarServerStep ==
    ASSUME SidecarInv, Sidecar!ServerNext, UNCHANGED sidecarVars
    PROVE  SidecarInv'
<1> USE SidecarNames DEF SidecarInv, sidecarVars
<1>1. Sidecar!TypeOK'
  <2>1. Sidecar!ServerTypeOK'
    <3>0. Sidecar!ServerTypeOK  BY DEF Sidecar!TypeOK
    <3>1. CASE Sidecar!AcceptFails
          BY <3>0, <3>1 DEF Sidecar!ServerTypeOK, Sidecar!AcceptFails
    <3>2. CASE Sidecar!ParentEnds
          BY <3>0, <3>2 DEF Sidecar!ServerTypeOK, Sidecar!ParentEnds
    <3>3. CASE Sidecar!ListenerCloses
          BY <3>0, <3>3 DEF Sidecar!ServerTypeOK, Sidecar!ListenerCloses
    <3>4. CASE Sidecar!ServeReturns
          BY <3>0, <3>4 DEF Sidecar!ServerTypeOK, Sidecar!ServeReturns
    <3>5. ASSUME NEW c \in Conns, Sidecar!AcceptConn(c) PROVE Sidecar!ServerTypeOK'
          BY <3>0, <3>5 DEF Sidecar!ServerTypeOK, Sidecar!AcceptConn, Sidecar!serverVars
    <3>6. ASSUME NEW c \in Conns, Sidecar!CloserFires(c) PROVE Sidecar!ServerTypeOK'
          BY <3>0, <3>6 DEF Sidecar!ServerTypeOK, Sidecar!CloserFires, Sidecar!serverVars
    <3>7. ASSUME NEW c \in Conns, Sidecar!HandlerEnds(c) PROVE Sidecar!ServerTypeOK'
          BY <3>0, <3>7 DEF Sidecar!ServerTypeOK, Sidecar!HandlerEnds, Sidecar!serverVars
    <3> QED  BY <3>1, <3>2, <3>3, <3>4, <3>5, <3>6, <3>7 DEF Sidecar!ServerNext
  <2>2. \/ at' = at
        \/ \E c \in Conns, there \in {"request", "done"} : at' = [at EXCEPT ![c] = there]
        BY DEF Sidecar!ServerNext, Sidecar!AcceptFails, Sidecar!ParentEnds,
           Sidecar!ListenerCloses, Sidecar!ServeReturns, Sidecar!AcceptConn,
           Sidecar!CloserFires, Sidecar!HandlerEnds
  <2> QED  BY <2>1, <2>2 DEF Sidecar!TypeOK
<1>2. ASSUME NEW x \in Conns PROVE SidecarHandler(x)' /\ SidecarEvents(x)' /\ SidecarTold(x)'
  <2>1. SidecarHandler(x) /\ SidecarEvents(x) /\ SidecarTold(x)  BY <1>2
  <2>2. CASE \/ Sidecar!AcceptFails \/ Sidecar!ParentEnds
             \/ Sidecar!ListenerCloses \/ Sidecar!ServeReturns
    <3>1. UNCHANGED <<inbound, closer, at>>
          BY <2>2 DEF Sidecar!AcceptFails, Sidecar!ParentEnds, Sidecar!ListenerCloses,
             Sidecar!ServeReturns
    <3>2. serve' = "returned" => serve = "returned" \/ at[x] \in {"none", "done"}
          BY <2>2 DEF Sidecar!AcceptFails, Sidecar!ParentEnds, Sidecar!ListenerCloses,
             Sidecar!ServeReturns
    <3> QED  BY <2>1, <3>1, <3>2 DEF SidecarHandler, SidecarEvents, SidecarTold, Untried
  <2>3. ASSUME NEW c \in Conns, Sidecar!AcceptConn(c)
        PROVE  SidecarHandler(x)' /\ SidecarEvents(x)' /\ SidecarTold(x)'
        BY <2>1, <2>3 DEF Sidecar!AcceptConn, Sidecar!serverVars, Sidecar!TypeOK,
           Sidecar!ServerTypeOK, SidecarHandler, SidecarEvents, SidecarTold, Untried
  <2>4. ASSUME NEW c \in Conns, Sidecar!CloserFires(c)
        PROVE  SidecarHandler(x)' /\ SidecarEvents(x)' /\ SidecarTold(x)'
        BY <2>1, <2>4 DEF Sidecar!CloserFires, Sidecar!serverVars, Sidecar!TypeOK,
           Sidecar!ServerTypeOK, SidecarHandler, SidecarEvents, SidecarTold, Untried
  <2>5. ASSUME NEW c \in Conns, Sidecar!HandlerEnds(c)
        PROVE  SidecarHandler(x)' /\ SidecarEvents(x)' /\ SidecarTold(x)'
        BY <2>1, <2>5 DEF Sidecar!HandlerEnds, Sidecar!serverVars, Sidecar!TypeOK,
           Sidecar!ServerTypeOK, SidecarHandler, SidecarEvents, SidecarTold, Untried
  <2> QED  BY <2>2, <2>3, <2>4, <2>5 DEF Sidecar!ServerNext
<1>3. events' = [c \in Conns |-> events'[c]]  OBVIOUS
<1> QED  BY <1>1, <1>2, <1>3

\* The events of a connection after one more; there are never more than two.
SidecarEventTypes == {"decision", "rejected", "diagnostic", "outcome"}
EventsType(e) == \A x \in Conns : e[x] \in Seq(SidecarEventTypes) /\ Len(e[x]) =< 2

LEMMA DecisionThenOutcome == Append(<<"decision">>, "outcome") = <<"decision", "outcome">>
<1> DEFINE s == Append(<<"decision">>, "outcome")
           t == <<"decision", "outcome">>
           S == {"decision", "outcome"}
<1>1. s \in Seq(S) /\ t \in Seq(S) /\ Len(s) = 2 /\ Len(t) = 2  OBVIOUS
<1>2. s[1] = t[1] /\ s[2] = t[2]  OBVIOUS
<1> HIDE DEF s, t, S
<1>3. \A i \in 1 .. Len(s) : s[i] = t[i]
  <2>1. 1 .. Len(s) = {1, 2}  BY <1>1
  <2> QED  BY <1>2, <2>1
<1>4. s = t  BY <1>1, <1>3, SeqEqual, Zenon
<1> QED  BY <1>4 DEF s, t

LEMMA SidecarEmit ==
    ASSUME SidecarInv, NEW c \in Conns, NEW e \in SidecarEventTypes,
           \/ events[c] = <<>>
           \/ events[c] = <<"decision">> /\ e = "outcome",
           Sidecar!Emit(c, e)
    PROVE  /\ EventsType(events') /\ events' = [x \in Conns |-> events'[x]]
           /\ \A x \in Conns \ {c} : events'[x] = events[x]
           /\ events[c] = <<>> => events'[c] = <<e>>
           /\ events[c] = <<"decision">> => events'[c] = <<"decision", "outcome">>
<1>1. events = [x \in Conns |-> events[x]]  BY DEF SidecarInv
<1>2. events' = [events EXCEPT ![c] = Append(events[c], e)]  BY DEF Sidecar!Emit
<1>3. /\ \A x \in Conns \ {c} : events'[x] = events[x]
      /\ events'[c] = Append(events[c], e)
      /\ events' = [x \in Conns |-> events'[x]]
      BY <1>1, <1>2
<1>4. /\ events[c] = <<>> => events'[c] = <<e>>
      /\ events[c] = <<"decision">> => events'[c] = <<"decision", "outcome">>
  <2>1. CASE events[c] = <<>>
    <3>1. Append(<<>>, e) = <<e>>  OBVIOUS
    <3>2. <<>> # <<"decision">>  OBVIOUS
    <3> QED  BY <1>3, <2>1, <3>1, <3>2
  <2>2. CASE events[c] = <<"decision">> /\ e = "outcome"
    <3>1. <<>> # <<"decision">>  OBVIOUS
    <3> QED  BY <1>3, <2>2, <3>1, DecisionThenOutcome
  <2> QED  BY <2>1, <2>2
<1>5. \A x \in Conns : events[x] \in Seq(SidecarEventTypes) /\ Len(events[x]) =< 2
      BY DEF SidecarInv, Sidecar!TypeOK, SidecarEventTypes
<1>6. events'[c] \in Seq(SidecarEventTypes) /\ Len(events'[c]) =< 2
  <2>1. CASE events[c] = <<>>
    <3>1. <<e>> \in Seq(SidecarEventTypes) /\ Len(<<e>>) = 1 /\ 1 =< 2  OBVIOUS
    <3> QED  BY <1>4, <2>1, <3>1, Zenon
  <2>2. CASE events[c] = <<"decision">>
    <3>1. /\ <<"decision", "outcome">> \in Seq(SidecarEventTypes)
          /\ Len(<<"decision", "outcome">>) = 2 /\ 2 =< 2
          BY DEF SidecarEventTypes
    <3> QED  BY <1>4, <2>2, <3>1, Zenon
  <2> QED  BY <2>1, <2>2
<1> QED  BY <1>3, <1>4, <1>5, <1>6 DEF EventsType

\* What a successful call leaves behind: of a private name, the proxy alone.
LEMMA SidecarOutcome ==
    ASSUME NEW p \in Sidecar!Plans \ {"none"}, NEW path \in Sidecar!Paths,
           NEW o \in Sidecar!Outcomes(p, path)
    PROVE  /\ o.tried \subseteq Sidecar!Paths
           /\ o.result \in [Sidecar!Paths -> {"none", "ready", "failed", "canceled"}]
           /\ p = "proxy_only" => "direct" \notin o.tried
<1> USE SidecarNames
<1> DEFINE won(r) == [q \in Sidecar!Paths |-> IF q = path THEN "ready" ELSE r]
<1>1. o \in {[tried |-> {path}, result |-> won("none")],
             [tried |-> Sidecar!Paths, result |-> won("failed")],
             [tried |-> Sidecar!Paths, result |-> won("none")]}
  <2>1. CASE p = "race"  BY <2>1 DEF Sidecar!Outcomes
  <2>2. CASE p = "proxy_only"  BY <2>2 DEF Sidecar!Outcomes
  <2>3. CASE p = "fixed_direct"  BY <2>3 DEF Sidecar!Outcomes
  <2>4. CASE p = "fixed_proxy"  BY <2>4 DEF Sidecar!Outcomes
  <2> QED  BY <2>1, <2>2, <2>3, <2>4 DEF Sidecar!Plans
<1>2. p = "proxy_only" => path = "proxy" /\ o = [tried |-> {path}, result |-> won("none")]
      BY DEF Sidecar!Outcomes
<1> QED  BY <1>1, <1>2

\* A step of one handler.
LEMMA SidecarHandleStep ==
    ASSUME SidecarInv, NEW c \in Conns, Sidecar!Handle(c)
    PROVE  SidecarInv'
<1> USE SidecarNames DEF Sidecar!Handler, Sidecar!serverVars, Sidecar!Goto, Sidecar!Tell
<1>1. UNCHANGED <<parent, serveCtx, listener, serve, closer, denied>>
      BY DEF Sidecar!Handle, Sidecar!ReadRequest, Sidecar!RequestFails,
         Sidecar!HelloRejected, Sidecar!HelloRead, Sidecar!Succeeds,
         Sidecar!Fails, Sidecar!BelowCommitStage, Sidecar!ReplySent,
         Sidecar!ReplyFails, Sidecar!Decides, Sidecar!RelayEnds, Sidecar!Closes
<1> DEFINE Kept ==
        /\ Sidecar!TypeOK' /\ events' = [x \in Conns |-> events'[x]]
        /\ \A x \in Conns \ {c} :
              /\ inbound'[x] = inbound[x] /\ at'[x] = at[x] /\ plan'[x] = plan[x]
              /\ tried'[x] = tried[x] /\ result'[x] = result[x] /\ remote'[x] = remote[x]
              /\ events'[x] = events[x] /\ told'[x] = told[x]
        /\ SidecarHandler(c)' /\ SidecarEvents(c)' /\ SidecarTold(c)'
<1> SUFFICES Kept
  <2>1. ASSUME Kept, NEW x \in Conns
        PROVE  SidecarHandler(x)' /\ SidecarEvents(x)' /\ SidecarTold(x)'
        BY <1>1, <2>1, SidecarOthers
  <2> QED  BY <2>1 DEF SidecarInv
<1>2. SidecarHandler(c) /\ SidecarEvents(c) /\ SidecarTold(c)  BY DEF SidecarInv
<1>3. CASE Sidecar!ReadRequest(c)
      BY <1>1, <1>2, <1>3 DEF SidecarInv, Sidecar!ReadRequest, Sidecar!TypeOK, Sidecar!ServerTypeOK,
         SidecarHandler, SidecarEvents, SidecarTold, Untried, Sidecar!Plans, Sidecar!Calls
<1>4. CASE Sidecar!RequestFails(c)
      BY <1>1, <1>2, <1>4 DEF SidecarInv, Sidecar!RequestFails, Sidecar!TypeOK, Sidecar!ServerTypeOK,
         SidecarHandler, SidecarEvents, SidecarTold, Untried, Sidecar!Plans, Sidecar!Calls
<1>5. CASE Sidecar!HelloRejected(c)
  <2>1. events[c] = <<>> /\ Sidecar!Emit(c, "diagnostic")
        BY <1>2, <1>5 DEF Sidecar!HelloRejected, SidecarEvents, Untried
  <2>2. /\ EventsType(events') /\ events' = [x \in Conns |-> events'[x]]
        /\ \A x \in Conns \ {c} : events'[x] = events[x]
        /\ events'[c] = <<"diagnostic">>
        BY <2>1, SidecarEmit DEF SidecarEventTypes
  <2>3. Sidecar!TypeOK'
        BY <1>1, <1>5, <2>2 DEF Sidecar!HelloRejected, SidecarInv, Sidecar!TypeOK, Sidecar!ServerTypeOK,
           EventsType, SidecarEventTypes
  <2>4. /\ \A x \in Conns \ {c} : at'[x] = at[x]
        /\ at'[c] = "closing" /\ at[c] = "hello"
        /\ UNCHANGED <<inbound, plan, tried, result, remote, told>>
        BY <1>5 DEF Sidecar!HelloRejected, SidecarInv, Sidecar!TypeOK
  <2>5. SidecarHandler(c)' /\ SidecarEvents(c)' /\ SidecarTold(c)'
        BY <1>1, <1>2, <2>2, <2>4 DEF SidecarHandler, SidecarEvents, SidecarTold, Untried
  <2> QED  BY <2>2, <2>3, <2>4, <2>5
<1>6. CASE Sidecar!HelloRead(c)
      BY <1>1, <1>2, <1>6 DEF SidecarInv, Sidecar!HelloRead, Sidecar!TypeOK, Sidecar!ServerTypeOK,
         SidecarHandler, SidecarEvents, SidecarTold, Untried, Sidecar!Plans, Sidecar!Calls
<1>7. CASE Sidecar!Succeeds(c)
  <2>1. /\ at[c] = "connecting" /\ at' = [at EXCEPT ![c] = "deciding"]
        /\ UNCHANGED <<inbound, plan, events>>
        /\ told' = [told EXCEPT ![c] = told[c] \cup
                       {IF c \in denied THEN "proxy_worked" ELSE "observe"}]
        /\ \E r \in {"open", "closed"} : remote' = [remote EXCEPT ![c] = r]
        BY <1>7 DEF Sidecar!Succeeds
  <2>a. PICK path \in Sidecar!Paths : \E o \in Sidecar!Outcomes(plan[c], path) :
            /\ tried' = [tried EXCEPT ![c] = o.tried]
            /\ result' = [result EXCEPT ![c] = o.result]
            /\ chosen' = [chosen EXCEPT ![c] = path]
        BY <1>7 DEF Sidecar!Succeeds
  <2>2. PICK o \in Sidecar!Outcomes(plan[c], path) :
            /\ tried' = [tried EXCEPT ![c] = o.tried]
            /\ result' = [result EXCEPT ![c] = o.result]
            /\ chosen' = [chosen EXCEPT ![c] = path]
        BY <2>a
  <2>3. /\ Untried(c) /\ plan[c] \in Sidecar!Plans \ {"none"}
        /\ c \in denied <=> plan[c] = "proxy_only"
        BY <1>2, <2>1 DEF SidecarInv, SidecarEvents, Sidecar!TypeOK
  <2>4. /\ o.tried \subseteq Sidecar!Paths
        /\ o.result \in [Sidecar!Paths -> {"none", "ready", "failed", "canceled"}]
        /\ plan[c] = "proxy_only" => "direct" \notin o.tried
        BY <2>2, <2>3, SidecarOutcome
  <2>5. Sidecar!TypeOK' /\ events' = [x \in Conns |-> events'[x]]
        BY <1>1, <2>1, <2>2, <2>4
           DEF SidecarInv, Sidecar!TypeOK, Sidecar!ServerTypeOK, Sidecar!Calls
  <2>6. /\ \A x \in Conns \ {c} :
              /\ at'[x] = at[x] /\ tried'[x] = tried[x] /\ result'[x] = result[x]
              /\ remote'[x] = remote[x] /\ told'[x] = told[x]
        /\ at'[c] = "deciding" /\ tried'[c] = o.tried
        /\ told'[c] = {IF c \in denied THEN "proxy_worked" ELSE "observe"}
        BY <2>1, <2>2, <2>3 DEF SidecarInv, Sidecar!TypeOK, Untried
  <2>7. SidecarHandler(c)' /\ SidecarEvents(c)' /\ SidecarTold(c)'
        BY <1>1, <1>2, <2>1, <2>3, <2>4, <2>6
           DEF SidecarHandler, SidecarEvents, SidecarTold, Untried
  <2> QED  BY <2>1, <2>5, <2>6, <2>7
<1>8. CASE Sidecar!Fails(c)
  <2> DEFINE named(r) ==
            IF c \in denied
            THEN IF Sidecar!HealthRelevant(r["proxy"]) THEN {"proxy_failed"} ELSE {}
            ELSE IF \A q \in Sidecar!Paths : Sidecar!HealthRelevant(r[q]) THEN {"both_failed"}
                 ELSE {}
  <2>1. /\ at[c] = "connecting" /\ at' = [at EXCEPT ![c] = "closing"]
        /\ UNCHANGED <<inbound, plan, chosen, remote>> /\ Sidecar!Emit(c, "diagnostic")
        BY <1>8 DEF Sidecar!Fails
  <2>2. PICK r \in [Sidecar!Paths -> {"none", "failed", "canceled"}] :
            /\ result' = [result EXCEPT ![c] = r]
            /\ tried' = [tried EXCEPT ![c] = IF plan[c] = "proxy_only" THEN {"proxy"}
                                             ELSE Sidecar!Paths]
            /\ told' = [told EXCEPT ![c] = told[c] \cup named(r)]
    <3> DEFINE failing == [Sidecar!Paths -> Sidecar!Failures]
               alone   == {[r EXCEPT ![Sidecar!Direct] = "none"] : r \in failing}
               nothing == [q \in Sidecar!Paths |-> "none"]
               drawn   == IF plan[c] = "proxy_only" THEN alone
                          ELSE failing \cup (IF plan[c] = "race" THEN {nothing} ELSE {})
    <3>1. drawn \subseteq [Sidecar!Paths -> {"none", "failed", "canceled"}]
      <4>1. failing \subseteq [Sidecar!Paths -> {"failed", "canceled"}]  BY DEF Sidecar!Failures
      <4>2. alone \subseteq [Sidecar!Paths -> {"none", "failed", "canceled"}]  BY <4>1
      <4> QED  BY <4>1, <4>2
    <3>2. \E r \in drawn :
            /\ result' = [result EXCEPT ![c] = r]
            /\ tried' = [tried EXCEPT ![c] = IF plan[c] = "proxy_only" THEN {"proxy"}
                                             ELSE Sidecar!Paths]
            /\ told' = [told EXCEPT ![c] = told[c] \cup named(r)]
          BY <1>8 DEF Sidecar!Fails
    <3> HIDE DEF drawn, named
    <3> QED  BY <3>1, <3>2
  <2>3. /\ Untried(c) /\ (c \in denied <=> plan[c] = "proxy_only")
        BY <1>2, <2>1 DEF SidecarEvents
  <2>4. /\ EventsType(events') /\ events' = [x \in Conns |-> events'[x]]
        /\ \A x \in Conns \ {c} : events'[x] = events[x]
        /\ events'[c] = <<"diagnostic">>
        BY <2>1, <2>3, SidecarEmit DEF SidecarEventTypes, Untried
  <2>5. named(r) \subseteq Sidecar!Calls  BY DEF Sidecar!Calls
  <2>6. /\ "both_failed" \in named(r) => \A q \in Sidecar!Paths : r[q] = "failed"
        /\ "proxy_failed" \in named(r) => r["proxy"] = "failed"
        /\ "observe" \notin named(r)
        BY DEF Sidecar!HealthRelevant
  <2> HIDE DEF named
  <2>7. Sidecar!TypeOK'
        BY <1>1, <2>1, <2>2, <2>4, <2>5 DEF SidecarInv, Sidecar!TypeOK, Sidecar!ServerTypeOK,
           EventsType, SidecarEventTypes
  <2>8. /\ \A x \in Conns \ {c} :
              at'[x] = at[x] /\ tried'[x] = tried[x] /\ result'[x] = result[x] /\ told'[x] = told[x]
        /\ at'[c] = "closing" /\ result'[c] = r /\ told'[c] = named(r)
        /\ tried'[c] = IF plan[c] = "proxy_only" THEN {"proxy"} ELSE Sidecar!Paths
        BY <2>1, <2>2, <2>3 DEF SidecarInv, Sidecar!TypeOK, Untried
  <2>9. SidecarHandler(c)' /\ SidecarEvents(c)' /\ SidecarTold(c)'
        BY <1>1, <1>2, <2>1, <2>3, <2>4, <2>6, <2>8
           DEF SidecarHandler, SidecarEvents, SidecarTold, Untried
  <2> QED  BY <2>1, <2>4, <2>7, <2>8, <2>9
<1>9. CASE Sidecar!BelowCommitStage(c)
      BY <1>1, <1>2, <1>9 DEF SidecarInv, Sidecar!BelowCommitStage, Sidecar!TypeOK, Sidecar!ServerTypeOK,
         SidecarHandler, SidecarEvents, SidecarTold, Untried, Sidecar!Plans, Sidecar!Calls
<1>10. CASE Sidecar!ReplySent(c)
      BY <1>1, <1>2, <1>10 DEF SidecarInv, Sidecar!ReplySent, Sidecar!TypeOK, Sidecar!ServerTypeOK,
         SidecarHandler, SidecarEvents, SidecarTold, Untried, Sidecar!Plans, Sidecar!Calls
<1>11. CASE Sidecar!ReplyFails(c)
      BY <1>1, <1>2, <1>11 DEF SidecarInv, Sidecar!ReplyFails, Sidecar!TypeOK, Sidecar!ServerTypeOK,
         SidecarHandler, SidecarEvents, SidecarTold, Untried, Sidecar!Plans, Sidecar!Calls
<1>12. CASE Sidecar!Decides(c)
  <2>1. events[c] = <<>> /\ Sidecar!Emit(c, "decision")
        BY <1>2, <1>12 DEF Sidecar!Decides, SidecarEvents, Untried
  <2>2. /\ EventsType(events') /\ events' = [x \in Conns |-> events'[x]]
        /\ \A x \in Conns \ {c} : events'[x] = events[x]
        /\ events'[c] = <<"decision">>
        BY <2>1, SidecarEmit DEF SidecarEventTypes
  <2>3. Sidecar!TypeOK'
        BY <1>1, <1>12, <2>2 DEF Sidecar!Decides, SidecarInv, Sidecar!TypeOK, Sidecar!ServerTypeOK,
           EventsType, SidecarEventTypes
  <2>4. /\ \A x \in Conns \ {c} : at'[x] = at[x]
        /\ at'[c] = "relay" /\ at[c] = "deciding"
        /\ UNCHANGED <<inbound, plan, tried, result, remote, told>>
        BY <1>12 DEF Sidecar!Decides, SidecarInv, Sidecar!TypeOK
  <2>5. SidecarHandler(c)' /\ SidecarEvents(c)' /\ SidecarTold(c)'
        BY <1>1, <1>2, <2>2, <2>4 DEF SidecarHandler, SidecarEvents, SidecarTold, Untried
  <2> QED  BY <2>2, <2>3, <2>4, <2>5
<1>13. CASE Sidecar!RelayEnds(c)
  <2>1. events[c] = <<"decision">> /\ Sidecar!Emit(c, "outcome")
        BY <1>2, <1>13 DEF Sidecar!RelayEnds, SidecarEvents, Untried
  <2>2. /\ EventsType(events') /\ events' = [x \in Conns |-> events'[x]]
        /\ \A x \in Conns \ {c} : events'[x] = events[x]
        /\ events'[c] = <<"decision", "outcome">>
        BY <2>1, SidecarEmit DEF SidecarEventTypes
  <2>3. Sidecar!TypeOK'
        BY <1>1, <1>13, <2>2 DEF Sidecar!RelayEnds, SidecarInv, Sidecar!TypeOK, Sidecar!ServerTypeOK,
           EventsType, SidecarEventTypes
  <2>4. /\ \A x \in Conns \ {c} : at'[x] = at[x]
        /\ at'[c] = "closing" /\ at[c] = "relay"
        /\ UNCHANGED <<inbound, plan, tried, result, remote, told>>
        BY <1>13 DEF Sidecar!RelayEnds, SidecarInv, Sidecar!TypeOK
  <2>5. SidecarHandler(c)' /\ SidecarEvents(c)' /\ SidecarTold(c)'
        BY <1>1, <1>2, <2>2, <2>4 DEF SidecarHandler, SidecarEvents, SidecarTold, Untried
  <2> QED  BY <2>2, <2>3, <2>4, <2>5
<1>14. CASE Sidecar!Closes(c)
      BY <1>1, <1>2, <1>14 DEF SidecarInv, Sidecar!Closes, Sidecar!TypeOK, Sidecar!ServerTypeOK,
         SidecarHandler, SidecarEvents, SidecarTold, Untried, Sidecar!Plans, Sidecar!Calls
<1> QED  BY <1>3, <1>4, <1>5, <1>6, <1>7, <1>8, <1>9, <1>10, <1>11, <1>12, <1>13, <1>14 DEF Sidecar!Handle

LEMMA SidecarNext ==
    SidecarInv /\ (Sidecar!Next \/ UNCHANGED <<serverVars, sidecarVars>>) => SidecarInv'
<1>1. SidecarInv /\ UNCHANGED <<serverVars, sidecarVars>> => SidecarInv'
  <2> SUFFICES ASSUME SidecarInv, UNCHANGED <<serverVars, sidecarVars>> PROVE SidecarInv'
      OBVIOUS
  <2>1. Sidecar!TypeOK' /\ events' = [x \in Conns |-> events'[x]]
        BY DEF SidecarInv, Sidecar!TypeOK, Sidecar!ServerTypeOK, serverVars, sidecarVars
  <2>2. \A x \in Conns : SidecarHandler(x)' /\ SidecarEvents(x)' /\ SidecarTold(x)'
        BY SidecarOthers DEF serverVars, sidecarVars
  <2> QED  BY <2>1, <2>2 DEF SidecarInv
<1>2. UNCHANGED Sidecar!handlerVars => UNCHANGED sidecarVars  BY DEF Sidecar!handlerVars, sidecarVars
<1>3. UNCHANGED Sidecar!vars => UNCHANGED <<serverVars, sidecarVars>>
      BY DEF Sidecar!vars, Sidecar!handlerVars, Sidecar!serverVars, serverVars, sidecarVars
<1>4. SidecarInv /\ Sidecar!Next => SidecarInv'
      BY <1>1, <1>2, <1>3, SidecarServerStep, SidecarHandleStep DEF Sidecar!Next
<1> QED  BY <1>1, <1>4

LEMMA SidecarSafe ==
    SidecarInv => /\ Sidecar!OneTerminalEvent /\ Sidecar!DeniedStaysOffDirect
                  /\ Sidecar!BlameIsReal /\ Sidecar!NothingOutlivesServe
<1> SUFFICES ASSUME SidecarInv
             PROVE  /\ Sidecar!OneTerminalEvent /\ Sidecar!DeniedStaysOffDirect
                    /\ Sidecar!BlameIsReal /\ Sidecar!NothingOutlivesServe
    OBVIOUS
<1> USE SidecarNames DEF SidecarInv, Sidecar!TypeOK, SidecarHandler, SidecarEvents, SidecarTold,
    Untried
<1>1. Sidecar!OneTerminalEvent  BY DEF Sidecar!OneTerminalEvent
<1>2. Sidecar!DeniedStaysOffDirect  BY DEF Sidecar!DeniedStaysOffDirect
<1>3. Sidecar!BlameIsReal  BY DEF Sidecar!BlameIsReal
<1>4. Sidecar!NothingOutlivesServe  BY DEF Sidecar!NothingOutlivesServe
<1> QED  BY <1>1, <1>2, <1>3, <1>4

-----------------------------------------------------------------------------
(* The backoff of a restart.                                               *)

\* The powers of two, counted as the subsets of an interval.
LEMMA PowersOfTwo ==
    ASSUME NEW k \in Nat
    PROVE  2^k \in Nat /\ 2^(k + 1) = 2 * 2^k
<1> DEFINE S == 1 .. k
           T == 1 .. k + 1
           Y == {A \cup {k + 1} : A \in SUBSET S}
           f == [A \in SUBSET S |-> A \cup {k + 1}]
<1>1. /\ IsFiniteSet(S) /\ Cardinality(S) = k
      /\ IsFiniteSet(T) /\ Cardinality(T) = k + 1
      BY FS_Interval
<1>2. /\ IsFiniteSet(SUBSET S) /\ Cardinality(SUBSET S) = 2^k
      /\ Cardinality(SUBSET T) = 2^(k + 1)
      BY <1>1, FS_SUBSET
<1>3. Cardinality(SUBSET S) \in Nat  BY <1>2, FS_CardinalityType
<1>4. k + 1 \notin S /\ T = S \cup {k + 1}  OBVIOUS
<1> HIDE DEF S, T
<1>5. f \in Bijection(SUBSET S, Y)
  <2>1. f \in [SUBSET S -> Y]  OBVIOUS
  <2>2. \A A, B \in SUBSET S : f[A] = f[B] => A = B
    <3> SUFFICES ASSUME NEW A \in SUBSET S, NEW B \in SUBSET S, f[A] = f[B] PROVE A = B
        OBVIOUS
    <3>1. A \cup {k + 1} = B \cup {k + 1}  OBVIOUS
    <3>2. k + 1 \notin A /\ k + 1 \notin B  BY <1>4
    <3> QED  BY <3>1, <3>2
  <2>3. \A y \in Y : \E A \in SUBSET S : f[A] = y  OBVIOUS
  <2> QED  BY <2>1, <2>2, <2>3 DEF Bijection, Injection, Surjection, IsInjective
<1>6. IsFiniteSet(Y) /\ Cardinality(Y) = 2^k
      BY <1>2, <1>5, FS_Bijection DEF ExistsBijection
<1>7. SUBSET T = (SUBSET S) \cup Y
  <2>1. ASSUME NEW A \in SUBSET T PROVE A \in (SUBSET S) \cup Y
    <3>1. CASE k + 1 \notin A  BY <1>4, <3>1
    <3>2. CASE k + 1 \in A
      <4>1. A \ {k + 1} \in SUBSET S /\ A = (A \ {k + 1}) \cup {k + 1}  BY <1>4, <3>2
      <4> QED  BY <4>1
    <3> QED  BY <3>1, <3>2
  <2>2. SUBSET S \subseteq SUBSET T /\ Y \subseteq SUBSET T  BY <1>4
  <2> QED  BY <2>1, <2>2
<1>8. (SUBSET S) \cap Y = {}  BY <1>4
<1> HIDE DEF Y
<1>9. Cardinality(SUBSET T) = Cardinality(SUBSET S) + Cardinality(Y) - Cardinality({})
      BY <1>2, <1>6, <1>7, <1>8, FS_Union
<1> QED  BY <1>2, <1>3, <1>6, <1>9, FS_EmptySet

LEMMA LeastNumber ==
    ASSUME NEW S, S \subseteq Nat, S # {}
    PROVE  \E x \in S : \A y \in S : x =< y
<1>1. PICK x \in S : \A y \in S : <<y, x>> \notin OpToRel(<, Nat)
      BY WFMin, NatLessThanWellFounded
<1>2. \A y \in S : y \in Nat /\ x \in Nat /\ ~(y < x)  BY <1>1 DEF OpToRel
<1> QED  BY <1>2

\* restartBackoff, which doubles step by step and stops at the cap, is the
\* power of two that the promise names.
LEMMA BackoffDoubles ==
    ASSUME NEW n \in Nat \ {0}
    PROVE  restartBackoff(n) = Capped(MinBackoff * 2^(n - 1), MaxBackoff)
<1> DEFINE body(f, k) == IF k = 0 THEN MinBackoff
                         ELSE IF f[k - 1] >= MaxBackoff \/ f[k - 1] > MaxBackoff \div 2
                              THEN MaxBackoff ELSE 2 * f[k - 1]
           double == CHOOSE f : f = [k \in Nat |-> body(f, k)]
           power  == [k \in Nat |-> Capped(MinBackoff * 2^k, MaxBackoff)]
<1>1. restartBackoff(n) = double[n - 1]
  <2>1. (IF n <= 1 THEN 0 ELSE n - 1) = n - 1  OBVIOUS
  <2> QED  BY <2>1 DEF restartBackoff
<1>2. \A k \in Nat : k # 0 => k - 1 \in Nat
      /\ power[k] = body(power, k)
  <2> SUFFICES ASSUME NEW k \in Nat, k # 0 PROVE k - 1 \in Nat /\ power[k] = body(power, k)
      OBVIOUS
  <2> DEFINE p == MinBackoff * 2^(k - 1)
  <2>1. k - 1 \in Nat  OBVIOUS
  <2>2. p \in Nat /\ MinBackoff * 2^k = 2 * p
    <3>1. 2^(k - 1) \in Nat /\ 2^(k - 1 + 1) = 2 * 2^(k - 1)  BY <2>1, PowersOfTwo
    <3>2. k - 1 + 1 = k  OBVIOUS
    <3> DEFINE q == 2^(k - 1)
    <3>3. q \in Nat /\ 2^k = 2 * q  BY <3>1, <3>2
    <3> HIDE DEF q
    <3>4. MinBackoff * q \in Nat /\ MinBackoff * (2 * q) = 2 * (MinBackoff * q)
          BY <3>3, DurationAssumption
    <3> QED  BY <3>3, <3>4 DEF q
  <2>3. power[k] = Capped(2 * p, MaxBackoff) /\ power[k - 1] = Capped(p, MaxBackoff)
        BY <2>1, <2>2
  <2> HIDE DEF p, power
  <2> QED  BY <2>1, <2>2, <2>3, DurationAssumption DEF Capped
<1>3. power[0] = body(power, 0)
  <2>1. 2^0 = 1  OBVIOUS
  <2> QED  BY <2>1, DurationAssumption DEF Capped
<1>4. power = [k \in Nat |-> body(power, k)]  BY <1>2, <1>3
<1>5. double = [k \in Nat |-> body(double, k)]
  <2> HIDE DEF power, body
  <2> QED  BY <1>4
<1>6. \A k \in Nat : double[k] = power[k]
  <2> DEFINE Bad == {k \in Nat : double[k] # power[k]}
  <2> SUFFICES ASSUME Bad # {} PROVE FALSE  OBVIOUS
  <2>1. PICK k \in Bad : \A j \in Bad : k =< j  BY LeastNumber
  <2>2. k \in Nat /\ double[k] # power[k]  BY <2>1
  <2>3. double[k] = body(double, k) /\ power[k] = body(power, k)
    <3> HIDE DEF body, double, power
    <3> QED  BY <1>2, <1>3, <1>5, <2>2
  <2> HIDE DEF double, power
  <2>4. k # 0  BY <2>2, <2>3
  <2>5. k - 1 \in Nat /\ ~(k =< k - 1)  BY <2>2, <2>4
  <2>6. double[k - 1] = power[k - 1]  BY <2>1, <2>5
  <2> QED  BY <2>2, <2>3, <2>4, <2>6
<1>7. n - 1 \in Nat  OBVIOUS
<1>8. double[n - 1] = power[n - 1]
  <2> HIDE DEF double, power
  <2> QED  BY <1>6, <1>7
<1>9. power[n - 1] = Capped(MinBackoff * 2^(n - 1), MaxBackoff)  BY <1>7
<1> QED  BY <1>1, <1>8, <1>9

LEMMA BackoffType ==
    ASSUME NEW n \in Nat \ {0}
    PROVE  restartBackoff(n) \in 0 .. MaxBackoff
<1> DEFINE q == 2^(n - 1)
<1>1. q \in Nat  BY PowersOfTwo
<1>2. restartBackoff(n) = Capped(MinBackoff * q, MaxBackoff)  BY BackoffDoubles
<1> HIDE DEF q
<1>3. MinBackoff * q \in Nat  BY <1>1, DurationAssumption
<1> QED  BY <1>2, <1>3, DurationAssumption DEF Capped

-----------------------------------------------------------------------------
(* The supervisor: the inductive invariant.                                *)

\* A child belongs to the monitor that waits for it, which has said so last.
ChildOwned(s) ==
    /\ child[s] # "none" <=> pc[s] = "wait"
    /\ event[s] = "started" <=> pc[s] = "wait"
    /\ child[s] = "interrupted" => ctx

\* The history counts what the program counts, and the time since an attempt
\* ended and the time left of the backoff make up the backoff.
BackoffKept(s) ==
    /\ failures[s] = short[s]
    /\ pc[s] = "backoff" => short[s] > 0 /\ timer[s] + down[s] = restartBackoff(short[s])
    /\ pc[s] = "loop" /\ short[s] > 0 => down[s] = restartBackoff(short[s])

\* No time passes between the stop and the interrupts; the grace period of
\* every child that is still there began then.
GraceKept(s) ==
    /\ ctx /\ child[s] = "alive" => stopping = 0
    /\ child[s] = "interrupted" => stopping + timer[s] = Grace

SupervisorInv ==
    /\ TypeOK /\ timer = [s \in Services |-> timer[s]]
    /\ run => \A s \in Services : pc[s] = "over"
    /\ ~ctx => stopping = 0
    /\ stopping <= Grace
    /\ \A s \in Services : ChildOwned(s) /\ BackoffKept(s) /\ GraceKept(s)

LEMMA SupervisorInit == Init => SupervisorInv
<1> SUFFICES ASSUME Init PROVE SupervisorInv  OBVIOUS
<1> USE DurationAssumption, CapAssumption DEF Init
<1> DEFINE cap == FailureCap + 1
<1>1. TypeOK
  <2>1. 0 \in 0 .. cap /\ 0 \in 0 .. MaxBackoff + 1 /\ 0 \in 0 .. Grace + 1 /\ 0 \in 0 .. Grace
        /\ 0 \in 0 .. StableAfter
        OBVIOUS
  <2> HIDE DEF cap
  <2> QED  BY <2>1 DEF TypeOK, cap
<1>2. ASSUME NEW s \in Services PROVE ChildOwned(s) /\ BackoffKept(s) /\ GraceKept(s)
  <2>1. ~(short[s] > 0)  OBVIOUS
  <2>2. BackoffKept(s)  BY <2>1 DEF BackoffKept
  <2> QED  BY <2>2 DEF ChildOwned, GraceKept
<1> QED  BY <1>1, <1>2 DEF SupervisorInv

\* What is true of a service stays true while its siblings move.
LEMMA ServiceOthers ==
    ASSUME SupervisorInv, NEW x \in Services, ctx' = ctx, stopping' = stopping,
           /\ pc'[x] = pc[x] /\ child'[x] = child[x] /\ failures'[x] = failures[x]
           /\ timer'[x] = timer[x] /\ event'[x] = event[x] /\ short'[x] = short[x]
           /\ down'[x] = down[x]
    PROVE  ChildOwned(x)' /\ BackoffKept(x)' /\ GraceKept(x)'
BY DEF SupervisorInv, ChildOwned, BackoffKept, GraceKept

LEMMA CountType == \A n \in 0 .. FailureCap + 1 : Count(n) \in 1 .. FailureCap + 1
BY CapAssumption DEF Count, Capped

\* A step of one monitor or of its child.
LEMMA ServiceStep ==
    ASSUME SupervisorInv, NEW s \in Services,
           Monitor(s) \/ ChildExits(s) \/ Interrupt(s) \/ Kill(s)
    PROVE  SupervisorInv'
<1> USE DEF history
<1>1. UNCHANGED <<ctx, run, stopping>>
      BY DEF Monitor, Begin, StartSucceeds, StartFails, Exited, Stopped, TimerFires,
         BackoffCanceled, ChildExits, Interrupt, Kill
<1> DEFINE Kept ==
        /\ TypeOK' /\ timer' = [x \in Services |-> timer'[x]]
        /\ \A x \in Services \ {s} :
              /\ pc'[x] = pc[x] /\ child'[x] = child[x] /\ failures'[x] = failures[x]
              /\ timer'[x] = timer[x] /\ event'[x] = event[x] /\ short'[x] = short[x]
              /\ down'[x] = down[x]
        /\ ChildOwned(s)' /\ BackoffKept(s)' /\ GraceKept(s)'
<1>2. ~run
  <2>1. pc[s] # "over"
        BY DEF SupervisorInv, ChildOwned, Monitor, Begin, StartSucceeds, StartFails, Exited, Stopped,
           TimerFires, BackoffCanceled, ChildExits, Interrupt, Kill
  <2> QED  BY <2>1 DEF SupervisorInv
<1> SUFFICES Kept
  <2>1. ASSUME Kept, NEW x \in Services PROVE ChildOwned(x)' /\ BackoffKept(x)' /\ GraceKept(x)'
        BY <1>1, <2>1, ServiceOthers
  <2> QED  BY <1>1, <1>2, <2>1 DEF SupervisorInv
<1>3. TypeOK /\ timer = [x \in Services |-> timer[x]] /\ (~ctx => stopping = 0)
      BY DEF SupervisorInv
<1>4. ChildOwned(s) /\ BackoffKept(s) /\ GraceKept(s)  BY DEF SupervisorInv
<1>5. CASE Begin(s)
      BY <1>1, <1>3, <1>4, <1>5 DEF Begin, TypeOK, ChildOwned, BackoffKept, GraceKept
<1>6. CASE StartSucceeds(s)
      BY <1>1, <1>3, <1>4, <1>6, DurationAssumption
         DEF StartSucceeds, TypeOK, ChildOwned, BackoffKept, GraceKept
<1>7. ASSUME NEW n \in 1 .. FailureCap + 1, Schedule(s, n), short' = [short EXCEPT ![s] = n],
             \/ pc[s] = "start" /\ child' = child
             \/ pc[s] = "wait" /\ child' = [child EXCEPT ![s] = "none"],
             age' = age
      PROVE  Kept
  <2>1. restartBackoff(n) \in 0 .. MaxBackoff  BY BackoffType, CapAssumption
  <2>2. 0 \in 0 .. MaxBackoff + 1 /\ n \in 0 .. FailureCap + 1 /\ n > 0
        BY DurationAssumption, CapAssumption
  <2>3. restartBackoff(n) + 0 = restartBackoff(n)  BY <2>1
  <2> QED  BY <1>1, <1>3, <1>4, <1>7, <2>1, <2>2, <2>3
              DEF Schedule, TypeOK, ChildOwned, BackoffKept, GraceKept
<1>8. CASE StartFails(s)
  <2>1. Count(failures[s]) \in 1 .. FailureCap + 1 /\ short[s] = failures[s]
        BY <1>3, <1>4, CountType DEF TypeOK, BackoffKept
  <2> QED  BY <1>7, <1>8, <2>1 DEF StartFails
<1>9. CASE Exited(s)
  <2> DEFINE n == IF age[s] >= StableAfter THEN 1 ELSE Count(failures[s])
  <2>1. n \in 1 .. FailureCap + 1 /\ short[s] = failures[s]
        BY <1>3, <1>4, CountType, CapAssumption DEF TypeOK, BackoffKept
  <2>2. Schedule(s, n) /\ short' = [short EXCEPT ![s] = n]
        BY <1>9, <2>1 DEF Exited
  <2> HIDE DEF n
  <2> QED  BY <1>7, <1>9, <2>1, <2>2 DEF Exited
<1>10. CASE Stopped(s)
      BY <1>1, <1>3, <1>4, <1>10 DEF Stopped, TypeOK, ChildOwned, BackoffKept, GraceKept
<1>11. CASE TimerFires(s)
      BY <1>1, <1>3, <1>4, <1>11, DurationAssumption
         DEF TimerFires, TypeOK, ChildOwned, BackoffKept, GraceKept
<1>12. CASE BackoffCanceled(s)
      BY <1>1, <1>3, <1>4, <1>12, DurationAssumption
         DEF BackoffCanceled, TypeOK, ChildOwned, BackoffKept, GraceKept
<1>13. CASE ChildExits(s)
      BY <1>1, <1>3, <1>4, <1>13 DEF ChildExits, TypeOK, ChildOwned, BackoffKept, GraceKept
<1>14. CASE Interrupt(s)
      BY <1>1, <1>3, <1>4, <1>14, DurationAssumption
         DEF Interrupt, TypeOK, ChildOwned, BackoffKept, GraceKept
<1>15. CASE Kill(s)
      BY <1>1, <1>3, <1>4, <1>15 DEF Kill, TypeOK, ChildOwned, BackoffKept, GraceKept
<1> QED  BY <1>5, <1>6, <1>8, <1>9, <1>10, <1>11, <1>12, <1>13, <1>14, <1>15 DEF Monitor

\* Time passes only when every monitor waits.
LEMMA TickStep == ASSUME SupervisorInv, Tick PROVE SupervisorInv'
<1>1. /\ \A s \in Services : Waits(s)
      /\ ~run /\ (ctx => \E s \in Services : pc[s] # "over")
      /\ age' = [s \in Services |-> Capped(age[s] + 1, StableAfter)]
      /\ timer' = [s \in Services |-> IF timer[s] = 0 THEN 0 ELSE timer[s] - 1]
      /\ down' = [s \in Services |-> Capped(down[s] + 1, MaxBackoff + 1)]
      /\ stopping' = IF ctx THEN Capped(stopping + 1, Grace + 1) ELSE 0
      /\ UNCHANGED <<ctx, run, pc, child, failures, event, short>>
      BY DEF Tick
<1>2. TypeOK /\ (~ctx => stopping = 0) /\ stopping <= Grace
      BY DEF SupervisorInv
<1>3. ASSUME NEW s \in Services
      PROVE  /\ timer[s] \in Nat /\ down[s] \in 0 .. MaxBackoff + 1
             /\ short[s] \in 0 .. FailureCap + 1 /\ age[s] \in 0 .. StableAfter
             /\ timer[s] \in 0 .. (IF pc[s] = "backoff" THEN MaxBackoff ELSE Grace)
             /\ ChildOwned(s) /\ BackoffKept(s) /\ GraceKept(s) /\ Waits(s)
      BY <1>1, <1>2, <1>3, DurationAssumption DEF SupervisorInv, TypeOK
<1>4. stopping \in 0 .. Grace + 1  BY <1>2 DEF TypeOK
<1>5. ASSUME NEW s \in Services, child[s] = "interrupted"
      PROVE  stopping' + timer'[s] = Grace /\ stopping' <= Grace
  <2>1. ctx /\ timer[s] > 0  BY <1>3, <1>5 DEF ChildOwned, Waits
  <2>2. stopping + timer[s] = Grace  BY <1>3, <1>5 DEF GraceKept
  <2>3. timer'[s] = timer[s] - 1  BY <1>1, <1>3, <2>1
  <2>4. stopping' = stopping + 1
        BY <1>1, <1>3, <1>4, <2>1, <2>2, DurationAssumption DEF Capped
  <2> QED  BY <1>3, <1>4, <2>1, <2>2, <2>3, <2>4, DurationAssumption
<1>6. stopping' <= Grace /\ stopping' \in 0 .. Grace + 1 /\ (~ctx => stopping' = 0)
  <2>1. CASE ~ctx  BY <1>1, <2>1, DurationAssumption
  <2>2. CASE ctx
    <3>1. PICK s \in Services : pc[s] # "over"  BY <1>1, <2>2
    <3>2. child[s] = "interrupted"  BY <1>3, <2>2, <3>1 DEF Waits
    <3>3. stopping' <= Grace  BY <1>5, <3>2
    <3> QED  BY <1>1, <1>4, <2>2, <3>3, DurationAssumption DEF Capped
  <2> QED  BY <2>1, <2>2
<1>7. ASSUME NEW s \in Services
      PROVE  /\ age'[s] \in 0 .. StableAfter /\ down'[s] \in 0 .. MaxBackoff + 1
             /\ timer'[s] \in 0 .. (IF pc[s] = "backoff" THEN MaxBackoff ELSE Grace)
  <2>1. age'[s] = Capped(age[s] + 1, StableAfter) /\ down'[s] = Capped(down[s] + 1, MaxBackoff + 1)
        /\ timer'[s] = IF timer[s] = 0 THEN 0 ELSE timer[s] - 1
        BY <1>1
  <2>2. age'[s] \in 0 .. StableAfter /\ down'[s] \in 0 .. MaxBackoff + 1
        BY <1>3, <2>1, DurationAssumption DEF Capped
  <2> QED  BY <1>3, <2>1, <2>2, DurationAssumption
<1>8. TypeOK'
  <2>1. age' \in [Services -> 0 .. StableAfter] /\ down' \in [Services -> 0 .. MaxBackoff + 1]
        BY <1>1, <1>7
  <2>2. \A s \in Services : timer'[s] \in 0 .. (IF pc'[s] = "backoff" THEN MaxBackoff ELSE Grace)
        BY <1>1, <1>7
  <2> QED  BY <1>1, <1>2, <1>6, <2>1, <2>2 DEF TypeOK
<1>9. ASSUME NEW s \in Services PROVE ChildOwned(s)' /\ BackoffKept(s)' /\ GraceKept(s)'
  <2>1. ChildOwned(s)'  BY <1>1, <1>3 DEF ChildOwned
  <2>2. GraceKept(s)'
    <3>1. ~(ctx /\ child[s] = "alive")  BY <1>3 DEF Waits, ChildOwned
    <3>2. child[s] = "interrupted" => stopping' + timer'[s] = Grace  BY <1>5
    <3> QED  BY <1>1, <3>1, <3>2 DEF GraceKept
  <2>3. ASSUME pc[s] = "backoff"
        PROVE  short[s] > 0 /\ timer'[s] + down'[s] = restartBackoff(short[s])
    <3>1. short[s] > 0 /\ timer[s] + down[s] = restartBackoff(short[s])
          BY <1>3, <2>3 DEF BackoffKept
    <3>2. timer[s] > 0  BY <1>3, <2>3 DEF Waits
    <3>3. restartBackoff(short[s]) \in 0 .. MaxBackoff
          BY <1>3, <3>1, BackoffType, CapAssumption
    <3>4. timer'[s] = timer[s] - 1  BY <1>1, <3>2, <1>3
    <3>5. down'[s] = Capped(down[s] + 1, MaxBackoff + 1)  BY <1>1
    <3> HIDE DEF restartBackoff
    <3>6. down'[s] = down[s] + 1
          BY <1>3, <3>1, <3>2, <3>3, <3>5, DurationAssumption DEF Capped
    <3> QED  BY <1>3, <3>1, <3>2, <3>3, <3>4, <3>6
  <2>4. pc[s] # "loop"  BY <1>3 DEF Waits
  <2>5. BackoffKept(s)'  BY <1>1, <1>3, <2>3, <2>4 DEF BackoffKept
  <2> QED  BY <2>1, <2>2, <2>5
<1>10. timer' = [s \in Services |-> timer'[s]]  BY <1>1
<1> QED  BY <1>1, <1>6, <1>8, <1>9, <1>10 DEF SupervisorInv

LEMMA SupervisorNext == SupervisorInv /\ [Next]_vars => SupervisorInv'
<1> SUFFICES ASSUME SupervisorInv, [Next]_vars PROVE SupervisorInv'  OBVIOUS
<1>1. CASE Returns
  <2>1. /\ \A s \in Services : pc[s] = "over"
        /\ run' = TRUE /\ UNCHANGED <<ctx, pc, child, failures, age, timer, event, history>>
        BY <1>1 DEF Returns
  <2> QED  BY <2>1 DEF history, SupervisorInv, TypeOK, ChildOwned, BackoffKept, GraceKept
<1>2. CASE Stop
  <2>1. /\ ~ctx /\ ctx' = TRUE
        /\ UNCHANGED <<run, pc, child, failures, age, timer, event, history>>
        BY <1>2 DEF Stop
  <2> QED  BY <2>1 DEF history, SupervisorInv, TypeOK, ChildOwned, BackoffKept, GraceKept
<1>3. CASE UNCHANGED vars
      BY <1>3 DEF vars, SupervisorInv, TypeOK, ChildOwned, BackoffKept, GraceKept
<1> QED  BY <1>1, <1>2, <1>3, ServiceStep, TickStep DEF Next

LEMMA SupervisorSafe == SupervisorInv => NoOrphans /\ StopIsBounded
BY DEF SupervisorInv, ChildOwned, TypeOK, NoOrphans, StopIsBounded

\* From the end of an attempt to the next: exactly the backoff.
LEMMA OnSchedule ==
    ASSUME SupervisorInv, NEW s \in Services, pc[s] = "loop", short[s] > 0
    PROVE  down[s] = Capped(MinBackoff * 2^(short[s] - 1), MaxBackoff)
<1>1. short[s] \in Nat \ {0}  BY CapAssumption DEF SupervisorInv, TypeOK
<1>2. down[s] = restartBackoff(short[s])  BY DEF SupervisorInv, BackoffKept
<1> QED  BY <1>1, <1>2, BackoffDoubles

-----------------------------------------------------------------------------
(* The three programs together.                                            *)

ServersInv ==
    /\ program \in {"guard", "sidecar", "supervisor"}
    /\ program = "guard" => GuardInv
    /\ program = "sidecar" => SidecarInv
    /\ SupervisorInv

allVars == <<program, serverVars, guardVars, sidecarVars, vars>>

LEMMA ServersInit == MCInit => ServersInv
BY GuardInit, SidecarInit, SupervisorInit DEF MCInit, ServersInv

LEMMA ServersNext == ServersInv /\ [MCNext]_allVars => ServersInv'
<1> SUFFICES ASSUME ServersInv, [MCNext]_allVars PROVE ServersInv'  OBVIOUS
<1> USE DEF ServersInv
<1>1. program' = program  BY DEF MCNext, allVars
<1>2. program = "guard" => GuardInv'
  <2>1. program = "guard" => Guard!Next \/ UNCHANGED <<serverVars, guardVars>>
        BY DEF MCNext, allVars
  <2> QED  BY <2>1, GuardNext
<1>3. program = "sidecar" => SidecarInv'
  <2>1. program = "sidecar" => Sidecar!Next \/ UNCHANGED <<serverVars, sidecarVars>>
        BY DEF MCNext, allVars
  <2> QED  BY <2>1, SidecarNext
<1>4. SupervisorInv'
  <2>1. Next \/ UNCHANGED vars  BY DEF MCNext, allVars
  <2> QED  BY <2>1, SupervisorNext
<1> QED  BY <1>1, <1>2, <1>3, <1>4

\* The Guard writes a client's payload to the lane it committed and to no
\* other, and the Sidecar never dials a private name on the direct path; for
\* any number of connections, however their handlers interleave.
THEOREM PayloadKeepsToItsPath == MCSpec => []PathsAreRespected
<1>1. ServersInv => PathsAreRespected
      BY GuardSafe, SidecarSafe
         DEF ServersInv, PathsAreRespected, ProgramTypeOK, GuardInv, SidecarInv, SupervisorInv
<1> QED  BY <1>1, ServersInit, ServersNext, PTL DEF MCSpec, allVars

\* However a connection of the Sidecar ends, it leaves one terminal event, and
\* blame on a path only for what that path did.
THEOREM SidecarReportsTruly == MCSpec => []ReportsAreTrue
<1>1. ServersInv => ReportsAreTrue  BY SidecarSafe DEF ServersInv, ReportsAreTrue
<1> QED  BY <1>1, ServersInit, ServersNext, PTL DEF MCSpec, allVars

\* When Serve or Run has returned, no handler, watcher, connection or child is
\* left behind, and no child delays a stop by more than the grace period.
THEOREM StopsAreClean == MCSpec => []NothingOutlivesStop
<1>1. ServersInv => NothingOutlivesStop
      BY GuardSafe, SidecarSafe, SupervisorSafe DEF ServersInv, NothingOutlivesStop
<1> QED  BY <1>1, ServersInit, ServersNext, PTL DEF MCSpec, allVars

\* A service that fails is started again after exactly the backoff that its
\* consecutive failures call for, whatever its siblings do.
THEOREM BackoffIsKept == MCSpec => RestartsOnSchedule
<1> DEFINE A == \A s \in Services :
                  pc[s] = "loop" /\ pc'[s] = "start" /\ short[s] > 0 =>
                      down[s] = Capped(MinBackoff * 2^(short[s] - 1), MaxBackoff)
<1>1. ServersInv => A  BY OnSchedule DEF ServersInv
<1>2. MCSpec => []ServersInv  BY ServersInit, ServersNext, PTL DEF MCSpec, allVars
<1>3. ServersInv => [A]_vars  BY <1>1
<1>4. MCSpec => [][A]_vars  BY <1>2, <1>3, PTL
<1> QED  BY <1>4 DEF RestartsOnSchedule
=============================================================================
