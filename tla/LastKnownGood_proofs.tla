----------------------- MODULE LastKnownGood_proofs -----------------------
(***************************************************************************)
(* Theorems about LastKnownGood, for any number of connections, targets,   *)
(* any queue size and any set of capacities an operator may start with.    *)
(***************************************************************************)
EXTENDS MCPolicies, FiniteSetTheorems, WellFoundedInduction, TLAPS

(***************************************************************************)
(* The two copies of the map.                                              *)
(***************************************************************************)

\* What Put does, whichever entry it evicts: it stores e under t and leaves
\* every other key alone or removes it.
LEMMA PutLemma ==
    ASSUME NEW m \in PolicyMaps, NEW n, NEW t \in Targets, NEW e \in Entry
    PROVE  /\ Put(m, n, t, e) \in PolicyMaps
           /\ Put(m, n, t, e)[t] = e
           /\ \A k \in Targets \ {t} : Put(m, n, t, e)[k] \in {m[k], NoEntry}
BY DEF Put, PolicyMaps

\* NoEntry is not an entry, so the keys of a map are where it has entries.
LEMMA KeysLemma ==
    ASSUME NEW m \in PolicyMaps
    PROVE  /\ NoEntry \notin Entry
           /\ \A k \in Targets : /\ k \in Keys(m) <=> m[k] \in Entry
                                 /\ m[k].path \in Paths \cup {NoPath} /\ m[k].at \in Nat
                                 /\ k \in Keys(m) <=> m[k].path \in Paths
<1>1. NoPath \notin Paths
  BY DEF Paths, Direct, Proxy, NoPath
<1>2. /\ NoEntry \notin Entry /\ NoEntry.path = NoPath /\ NoEntry.at \in Nat
      /\ \A x \in Entry : x.path \in Paths /\ x.at \in Nat
  BY <1>1 DEF Entry, NoEntry
<1>3. \A k \in Targets : m[k] \in Entry \cup {NoEntry}
  BY DEF PolicyMaps
<1> QED
  BY <1>1, <1>2, <1>3 DEF Keys

LEMMA LoadedLemma ==
    ASSUME db \in PolicyMaps, ConfigAssumption
    PROVE  /\ LoadedIndex \in PolicyMaps
           /\ \A k \in Targets : LoadedIndex[k].path = db[k].path
<1>1. \A k \in Targets : db[k] \in Entry => [db[k] EXCEPT !.at = @ * TicksPerMs] \in Entry
  BY DEF Entry, ConfigAssumption
<1>2. \A k \in Targets : db[k] \in Entry => [db[k] EXCEPT !.at = @ * TicksPerMs].path = db[k].path
  BY DEF Entry
<1>3. \A k \in Targets : k \notin Keys(db) => db[k] = NoEntry
  BY DEF Keys
<1> QED
  BY <1>1, <1>2, <1>3, KeysLemma DEF LoadedIndex, PolicyMaps

(***************************************************************************)
(* Type correctness.                                                       *)
(***************************************************************************)
Inside == {"enqueue", "count"}

\* Who may be where: one handler at a time inside Observe, its request in
\* offer exactly until Enqueue, and nothing of a process that is not running.
Shape ==
    /\ \A c, d \in Conns : pc[c] \in Inside /\ pc[d] \in Inside => c = d
    /\ \A c \in Conns : pc[c] = "enqueue" =>
          offer \in Requests /\ offer.target = dest[c] /\ offer.path = winner[c]
    /\ offer # NoRequest => \E c \in Conns : pc[c] = "enqueue"
    /\ proc \notin Running =>
          index = EmptyMap /\ queue = <<>> /\ inflight = NoRequest
    /\ proc \notin {"up", "draining"} => HandlersReturned

TypeInv == TypeOK /\ Shape

LEMMA TypeInit == ASSUME ConfigAssumption, Init PROVE TypeInv
BY DEF ConfigAssumption, Init, TypeInv, TypeOK, Shape, Inside, PolicyMaps, EmptyMap, Counters,
       ZeroCounters, Running, HandlersReturned

\* The handlers.
LEMMA TypeHandler ==
    ASSUME ConfigAssumption, TypeInv, NEW c \in Conns,
           \/ \E t \in Targets : Accept(c, t)
           \/ Handler(c)
    PROVE  TypeInv'
<1> USE DEF TypeInv
<1>1. ASSUME NEW t \in Targets, Accept(c, t) PROVE TypeInv'
  BY <1>1 DEF TypeOK, Shape, Inside, Accept, Step, procVars, writerVars, Running, HandlersReturned
<1>2. CASE FixedPath(c)
  <2>1. index[dest[c]].path \in Paths \cup {NoPath}
    BY <1>2, KeysLemma DEF TypeOK, FixedPath, Step
  <2> QED
    BY <1>2, <2>1 DEF TypeOK, Shape, Inside, FixedPath, Step, procVars, writerVars, Running,
                      HandlersReturned
<1>3. ASSUME NEW p \in Paths, PathReady(c, p) PROVE TypeInv'
  BY <1>3 DEF TypeOK, Shape, Inside, PathReady, Step, procVars, writerVars, Running, HandlersReturned
<1>4. ASSUME NEW p \in Paths, PathFailed(c, p) PROVE TypeInv'
  BY <1>4 DEF TypeOK, Shape, Inside, PathFailed, Step, procVars, writerVars, Running, HandlersReturned
<1>5. CASE DialCanceled(c)
  BY <1>5 DEF TypeOK, Shape, Inside, DialCanceled, Step, procVars, writerVars, Running,
              HandlersReturned
<1>6. CASE Remember(c)
  <2> DEFINE e == [path |-> winner[c], at |-> now]
             r == [target |-> dest[c], path |-> winner[c], at |-> now]
  <2>1. pc[c] = "ready" /\ LockFree /\ dest[c] \in Targets /\ winner[c] \in Paths
    BY <1>6 DEF TypeOK, Remember
  <2>2. e \in Entry /\ r \in Requests
    BY <2>1 DEF TypeOK, Entry, Requests
  <2>3. Put(index, cap, dest[c], e) \in PolicyMaps
    BY <2>1, <2>2, PutLemma DEF TypeOK
  <2>4. proc \in Running /\ proc # "closing"
    BY <2>1 DEF Shape, HandlersReturned, TypeOK, Running
  <2>5. CASE index[dest[c]].path = winner[c]
    BY <1>6, <2>5, <2>1, <2>4 DEF TypeOK, Shape, Inside, LockFree, Remember, Step, procVars, writerVars,
                            Running, HandlersReturned
  <2>6. CASE index[dest[c]].path # winner[c]
    <3>1. /\ Step(c, "ready", "enqueue") /\ offer' = r
          /\ index' = Put(index, cap, dest[c], e)
          /\ UNCHANGED <<procVars, writerVars, db, dest, fixed, failed, winner, now>>
      BY <1>6, <2>6 DEF Remember
    <3> QED
      BY <3>1, <2>1, <2>2, <2>3, <2>4 DEF TypeOK, Shape, Inside, LockFree, Step, procVars, writerVars,
                            Running, HandlersReturned
  <2> QED
    BY <2>5, <2>6
<1>7. CASE Enqueue(c)
  <2>1. pc[c] = "enqueue" /\ offer \in Requests /\ proc \in {"up", "draining"}
    BY <1>7 DEF Enqueue, Step, TypeOK, Shape, HandlersReturned
  <2>2. /\ queue' \in Seq(Requests) /\ Len(queue') =< QueueSize
        /\ stats' \in Counters
        /\ pc'[c] \in {"count", "done"} /\ \A d \in Conns \ {c} : pc'[d] = pc[d]
        /\ pc' \in [Conns -> {"new", "accepted", "dialing", "ready", "enqueue", "count", "done"}]
    <3>1. CASE proc # "closing" /\ Len(queue) < QueueSize
      <4>1. queue' = Append(queue, offer) /\ stats' = stats /\ Step(c, "enqueue", "count")
        BY <1>7, <3>1 DEF Enqueue
      <4>2. queue' \in Seq(Requests) /\ Len(queue') =< QueueSize
        BY <2>1, <3>1, <4>1, ConfigAssumption DEF TypeOK, ConfigAssumption
      <4> QED
        BY <4>1, <4>2 DEF Step, TypeOK
    <3>2. CASE ~(proc # "closing" /\ Len(queue) < QueueSize)
      <4>1. queue' = queue /\ stats' = [stats EXCEPT !.dropped = @ + 1] /\ Step(c, "enqueue", "done")
        BY <1>7, <3>2 DEF Enqueue
      <4>2. stats' \in Counters
        BY <4>1 DEF TypeOK, Counters
      <4> QED
        BY <4>1, <4>2 DEF Step, TypeOK
    <3> QED
      BY <3>1, <3>2
  <2> QED
    BY <1>7, <2>1, <2>2 DEF Enqueue, TypeOK, Shape, Inside, procVars, Running, HandlersReturned
<1>8. CASE CountQueued(c)
  <2>1. stats' \in Counters
    <3>1. stats' = [stats EXCEPT !.queued = @ + 1] /\ stats \in Counters
      BY <1>8 DEF CountQueued, TypeOK
    <3> QED
      BY ONLY <3>1 DEF Counters
  <2> QED
    BY <1>8, <2>1 DEF TypeOK, Shape, Inside, CountQueued, Step, procVars, Running, HandlersReturned
<1> QED
  BY <1>1, <1>2, <1>3, <1>4, <1>5, <1>6, <1>7, <1>8 DEF Handler

\* The writer goroutine.
LEMMA TypeWriter ==
    ASSUME ConfigAssumption, TypeInv, Writer
    PROVE  TypeInv'
<1> USE DEF TypeInv
<1>1. CASE Take
  <2>1. Head(queue) \in Requests /\ Tail(queue) \in Seq(Requests) /\ Len(Tail(queue)) =< QueueSize
    BY <1>1, ConfigAssumption DEF Take, TypeOK, ConfigAssumption
  <2> QED
    BY <1>1, <2>1 DEF Take, TypeOK, Shape, Inside, procVars, connVars, HandlersReturned
<1>2. CASE Commit
  <2>1. inflight \in Requests
    BY <1>2 DEF Commit, TypeOK
  <2> DEFINE e == [path |-> inflight.path, at |-> inflight.at \div TicksPerMs]
  <2>2. e \in Entry /\ inflight.target \in Targets
    BY <2>1, ConfigAssumption DEF Requests, Entry, ConfigAssumption
  <2>3. Put(db, cap, inflight.target, e) \in PolicyMaps
    BY <2>2, PutLemma DEF TypeOK
  <2>4. stats' \in Counters
    <3>1. stats' = [stats EXCEPT !.written = @ + 1] /\ stats \in Counters
      BY <1>2 DEF Commit, TypeOK
    <3> QED
      BY ONLY <3>1 DEF Counters
  <2> QED
    BY <1>2, <2>3, <2>4 DEF Commit, TypeOK, Shape, Inside, procVars, connVars, HandlersReturned
<1>3. CASE WriteError
  <2>1. stats' = [stats EXCEPT !.errors = @ + 1] /\ stats \in Counters
    BY <1>3 DEF WriteError, TypeOK
  <2>2. stats' \in Counters
    BY <2>1 DEF Counters
  <2> QED
    BY <1>3, <2>2 DEF WriteError, TypeOK, Shape, Inside, procVars, connVars, HandlersReturned
<1> QED
  BY <1>1, <1>2, <1>3 DEF Writer

\* The process, the operator and the clock.
LEMMA TypeProcess ==
    ASSUME ConfigAssumption, TypeInv, Process \/ ClearPolicies \/ Tick
    PROVE  TypeInv'
<1> USE DEF TypeInv
<1>1. ASSUME NEW n \in Capacities, Start(n) PROVE TypeInv'
  <2>1. LoadedIndex \in PolicyMaps
    BY LoadedLemma, ConfigAssumption DEF TypeOK
  <2>2. ZeroCounters \in Counters
    BY DEF ZeroCounters, Counters
  <2>3. HandlersReturned
    BY <1>1 DEF Start, Shape, Running
  <2> QED
    BY <1>1, <2>1, <2>2, <2>3 DEF Start, TypeOK, Shape, Inside, connVars, Running, HandlersReturned
<1>2. CASE Interrupt
  BY <1>2 DEF Interrupt, TypeOK, Shape, Inside, writerVars, connVars, Running, HandlersReturned
<1>3. CASE CloseWriter
  BY <1>3 DEF CloseWriter, TypeOK, Shape, Inside, writerVars, connVars, Running, HandlersReturned
<1>4. EmptyMap \in PolicyMaps
  BY DEF EmptyMap, PolicyMaps
<1>5. CASE CloseDone
  BY <1>4, <1>5 DEF CloseDone, TypeOK, Shape, Inside, writerVars, connVars, Running, HandlersReturned
<1>6. CASE Die
  <2>1. queue' \in Seq(Requests) /\ Len(queue') =< QueueSize
    BY <1>6, ConfigAssumption DEF Die, ConfigAssumption
  <2> QED
    BY <1>4, <1>6, <2>1 DEF Die, TypeOK, Shape, Inside, Running, HandlersReturned
<1>7. CASE ClearPolicies
  BY <1>4, <1>7 DEF ClearPolicies, TypeOK, Shape, Inside, procVars, writerVars, connVars,
                    HandlersReturned
<1>8. CASE Tick
  BY <1>8 DEF Tick, TypeOK, Shape, Inside, procVars, writerVars, connVars, HandlersReturned
<1> QED
  BY <1>1, <1>2, <1>3, <1>5, <1>6, <1>7, <1>8 DEF Process

LEMMA TypeStutter == ASSUME TypeInv, UNCHANGED vars PROVE TypeInv'
BY DEF TypeInv, TypeOK, Shape, Inside, vars, procVars, writerVars, connVars, HandlersReturned

LEMMA TypeInvariant == Spec => []TypeInv
<1>1. Init => TypeInv
  BY TypeInit, ConfigAssumption
<1>2. TypeInv /\ [Next]_vars => TypeInv'
  BY TypeHandler, TypeWriter, TypeProcess, TypeStutter, ConfigAssumption DEF Next
<1> QED
  BY <1>1, <1>2, PTL DEF Spec

\* Every variable keeps its type: the queue never exceeds its capacity and a
\* handler that dials, observes or enqueues always has its target and winner.
THEOREM TypeCorrect == Spec => []TypeOK
BY TypeInvariant, PTL DEF TypeInv

(***************************************************************************)
(* Only earned paths are remembered.                                       *)
(***************************************************************************)

\* A handler's winner is set once, by PathReady, so what was earned stays so.
Unwon == \A c \in Conns : pc[c] \in {"new", "accepted", "dialing"} => winner[c] = NoPath

EarnedInv == Unwon /\ NeverInvented

LEMMA EarnedGrows ==
    ASSUME TypeInv, Unwon, Next
    PROVE  /\ Unwon'
           /\ \A t \in Targets, p \in Paths : <<t, p>> \in Earned => <<t, p>> \in Earned'
<1> NoPath \notin Paths
  BY DEF Paths, Direct, Proxy, NoPath
<1> USE DEF Earned, Unwon, TypeInv, TypeOK
<1>1. ASSUME NEW c \in Conns, NEW t \in Targets, Accept(c, t) PROVE
        /\ Unwon' /\ dest' = [dest EXCEPT ![c] = t] /\ winner' = winner /\ winner[c] = NoPath
  BY <1>1 DEF Accept, Step
<1>2. ASSUME NEW c \in Conns, NEW p \in Paths, PathReady(c, p) PROVE
        /\ Unwon' /\ winner' = [winner EXCEPT ![c] = p] /\ dest' = dest /\ winner[c] = NoPath
  BY <1>2 DEF PathReady, Step
<1>3. ASSUME NEW c \in Conns, Handler(c), ~\E p \in Paths : PathReady(c, p)
      PROVE  Unwon' /\ dest' = dest /\ winner' = winner
  BY <1>3 DEF Handler, FixedPath, PathFailed, DialCanceled, Remember, Enqueue, CountQueued, Step
<1>4. ASSUME Writer \/ Process \/ ClearPolicies \/ Tick
      PROVE  Unwon' /\ dest' = dest /\ winner' = winner
  BY <1>4 DEF Writer, Take, Commit, WriteError, Process, Start, Interrupt, CloseWriter, CloseDone, Die,
              ClearPolicies, Tick, connVars
<1> QED
  BY <1>1, <1>2, <1>3, <1>4 DEF Next

\* Nothing but Remember and Start writes the index, Commit and ClearPolicies
\* the table; each entry they store was in offer, queue or the other map.
LEMMA NeverInventedNext ==
    ASSUME ConfigAssumption, TypeInv, EarnedInv, Next
    PROVE  NeverInvented'
<1> DEFINE Kept(t, p) == <<t, p>> \in Earned'
<1>1. \A t \in Targets, p \in Paths : <<t, p>> \in Earned => Kept(t, p)
  BY EarnedGrows DEF EarnedInv
<1>2. /\ \A k \in Keys(index) : index[k].path \in Paths /\ Kept(k, index[k].path)
      /\ \A k \in Keys(db) : db[k].path \in Paths /\ Kept(k, db[k].path)
      /\ \A i \in DOMAIN queue : queue[i] \in Requests /\ Kept(queue[i].target, queue[i].path)
      /\ \A r \in {inflight, offer} \ {NoRequest} : r \in Requests /\ Kept(r.target, r.path)
  <2>1. \A k \in Keys(index) : k \in Targets /\ index[k].path \in Paths
    BY KeysLemma DEF TypeInv, TypeOK, Keys
  <2>2. \A k \in Keys(db) : k \in Targets /\ db[k].path \in Paths
    BY KeysLemma DEF TypeInv, TypeOK, Keys
  <2>3. \A i \in DOMAIN queue : queue[i] \in Requests
    BY DEF TypeInv, TypeOK
  <2>4. \A r \in {inflight, offer} \ {NoRequest} : r \in Requests
    BY DEF TypeInv, TypeOK
  <2>5. \A r \in Requests : r.target \in Targets /\ r.path \in Paths
    BY DEF Requests
  <2> QED
    BY <1>1, <2>1, <2>2, <2>3, <2>4, <2>5 DEF EarnedInv, NeverInvented
<1> DEFINE IndexOK == \A k \in Keys(index') : Kept(k, index'[k].path)
           TableOK == \A k \in Keys(db') : Kept(k, db'[k].path)
           QueueOK == \A i \in DOMAIN queue' : Kept(queue'[i].target, queue'[i].path)
           HandsOK == \A r \in {inflight', offer'} \ {NoRequest} : Kept(r.target, r.path)
<1>3. SUFFICES IndexOK /\ TableOK /\ QueueOK /\ HandsOK
  BY DEF NeverInvented, Keys
<1> HIDE DEF Kept
<1>4. ASSUME UNCHANGED <<index, db, queue, inflight, offer>>
      PROVE  IndexOK /\ TableOK /\ QueueOK /\ HandsOK
  BY <1>2, <1>4 DEF Keys
<1>5. ASSUME NEW c \in Conns, Remember(c) PROVE IndexOK /\ TableOK /\ QueueOK /\ HandsOK
  <2> DEFINE e == [path |-> winner[c], at |-> now]
  <2>1. /\ dest[c] \in Targets /\ winner[c] \in Paths /\ e \in Entry
        /\ UNCHANGED <<db, queue, inflight>>
    BY <1>5 DEF TypeInv, TypeOK, Remember, Entry, writerVars
  <2>2. Kept(dest[c], winner[c])
    <3>1. <<dest[c], winner[c]>> \in Earned
      BY DEF Earned
    <3> QED
      BY <1>1, <2>1, <3>1
  <2>3. CASE index' = index /\ offer' = offer
    BY <1>4, <2>1, <2>3
  <2>4. CASE /\ index' = Put(index, cap, dest[c], e)
             /\ offer' = [target |-> dest[c], path |-> winner[c], at |-> now]
    <3>1. /\ index'[dest[c]] = e
          /\ \A k \in Targets \ {dest[c]} : index'[k] \in {index[k], NoEntry}
      BY <2>1, <2>4, PutLemma DEF TypeInv, TypeOK
    <3>2. IndexOK
      BY <1>2, <2>2, <3>1 DEF Keys
    <3> QED
      BY <1>2, <2>1, <2>2, <2>4, <3>2 DEF Keys
  <2> QED
    BY <1>5, <2>3, <2>4 DEF Remember
<1>6. ASSUME NEW c \in Conns, Enqueue(c) PROVE IndexOK /\ TableOK /\ QueueOK /\ HandsOK
  <2>1. offer \in Requests /\ offer # NoRequest
    <3>1. offer \in Requests
      BY <1>6 DEF Enqueue, Step, TypeInv, Shape
    <3>2. NoRequest.path \notin Paths /\ \A r \in Requests : r.path \in Paths
      BY DEF NoRequest, NoPath, Paths, Direct, Proxy, Requests
    <3> QED
      BY <3>1, <3>2
  <2>2. UNCHANGED <<index, db, inflight>> /\ offer' = NoRequest
    BY <1>6 DEF Enqueue, procVars
  <2>3. queue' = queue \/ queue' = Append(queue, offer)
    BY <1>6 DEF Enqueue
  <2>4. QueueOK
    BY <1>2, <2>1, <2>3 DEF TypeInv, TypeOK
  <2> QED
    BY <1>2, <2>2, <2>4 DEF Keys
<1>7. CASE Take
  <2>1. /\ inflight' = Head(queue) /\ queue' = Tail(queue) /\ queue # <<>>
        /\ UNCHANGED <<index, db, offer>>
    BY <1>7 DEF Take, procVars
  <2>2. Head(queue) = queue[1] /\ 1 \in DOMAIN queue
    BY <2>1 DEF TypeInv, TypeOK
  <2>3. \A i \in DOMAIN queue' : i + 1 \in DOMAIN queue /\ queue'[i] = queue[i + 1]
    BY <2>1 DEF TypeInv, TypeOK
  <2> QED
    BY <1>2, <2>1, <2>2, <2>3 DEF Keys
<1>8. CASE Commit
  <2> DEFINE e == [path |-> inflight.path, at |-> inflight.at \div TicksPerMs]
  <2>1. /\ inflight \in Requests /\ inflight # NoRequest /\ inflight' = NoRequest
        /\ db' = Put(db, cap, inflight.target, e)
        /\ UNCHANGED <<index, queue, offer>>
    BY <1>8 DEF Commit, TypeInv, TypeOK, procVars
  <2>2. e \in Entry /\ inflight.target \in Targets
    BY <2>1, ConfigAssumption DEF Requests, Entry, ConfigAssumption
  <2>3. /\ db'[inflight.target] = e
        /\ \A k \in Targets \ {inflight.target} : db'[k] \in {db[k], NoEntry}
    BY <2>1, <2>2, PutLemma DEF TypeInv, TypeOK
  <2>4. TableOK
    BY <1>2, <2>1, <2>3 DEF Keys
  <2> QED
    BY <1>2, <2>1, <2>4 DEF Keys
<1>9. ASSUME NEW n \in Capacities, Start(n) PROVE IndexOK /\ TableOK /\ QueueOK /\ HandsOK
  <2>1. UNCHANGED <<db, queue, inflight, offer>> /\ index' \in {index, LoadedIndex}
    BY <1>9 DEF Start
  <2>2. IndexOK
    <3>1. CASE index' = LoadedIndex
      <4>1. index' \in PolicyMaps /\ \A k \in Targets : index'[k].path = db[k].path
        BY <3>1, LoadedLemma, ConfigAssumption DEF TypeInv, TypeOK
      <4>2. \A k \in Keys(index') : k \in Targets /\ index'[k].path \in Paths
        BY <4>1, KeysLemma DEF Keys
      <4>3. \A k \in Keys(index') : k \in Keys(db) /\ index'[k].path = db[k].path
        BY <4>1, <4>2, KeysLemma DEF TypeInv, TypeOK
      <4> QED
        BY <1>2, <4>3
    <3> QED
      BY <1>2, <2>1, <3>1 DEF Keys
  <2> QED
    BY <1>2, <2>1, <2>2 DEF Keys
<1>10. ASSUME index' \in {index, EmptyMap}, db' \in {db, EmptyMap}, queue' \in {queue, <<>>},
              inflight' \in {inflight, NoRequest}, offer' \in {offer, NoRequest}
       PROVE  IndexOK /\ TableOK /\ QueueOK /\ HandsOK
  <2>1. IndexOK /\ TableOK
    BY <1>2, <1>10 DEF Keys, EmptyMap
  <2>2. QueueOK
    BY <1>2, <1>10
  <2> QED
    BY <1>2, <1>10, <2>1, <2>2
<1>11. CASE WriteError \/ Interrupt \/ CloseWriter \/ CloseDone \/ Die \/ ClearPolicies \/ Tick
  BY <1>10, <1>11 DEF WriteError, Interrupt, CloseWriter, CloseDone, Die, ClearPolicies, Tick,
                      procVars, writerVars
<1>12. ASSUME NEW c \in Conns,
              \/ \E t \in Targets : Accept(c, t)
              \/ FixedPath(c) \/ DialCanceled(c) \/ CountQueued(c)
              \/ \E p \in Paths : PathReady(c, p) \/ PathFailed(c, p)
       PROVE  UNCHANGED <<index, db, queue, inflight, offer>>
  BY <1>12 DEF Accept, FixedPath, DialCanceled, CountQueued, PathReady, PathFailed, writerVars, procVars
<1> QED
  BY <1>4, <1>5, <1>6, <1>7, <1>8, <1>9, <1>11, <1>12 DEF Next, Handler, Writer, Process

LEMMA EarnedInit == ASSUME Init PROVE EarnedInv
BY DEF Init, EarnedInv, Unwon, NeverInvented, Keys, EmptyMap

LEMMA EarnedStutter == ASSUME EarnedInv, UNCHANGED vars PROVE EarnedInv'
BY DEF EarnedInv, Unwon, NeverInvented, Earned, Keys, vars, writerVars, connVars

\* Nothing invents a choice: through evictions, reloads, clears, crashes, lost
\* writes and any interleaving of handlers, the paths in the index, the queue,
\* the writer's hands and the table are paths that reached TLS readiness.
THEOREM RememberedIsEarned == Spec => []NeverInvented
<1>1. Init => EarnedInv
  BY EarnedInit
<1>2. TypeInv /\ EarnedInv /\ [Next]_vars => EarnedInv'
  <2>1. ASSUME TypeInv, EarnedInv, Next PROVE EarnedInv'
    BY <2>1, EarnedGrows, NeverInventedNext, ConfigAssumption DEF EarnedInv
  <2> QED
    BY <2>1, EarnedStutter
<1> QED
  BY <1>1, <1>2, TypeInvariant, PTL DEF Spec, EarnedInv

(***************************************************************************)
(* Disk is behind memory only by requests that are on their way.           *)
(***************************************************************************)

\* NoStalePath at one target, as seen by the steps below.
Settled(k) ==
    /\ offer.target = k => offer.path = index[k].path
    /\ offer.target # k =>
          /\ \A i \in DOMAIN queue :
                queue[i].target = k /\ LastInQueue(i) => queue[i].path = index[k].path
          /\ ~InQueue(k) =>
                /\ inflight.target = k => inflight.path = index[k].path
                /\ inflight.target # k /\ k \in Keys(db) => db[k].path = index[k].path

LEMMA StaleByTarget == NoStalePath <=> (proc \in Running /\ NoLoss => \A k \in Keys(index) : Settled(k))
BY DEF NoStalePath, Settled

\* Outside Enqueue nothing is on offer.
LEMMA NoOffer ==
    ASSUME TypeInv, \A c \in Conns : pc[c] # "enqueue"
    PROVE  offer = NoRequest /\ offer.target \notin Targets
BY TargetsAssumption DEF TypeInv, Shape, NoRequest, NoTarget

\* The request of a handler about to enqueue becomes the newest in the queue.
LEMMA SettledEnqueue ==
    ASSUME ConfigAssumption, TypeInv, NEW c \in Conns, Enqueue(c), NoLoss', NEW k \in Targets, Settled(k)
    PROVE  Settled(k)'
<1>1. /\ offer \in Requests /\ offer' = NoRequest /\ offer'.target # k
      /\ UNCHANGED <<index, inflight, db>>
  BY TargetsAssumption DEF Enqueue, Step, TypeInv, Shape, NoRequest, NoTarget, procVars
<1>2. queue' = Append(queue, offer) /\ queue \in Seq(Requests)
  <2>1. ASSUME stats' = [stats EXCEPT !.dropped = @ + 1] PROVE FALSE
    <3>1. stats'.dropped = stats.dropped + 1 /\ stats.dropped \in Nat
      BY <2>1 DEF TypeInv, TypeOK, Counters
    <3> QED
      BY <3>1 DEF NoLoss
  <2> QED
    BY <2>1 DEF Enqueue, TypeInv, TypeOK
<1>3. /\ DOMAIN queue = 1..Len(queue) /\ DOMAIN queue' = 1..(Len(queue) + 1) /\ Len(queue) \in Nat
      /\ \A i \in DOMAIN queue : queue'[i] = queue[i]
      /\ queue'[Len(queue) + 1] = offer
  BY <1>1, <1>2
<1>4. CASE offer.target = k
  <2>1. ASSUME NEW i \in DOMAIN queue', queue'[i].target = k, LastInQueue(i)'
        PROVE  i = Len(queue) + 1
    BY <1>3, <1>4, <2>1 DEF LastInQueue
  <2>2. InQueue(k)'
    BY <1>3, <1>4 DEF InQueue
  <2> QED
    BY <1>1, <1>3, <1>4, <2>1, <2>2 DEF Settled
<1>5. CASE offer.target # k
  <2>1. ASSUME NEW i \in DOMAIN queue', queue'[i].target = k, LastInQueue(i)'
        PROVE  i \in DOMAIN queue /\ queue[i].target = k /\ LastInQueue(i)
    BY <1>3, <1>5, <2>1 DEF LastInQueue
  <2>2. InQueue(k) => InQueue(k)'
    BY <1>3 DEF InQueue
  <2> QED
    BY <1>1, <1>3, <1>5, <2>1, <2>2 DEF Settled, Keys
<1> QED
  BY <1>4, <1>5

\* What the writer takes was the oldest request, so it is the newest for its
\* target only when no other one is queued.
LEMMA SettledTake ==
    ASSUME TypeInv, Take, NEW k \in Targets, Settled(k)
    PROVE  Settled(k)'
<1>1. /\ inflight' = Head(queue) /\ queue' = Tail(queue) /\ queue # <<>> /\ queue \in Seq(Requests)
      /\ UNCHANGED <<index, offer, db>> /\ inflight.target # k
  BY TargetsAssumption DEF Take, TypeInv, TypeOK, NoRequest, NoTarget, procVars
<1>2. /\ DOMAIN queue = 1..Len(queue) /\ Len(queue) \in Nat \ {0}
      /\ DOMAIN queue' = 1..(Len(queue) - 1)
      /\ \A i \in DOMAIN queue' : queue'[i] = queue[i + 1]
      /\ inflight' = queue[1]
  BY <1>1
<1>3. ASSUME NEW i \in DOMAIN queue', LastInQueue(i)' PROVE LastInQueue(i + 1)
  <2>1. ASSUME NEW j \in DOMAIN queue, j > i + 1 PROVE queue[j].target # queue[i + 1].target
    <3>1. j - 1 \in DOMAIN queue' /\ j - 1 > i
      BY <1>2, <2>1
    <3> QED
      BY <1>2, <1>3, <3>1 DEF LastInQueue
  <2> QED
    BY <2>1 DEF LastInQueue
<1>4. ASSUME ~InQueue(k)', NEW i \in DOMAIN queue, queue[i].target = k PROVE i = 1
  <2>1. CASE i # 1
    <3>1. i - 1 \in DOMAIN queue' /\ queue'[i - 1] = queue[i]
      BY <1>2, <2>1
    <3> QED
      BY <1>4, <3>1 DEF InQueue
  <2> QED
    BY <2>1
<1>5. CASE offer.target = k
  BY <1>1, <1>5 DEF Settled
<1>6. CASE offer.target # k
  <2>1. \A i \in DOMAIN queue' : queue'[i].target = k /\ LastInQueue(i)' => queue'[i].path = index[k].path
    <3> SUFFICES ASSUME NEW i \in DOMAIN queue', queue'[i].target = k, LastInQueue(i)'
                 PROVE  queue'[i].path = index[k].path
      OBVIOUS
    <3> i + 1 \in DOMAIN queue /\ LastInQueue(i + 1)
      BY <1>2, <1>3
    <3> QED
      BY <1>2, <1>6 DEF Settled
  <2>2. ASSUME ~InQueue(k)', inflight'.target = k PROVE inflight'.path = index[k].path
    <3>1. LastInQueue(1) /\ 1 \in DOMAIN queue
      BY <1>2, <1>4, <2>2 DEF LastInQueue
    <3> QED
      BY <1>2, <1>6, <2>2, <3>1 DEF Settled
  <2>3. ASSUME ~InQueue(k)', inflight'.target # k PROVE ~InQueue(k)
    BY <1>2, <1>4, <2>3 DEF InQueue
  <2> QED
    BY <1>1, <1>6, <2>1, <2>2, <2>3 DEF Settled, Keys
<1> QED
  BY <1>5, <1>6

LEMMA SettledCommit ==
    ASSUME ConfigAssumption, TypeInv, Commit, NEW k \in Targets, Settled(k)
    PROVE  Settled(k)'
<1> DEFINE e == [path |-> inflight.path, at |-> inflight.at \div TicksPerMs]
<1>1. /\ inflight \in Requests /\ inflight' = NoRequest /\ inflight'.target # k
      /\ db' = Put(db, cap, inflight.target, e)
      /\ UNCHANGED <<index, queue, offer>>
  BY TargetsAssumption DEF Commit, TypeInv, TypeOK, NoRequest, NoTarget, procVars
<1>2. e \in Entry /\ inflight.target \in Targets /\ e.path = inflight.path
  BY <1>1, ConfigAssumption DEF Requests, Entry, ConfigAssumption
<1>3. /\ db'[inflight.target] = e
      /\ \A o \in Targets \ {inflight.target} : db'[o] \in {db[o], NoEntry}
  BY <1>1, <1>2, PutLemma DEF TypeInv, TypeOK
<1>4. InQueue(k)' = InQueue(k) /\ \A i \in DOMAIN queue : LastInQueue(i)' = LastInQueue(i)
  BY <1>1 DEF InQueue, LastInQueue
<1>5. ASSUME offer.target # k, ~InQueue(k), k \in Keys(db)' PROVE db'[k].path = index[k].path
  BY <1>2, <1>3, <1>5 DEF Settled, Keys
<1> QED
  BY <1>1, <1>4, <1>5 DEF Settled

\* Remember changes the index and the offer together, at one target.
LEMMA StaleRemember ==
    ASSUME TypeInv, NoStalePath, NEW c \in Conns, Remember(c), NoLoss
    PROVE  \A k \in Keys(index)' : Settled(k)'
<1> DEFINE e == [path |-> winner[c], at |-> now]
<1>1. /\ dest[c] \in Targets /\ winner[c] \in Paths /\ e \in Entry /\ proc \in Running
      /\ UNCHANGED <<db, queue, inflight>>
  BY DEF TypeInv, TypeOK, Shape, HandlersReturned, Running, Remember, Entry, writerVars
<1>2. offer = NoRequest /\ offer.target \notin Targets
  BY NoOffer DEF Remember, LockFree
<1>3. \A k \in Keys(index) : Settled(k)
  BY <1>1, StaleByTarget
<1>4. CASE UNCHANGED <<index, offer>>
  BY <1>1, <1>3, <1>4 DEF Settled, InQueue, LastInQueue, Keys
<1>5. CASE /\ index' = Put(index, cap, dest[c], e)
           /\ offer' = [target |-> dest[c], path |-> winner[c], at |-> now]
  <2>1. /\ index'[dest[c]] = e
        /\ \A k \in Targets \ {dest[c]} : index'[k] \in {index[k], NoEntry}
    BY <1>1, <1>5, PutLemma DEF TypeInv, TypeOK
  <2>2. ASSUME NEW k \in Keys(index)', k = dest[c] PROVE Settled(k)'
    BY <1>5, <2>1, <2>2 DEF Settled
  <2>3. ASSUME NEW k \in Keys(index)', k # dest[c] PROVE Settled(k)'
    <3>1. k \in Keys(index) /\ index'[k] = index[k] /\ offer.target # k /\ offer'.target # k
      BY <1>2, <1>5, <2>1, <2>3 DEF Keys
    <3> QED
      BY <1>1, <1>3, <3>1 DEF Settled, InQueue, LastInQueue, Keys
  <2> QED
    BY <2>2, <2>3
<1> QED
  BY <1>4, <1>5 DEF Remember

LEMMA StaleStart ==
    ASSUME ConfigAssumption, TypeInv, NEW n \in Capacities, Start(n), proc' \in Running
    PROVE  \A k \in Keys(index)' : Settled(k)'
<1>1. /\ index' = LoadedIndex /\ queue' = <<>> /\ inflight' = NoRequest /\ offer' = NoRequest
      /\ db' = db
  <2>1. HandlersReturned /\ queue = <<>> /\ inflight = NoRequest
    BY DEF Start, TypeInv, Shape, Running
  <2>2. offer = NoRequest
    BY <2>1, NoOffer DEF HandlersReturned
  <2> QED
    BY <2>1, <2>2 DEF Start, Running
<1>2. \A k \in Targets : index'[k].path = db'[k].path
  BY <1>1, LoadedLemma, ConfigAssumption DEF TypeInv, TypeOK
<1> QED
  BY <1>1, <1>2, TargetsAssumption DEF Settled, Keys, NoRequest, NoTarget

LEMMA NoStaleNext ==
    ASSUME ConfigAssumption, TypeInv, NoStalePath, Next
    PROVE  NoStalePath'
<1>1. SUFFICES ASSUME proc' \in Running, NoLoss', NEW k \in Targets, k \in Keys(index)'
               PROVE  Settled(k)'
  BY DEF NoStalePath, Settled, Keys
<1>2. proc \in Running /\ NoLoss => \A t \in Keys(index) : Settled(t)
  BY StaleByTarget
<1>3. ASSUME NEW n \in Capacities, Start(n) PROVE Settled(k)'
  BY <1>1, <1>3, StaleStart, ConfigAssumption
<1>4. ASSUME NEW c \in Conns, Remember(c) PROVE Settled(k)'
  <2>1. NoLoss
    BY <1>1, <1>4 DEF Remember, NoLoss, writerVars
  <2> QED
    BY <1>1, <1>4, <2>1, StaleRemember
<1>5. ASSUME NEW c \in Conns, Enqueue(c) PROVE Settled(k)'
  <2>1. proc \in Running /\ index' = index
    BY <1>1, <1>5 DEF Enqueue, procVars
  <2>2. NoLoss
    <3>1. stats \in Counters
      BY DEF TypeInv, TypeOK
    <3>2. stats' = stats \/ stats' = [stats EXCEPT !.dropped = @ + 1]
      BY <1>5 DEF Enqueue
    <3>3. stats'.errors = stats.errors /\ stats'.dropped \in {stats.dropped, stats.dropped + 1}
      BY <3>1, <3>2 DEF Counters
    <3>4. stats.dropped \in Nat
      BY <3>1 DEF Counters
    <3> QED
      BY <1>1, <3>3, <3>4 DEF NoLoss
  <2>3. Settled(k)
    BY <1>1, <1>2, <2>1, <2>2 DEF Keys
  <2> QED
    BY <1>1, <1>5, <2>3, SettledEnqueue, ConfigAssumption
<1>6. CASE Take
  <2>1. Settled(k)
    BY <1>1, <1>2, <1>6 DEF Take, NoLoss, Keys
  <2> QED
    BY <1>6, <2>1, SettledTake
<1>7. CASE Commit
  <2>1. stats'.dropped = stats.dropped /\ stats'.errors = stats.errors
    <3>1. stats' = [stats EXCEPT !.written = @ + 1] /\ stats \in Counters
      BY <1>7 DEF Commit, TypeInv, TypeOK
    <3> QED
      BY <3>1 DEF Counters
  <2>2. Settled(k)
    BY <1>1, <1>2, <1>7, <2>1 DEF Commit, NoLoss, Keys
  <2> QED
    BY <1>7, <2>2, SettledCommit, ConfigAssumption
<1>8. CASE WriteError
  <2>1. stats' = [stats EXCEPT !.errors = @ + 1] /\ stats \in Counters
    BY <1>8 DEF WriteError, TypeInv, TypeOK
  <2>2. stats'.errors = stats.errors + 1 /\ stats.errors \in Nat
    BY <2>1 DEF Counters
  <2> QED
    BY <1>1, <2>2 DEF NoLoss
<1>9. CASE CloseDone \/ Die
  BY <1>1, <1>9 DEF CloseDone, Die, Running
<1>10. CASE ClearPolicies
  <2>1. Settled(k) /\ UNCHANGED <<index, queue, inflight, offer>> /\ Keys(db)' = {}
    BY <1>1, <1>2, <1>10 DEF ClearPolicies, procVars, writerVars, NoLoss, Keys, EmptyMap
  <2> QED
    BY <2>1 DEF Settled, InQueue, LastInQueue
<1>11. ASSUME UNCHANGED <<index, db, queue, inflight, offer>>, NoLoss' = NoLoss, proc \in Running
       PROVE  Settled(k)'
  <2>1. Settled(k)
    BY <1>1, <1>2, <1>11 DEF Keys
  <2> QED
    BY <1>11, <2>1 DEF Settled, InQueue, LastInQueue, Keys
<1>12. CASE Interrupt \/ CloseWriter \/ Tick
  BY <1>1, <1>11, <1>12 DEF Interrupt, CloseWriter, Tick, procVars, writerVars, NoLoss, Running
<1>13. ASSUME NEW c \in Conns, CountQueued(c) PROVE Settled(k)'
  <2>1. stats' = [stats EXCEPT !.queued = @ + 1] /\ stats \in Counters
    BY <1>13 DEF CountQueued, TypeInv, TypeOK
  <2>2. NoLoss' = NoLoss
    BY <2>1 DEF Counters, NoLoss
  <2> QED
    BY <1>1, <1>11, <1>13, <2>2 DEF CountQueued, procVars
<1>14. ASSUME NEW c \in Conns,
              \/ \E t \in Targets : Accept(c, t)
              \/ FixedPath(c) \/ DialCanceled(c)
              \/ \E p \in Paths : PathReady(c, p) \/ PathFailed(c, p)
       PROVE  Settled(k)'
  BY <1>1, <1>11, <1>14 DEF Accept, FixedPath, DialCanceled, PathReady, PathFailed, writerVars, procVars,
                            NoLoss
<1> QED
  BY <1>3, <1>4, <1>5, <1>6, <1>7, <1>8, <1>9, <1>10, <1>12, <1>13, <1>14
     DEF Next, Handler, Writer, Process

LEMMA NoStaleStutter == ASSUME NoStalePath, UNCHANGED vars PROVE NoStalePath'
BY DEF NoStalePath, NoLoss, InQueue, LastInQueue, Keys, vars, procVars, writerVars

\* While no write is lost, the table of a running process is behind its index
\* only by requests on their way, newest last: what a crash or a clean stop
\* leaves for a target was never overtaken unnoticed.
THEOREM DiskNeverOvertaken == Spec => []NoStalePath
<1>1. Init => NoStalePath
  BY DEF Init, NoStalePath, Running
<1>2. TypeInv /\ NoStalePath /\ [Next]_vars => NoStalePath'
  BY NoStaleNext, NoStaleStutter, ConfigAssumption
<1> QED
  BY <1>1, <1>2, TypeInvariant, PTL DEF Spec

(***************************************************************************)
(* Neither copy outgrows max_entries.                                      *)
(***************************************************************************)

\* A set of numbers that is not empty has a least element.
LEMMA LeastNumber ==
    ASSUME NEW S, S \subseteq Nat, S # {}
    PROVE  \E x \in S : \A y \in S : x =< y
<1>1. PICK x \in S : \A y \in S : <<y, x>> \notin OpToRel(<, Nat)
  BY WFMin, NatLessThanWellFounded
<1>2. \A y \in S : y \in Nat /\ x \in Nat /\ ~(y < x)
  BY <1>1 DEF OpToRel
<1> QED
  BY <1>2

\* The loop of Remember and the ORDER BY of the statement name one entry, and
\* it is an entry: ages may tie, keys do not.
LEMMA OldestLemma ==
    ASSUME NEW m \in PolicyMaps, Keys(m) # {}
    PROVE  /\ Oldest(m) \in Keys(m)
           /\ \A o \in Keys(m) \ {Oldest(m)} : Older(m, Oldest(m), o)
<1>1. Keys(m) \subseteq Nat /\ \A k \in Keys(m) : m[k].at \in Nat
  BY KeysLemma, TargetsAssumption DEF Keys
<1> DEFINE Ages == {m[k].at : k \in Keys(m)}
<1>2. PICK age \in Ages : \A a \in Ages : age =< a
  <2>1. Ages \subseteq Nat /\ Ages # {}
    BY <1>1
  <2> QED
    BY <2>1, LeastNumber
<1> DEFINE Eldest == {k \in Keys(m) : m[k].at = age}
<1>3. PICK k \in Eldest : \A o \in Eldest : k =< o
  <2>1. Eldest \subseteq Nat /\ Eldest # {}
    BY <1>1, <1>2
  <2> HIDE DEF Eldest
  <2> QED
    BY <2>1, LeastNumber
<1>4. ASSUME NEW o \in Keys(m) \ {k} PROVE Older(m, k, o)
  <2>1. m[o].at \in Ages /\ age =< m[o].at /\ m[k].at = age /\ age \in Nat /\ m[o].at \in Nat
    BY <1>1, <1>2, <1>3
  <2>2. CASE m[o].at = age
    <3>1. o \in Eldest /\ k =< o /\ k \in Nat /\ o \in Nat
      BY <1>1, <1>3, <2>2
    <3> QED
      BY <2>1, <2>2, <3>1 DEF Older
  <2>3. CASE m[o].at # age
    BY <2>1, <2>3 DEF Older
  <2> QED
    BY <2>2, <2>3
<1>5. \E x \in Keys(m) : \A o \in Keys(m) \ {x} : Older(m, x, o)
  BY <1>3, <1>4
<1> QED
  BY <1>5 DEF Oldest

\* One entry goes when a new one comes at capacity, so Put keeps the bound.
LEMMA PutKeepsBound ==
    ASSUME NEW m \in PolicyMaps, NEW n \in Nat \ {0}, NEW t \in Targets, NEW e \in Entry,
           IsFiniteSet(Keys(m)), Cardinality(Keys(m)) =< n
    PROVE  /\ IsFiniteSet(Keys(Put(m, n, t, e)))
           /\ Cardinality(Keys(Put(m, n, t, e))) =< n
<1> DEFINE V == Victims(m, n, t)
<1>1. Keys(Put(m, n, t, e)) = (Keys(m) \ V) \cup {t}
  <2>1. \A k \in Targets : Put(m, n, t, e)[k] = IF k = t THEN e ELSE IF k \in V THEN NoEntry ELSE m[k]
    BY DEF Put
  <2>2. e # NoEntry
    BY KeysLemma
  <2> HIDE DEF V
  <2> QED
    BY <2>1, <2>2 DEF Keys
<1>2. Cardinality(Keys(m)) \in Nat
  BY FS_CardinalityType
<1>3. CASE t \in Keys(m)
  <2>1. Keys(Put(m, n, t, e)) = Keys(m)
    BY <1>1, <1>3 DEF Victims
  <2> QED
    BY <2>1
<1>4. CASE t \notin Keys(m) /\ Cardinality(Keys(m)) < n
  <2>1. Keys(Put(m, n, t, e)) = Keys(m) \cup {t}
    BY <1>1, <1>2, <1>4 DEF Victims
  <2>2. Cardinality(Keys(m) \cup {t}) = Cardinality(Keys(m)) + 1 /\ IsFiniteSet(Keys(m) \cup {t})
    BY <1>4, FS_AddElement
  <2> QED
    BY <1>2, <1>4, <2>1, <2>2
<1>5. CASE t \notin Keys(m) /\ Cardinality(Keys(m)) = n
  <2>1. V = {Oldest(m)} /\ Oldest(m) \in Keys(m)
    <3>1. Keys(m) # {}
      BY <1>5, FS_EmptySet
    <3> QED
      BY <1>5, <3>1, OldestLemma DEF Victims
  <2> DEFINE R == Keys(m) \ {Oldest(m)}
  <2>2. IsFiniteSet(R) /\ Cardinality(R) = n - 1
    BY <1>5, <2>1, FS_RemoveElement
  <2>3. IsFiniteSet(R \cup {t}) /\ Cardinality(R \cup {t}) = Cardinality(R) + 1
    BY <1>5, <2>2, FS_AddElement
  <2> QED
    BY <1>1, <2>1, <2>2, <2>3
<1> QED
  BY <1>2, <1>3, <1>4, <1>5

\* CapacityHeld says nothing of a process that does not run, where the table
\* may be larger than the next max_entries; but it is always finite.
CapacityInv == IsFiniteSet(Keys(index)) /\ IsFiniteSet(Keys(db)) /\ CapacityHeld

LEMMA EmptyKeys == Keys(EmptyMap) = {} /\ IsFiniteSet({}) /\ Cardinality({}) = 0
BY FS_EmptySet DEF Keys, EmptyMap

LEMMA CapacityNext ==
    ASSUME ConfigAssumption, TypeInv, CapacityInv, Next
    PROVE  CapacityInv'
<1> cap \in Nat \ {0} /\ index \in PolicyMaps /\ db \in PolicyMaps
  BY DEF TypeInv, TypeOK, ConfigAssumption
<1>1. ASSUME NEW n \in Capacities, Start(n) PROVE CapacityInv'
  <2>1. CASE Cardinality(Keys(db)) > n
    BY <1>1, <2>1 DEF Start, CapacityInv, CapacityHeld, Running, Keys
  <2>2. CASE ~(Cardinality(Keys(db)) > n)
    <3>1. Keys(LoadedIndex) = Keys(db)
      BY LoadedLemma, KeysLemma, ConfigAssumption DEF Keys
    <3>2. Cardinality(Keys(db)) =< n /\ cap' = n /\ index' = LoadedIndex /\ db' = db
      <4>1. Cardinality(Keys(db)) \in Nat /\ n \in Nat
        BY FS_CardinalityType DEF CapacityInv, ConfigAssumption
      <4> QED
        BY <1>1, <2>2, <4>1 DEF Start
    <3> QED
      BY <3>1, <3>2 DEF CapacityInv, CapacityHeld, Keys
  <2> QED
    BY <2>1, <2>2
<1>2. ASSUME NEW c \in Conns, Remember(c) PROVE CapacityInv'
  <2> DEFINE e == [path |-> winner[c], at |-> now]
  <2>1. /\ dest[c] \in Targets /\ e \in Entry /\ proc \in Running
        /\ UNCHANGED <<proc, cap, db>> /\ index' \in {index, Put(index, cap, dest[c], e)}
    BY <1>2 DEF TypeInv, TypeOK, Shape, HandlersReturned, Running, Remember, Entry, procVars
  <2>2. IsFiniteSet(Keys(index')) /\ Cardinality(Keys(index')) =< cap
    BY <2>1, PutKeepsBound DEF CapacityInv, CapacityHeld
  <2> QED
    BY <2>1, <2>2 DEF CapacityInv, CapacityHeld, Keys
<1>3. CASE Commit
  <2> DEFINE e == [path |-> inflight.path, at |-> inflight.at \div TicksPerMs]
  <2>1. /\ inflight \in Requests /\ db' = Put(db, cap, inflight.target, e) /\ proc \in Running
        /\ UNCHANGED <<proc, cap, index>>
    BY <1>3 DEF Commit, TypeInv, TypeOK, procVars
  <2>2. e \in Entry /\ inflight.target \in Targets
    BY <2>1 DEF Requests, Entry, ConfigAssumption
  <2>3. IsFiniteSet(Keys(db')) /\ Cardinality(Keys(db')) =< cap
    BY <2>1, <2>2, PutKeepsBound DEF CapacityInv, CapacityHeld
  <2> QED
    BY <2>1, <2>3 DEF CapacityInv, CapacityHeld, Keys
<1>4. ASSUME UNCHANGED <<index, db, cap>>, proc' \in Running => proc \in Running PROVE CapacityInv'
  BY <1>4 DEF CapacityInv, CapacityHeld, Keys
<1>5. CASE Take \/ WriteError \/ Interrupt \/ CloseWriter \/ Tick
  BY <1>4, <1>5 DEF Take, WriteError, Interrupt, CloseWriter, Tick, procVars, Running
<1>6. CASE CloseDone \/ Die
  BY <1>6, EmptyKeys DEF CloseDone, Die, CapacityInv, CapacityHeld, Running, Keys
<1>7. CASE ClearPolicies
  <2>1. db' = EmptyMap /\ UNCHANGED <<proc, cap, index>>
    BY <1>7 DEF ClearPolicies, procVars
  <2> QED
    BY <2>1, EmptyKeys DEF CapacityInv, CapacityHeld, Keys
<1>8. ASSUME NEW c \in Conns,
             \/ \E t \in Targets : Accept(c, t)
             \/ FixedPath(c) \/ DialCanceled(c) \/ Enqueue(c) \/ CountQueued(c)
             \/ \E p \in Paths : PathReady(c, p) \/ PathFailed(c, p)
      PROVE  CapacityInv'
  BY <1>4, <1>8 DEF Accept, FixedPath, DialCanceled, Enqueue, CountQueued, PathReady, PathFailed, procVars
<1> QED
  BY <1>1, <1>2, <1>3, <1>5, <1>6, <1>7, <1>8 DEF Next, Handler, Writer, Process

\* Whatever max_entries the process is started with, its index and the table
\* hold at most as many targets, although each evicts on its own and the limit
\* may be lowered between two starts.
THEOREM CapacityRespected == Spec => []CapacityHeld
<1>1. Init => CapacityInv
  BY EmptyKeys DEF Init, CapacityInv, CapacityHeld, Running
<1>2. TypeInv /\ CapacityInv /\ [Next]_vars => CapacityInv'
  <2>1. ASSUME CapacityInv, UNCHANGED vars PROVE CapacityInv'
    BY <2>1 DEF CapacityInv, CapacityHeld, Keys, vars, procVars
  <2> QED
    BY <2>1, CapacityNext, ConfigAssumption
<1> QED
  BY <1>1, <1>2, TypeInvariant, PTL DEF Spec, CapacityInv

(***************************************************************************)
(* The counters of the writer add up.                                      *)
(***************************************************************************)

\* e.mu is held over Enqueue, so at most one request is yet to be counted,
\* however many connections there are.
Uncounted == IF \E c \in Conns : pc[c] = "count" THEN 1 ELSE 0
Held      == IF inflight = NoRequest THEN 0 ELSE 1

\* WriteAccounting without Cardinality.
Balance == proc \in Running =>
    stats.queued + Uncounted = stats.written + stats.errors + Len(queue) + Held

LEMMA OneUncounted == ASSUME TypeInv PROVE Cardinality(Counting) = Uncounted
<1>1. CASE \E c \in Conns : pc[c] = "count"
  <2>1. PICK c \in Conns : pc[c] = "count"
    BY <1>1
  <2>2. Counting = {c}
    BY <2>1 DEF TypeInv, Shape, Inside, Counting
  <2> QED
    BY <1>1, <2>2, FS_Singleton DEF Uncounted
<1>2. CASE ~\E c \in Conns : pc[c] = "count"
  <2>1. Counting = {}
    BY <1>2 DEF Counting
  <2> QED
    BY <1>2, <2>1, FS_EmptySet DEF Uncounted
<1> QED
  BY <1>1, <1>2

\* What each step does to the two sides of the balance.
LEMMA BalanceNext ==
    ASSUME ConfigAssumption, TypeInv, Balance, Next
    PROVE  Balance'
<1>0. /\ stats \in Counters /\ stats.queued \in Nat /\ stats.written \in Nat /\ stats.errors \in Nat
      /\ queue \in Seq(Requests) /\ Len(queue) \in Nat
      /\ pc \in [Conns -> {"new", "accepted", "dialing", "ready", "enqueue", "count", "done"}]
      /\ NoRequest \notin Requests
      /\ Uncounted \in {0, 1} /\ Held \in {0, 1}
  <2>1. stats \in Counters /\ queue \in Seq(Requests)
    BY DEF TypeInv, TypeOK
  <2> QED
    BY <2>1, TargetsAssumption DEF TypeInv, TypeOK, Counters, NoRequest, NoTarget, Requests,
                                 Uncounted, Held
<1>n. /\ stats.queued \in Nat /\ stats.written \in Nat /\ stats.errors \in Nat
      /\ Len(queue) \in Nat /\ Uncounted \in Nat /\ Held \in Nat
  BY <1>0
<1>b. proc \in Running =>
          /\ stats.queued + Uncounted = stats.written + stats.errors + Len(queue) + Held
          /\ Uncounted = 0 => stats.queued + 1 = stats.written + stats.errors + (Len(queue) + 1) + Held
          /\ Uncounted = 1 => (stats.queued + 1) + 0 = stats.written + stats.errors + Len(queue) + Held
          /\ Held = 1 => stats.queued + Uncounted = (stats.written + 1) + stats.errors + Len(queue) + 0
          /\ Held = 1 => stats.queued + Uncounted = stats.written + (stats.errors + 1) + Len(queue) + 0
  <2>1. proc \in Running => stats.queued + Uncounted = stats.written + stats.errors + Len(queue) + Held
    BY Zenon DEF Balance
  <2> DEFINE q == stats.queued
             w == stats.written
             e == stats.errors
             l == Len(queue)
             u == Uncounted
             x == Held
  <2>2. /\ q \in Nat /\ u \in Nat /\ w \in Nat /\ e \in Nat /\ l \in Nat /\ x \in Nat
        /\ proc \in Running => q + u = w + e + l + x
    BY <1>n, <2>1
  <2> HIDE DEF q, w, e, l, u, x
  <2>3. proc \in Running =>
          /\ q + u = w + e + l + x
          /\ u = 0 => q + 1 = w + e + (l + 1) + x
          /\ u = 1 => (q + 1) + 0 = w + e + l + x
          /\ x = 1 => q + u = (w + 1) + e + l + 0
          /\ x = 1 => q + u = w + (e + 1) + l + 0
    BY ONLY <2>2
  <2> QED
    BY ONLY <2>3 DEF q, w, e, l, u, x
<1>1. ASSUME NEW n \in Capacities, Start(n) PROVE Balance'
  <2>1. queue' = <<>> /\ inflight' = NoRequest /\ \A c \in Conns : pc'[c] # "count"
    BY <1>1 DEF Start, TypeInv, Shape, HandlersReturned, Running, connVars
  <2>2. proc' \in Running => stats' = ZeroCounters
    BY <1>1 DEF Start, Running
  <2>3. Uncounted' = 0 /\ Held' = 0 /\ Len(queue') = 0
    BY <2>1 DEF Uncounted, Held
  <2> QED
    BY <2>2, <2>3 DEF Balance, ZeroCounters
<1>2. ASSUME NEW c \in Conns, Enqueue(c) PROVE Balance'
  <2>1. pc[c] = "enqueue" /\ (\A d \in Conns : pc[d] # "count") /\ Held' = Held /\ proc' = proc
    BY <1>2 DEF Enqueue, Step, TypeInv, Shape, Inside, Held, procVars
  <2>2. CASE Step(c, "enqueue", "count") /\ queue' = Append(queue, offer) /\ stats' = stats
    <3>1. Uncounted = 0 /\ Uncounted' = 1
      BY <1>0, <2>1, <2>2 DEF Step, Uncounted
    <3>2. Len(queue') = Len(queue) + 1
      BY <1>0, <2>2
    <3>3. stats' = stats
      BY <2>2
    <3> QED
      BY ONLY <1>b, <2>1, <3>1, <3>2, <3>3, Zenon DEF Balance
  <2>3. CASE /\ Step(c, "enqueue", "done") /\ queue' = queue
             /\ stats' = [stats EXCEPT !.dropped = @ + 1]
    <3>1. Uncounted = 0 /\ Uncounted' = 0
      BY <1>0, <2>1, <2>3 DEF Step, Uncounted
    <3>2. stats'.queued = stats.queued /\ stats'.written = stats.written /\ stats'.errors = stats.errors
      BY <1>0, <2>3 DEF Counters
    <3> QED
      BY <2>1, <2>3, <3>1, <3>2 DEF Balance
  <2> QED
    BY <1>2, <2>2, <2>3 DEF Enqueue
<1>3. ASSUME NEW c \in Conns, CountQueued(c) PROVE Balance'
  <2>1. /\ pc[c] = "count" /\ pc' = [pc EXCEPT ![c] = "done"]
        /\ \A d \in Conns \ {c} : pc[d] # "count"
        /\ UNCHANGED <<proc, queue, inflight>>
    BY <1>3 DEF CountQueued, Step, TypeInv, Shape, Inside, procVars
  <2>2. Uncounted = 1 /\ Uncounted' = 0 /\ Held' = Held
    BY <1>0, <2>1 DEF Uncounted, Held
  <2>3. /\ stats'.queued = stats.queued + 1
        /\ stats'.written = stats.written /\ stats'.errors = stats.errors
    BY <1>0, <1>3 DEF CountQueued, Counters
  <2> QED
    BY <1>0, <2>1, <2>2, <2>3 DEF Balance, Held
<1>4. CASE Take
  <2>1. Len(queue') = Len(queue) - 1 /\ Held = 0 /\ Held' = 1 /\ Uncounted' = Uncounted
    BY <1>0, <1>4 DEF Take, Held, Uncounted, connVars
  <2> QED
    BY <1>0, <1>4, <2>1 DEF Take, Balance, procVars
<1>5. CASE Commit
  <2>1. stats' = [stats EXCEPT !.written = @ + 1] /\ Held = 1 /\ Held' = 0 /\ Uncounted' = Uncounted
    BY <1>5 DEF Commit, Held, Uncounted, connVars
  <2>2. /\ stats'.queued = stats.queued /\ stats'.written = stats.written + 1
        /\ stats'.errors = stats.errors
    BY <1>0, <2>1 DEF Counters
  <2>3. UNCHANGED <<proc, queue>>
    BY <1>5 DEF Commit, procVars
  <2> QED
    BY ONLY <1>b, <2>1, <2>2, <2>3, Zenon DEF Balance
<1>6. CASE WriteError
  <2>1. stats' = [stats EXCEPT !.errors = @ + 1] /\ Held = 1 /\ Held' = 0 /\ Uncounted' = Uncounted
    BY <1>6 DEF WriteError, Held, Uncounted, connVars
  <2>2. /\ stats'.queued = stats.queued /\ stats'.written = stats.written
        /\ stats'.errors = stats.errors + 1
    BY <1>0, <2>1 DEF Counters
  <2>3. UNCHANGED <<proc, queue>>
    BY <1>6 DEF WriteError, procVars
  <2> QED
    BY ONLY <1>b, <2>1, <2>2, <2>3, Zenon DEF Balance
<1>7. ASSUME UNCHANGED <<stats, queue, inflight>>, proc' \in Running => proc \in Running,
             (\E c \in Conns : pc'[c] = "count") <=> (\E c \in Conns : pc[c] = "count")
      PROVE  Balance'
  BY <1>7 DEF Balance, Uncounted, Held
<1>8. CASE Interrupt \/ CloseWriter \/ ClearPolicies \/ Tick
  BY <1>7, <1>8 DEF Interrupt, CloseWriter, ClearPolicies, Tick, procVars, writerVars, connVars, Running
<1>9. CASE CloseDone \/ Die
  BY <1>9 DEF CloseDone, Die, Balance, Running
<1>10. ASSUME NEW c \in Conns,
              \/ \E t \in Targets : Accept(c, t)
              \/ FixedPath(c) \/ DialCanceled(c) \/ Remember(c)
              \/ \E p \in Paths : PathReady(c, p) \/ PathFailed(c, p)
       PROVE  Balance'
  <2>1. /\ UNCHANGED <<stats, queue, inflight, proc>> /\ pc[c] # "count"
        /\ \E to \in {"accepted", "dialing", "ready", "done", "enqueue"} : pc' = [pc EXCEPT ![c] = to]
    BY <1>10 DEF Accept, FixedPath, DialCanceled, PathReady, PathFailed, Remember, Step, procVars, writerVars
  <2>2. (\E d \in Conns : pc'[d] = "count") <=> (\E d \in Conns : pc[d] = "count")
    BY <1>0, <2>1
  <2> QED
    BY <1>7, <2>1, <2>2
<1> QED
  BY <1>1, <1>2, <1>3, <1>4, <1>5, <1>6, <1>8, <1>9, <1>10 DEF Next, Handler, Writer, Process

LEMMA BalanceInvariant == Spec => []Balance
<1>1. Init => Balance
  BY DEF Init, Balance, Running
<1>2. TypeInv /\ Balance /\ [Next]_vars => Balance'
  <2>1. ASSUME Balance, UNCHANGED vars PROVE Balance'
    BY <2>1 DEF Balance, Uncounted, Held, vars, procVars, writerVars, connVars
  <2> QED
    BY <2>1, BalanceNext, ConfigAssumption
<1> QED
  BY <1>1, <1>2, TypeInvariant, PTL DEF Spec

\* The shutdown line adds up at every instant of every interleaving: what was
\* counted as queued was written, failed, or is still on its way.
THEOREM CountersAddUp == Spec => []WriteAccounting
<1>1. TypeInv /\ Balance => WriteAccounting
  BY OneUncounted DEF Balance, Held, WriteAccounting
<1> QED
  BY <1>1, TypeInvariant, BalanceInvariant, PTL

(***************************************************************************)
(* A flip has a cause.                                                     *)
(***************************************************************************)

\* What a handler that was told of a mapping knows: its winner is that path
\* unless it saw it fail, and it tried that path first.
CauseInv ==
    \A c \in Conns :
        /\ pc[c] \in {"new", "accepted"} => failed[c] = {}
        /\ fixed[c] # NoPath /\ failed[c] # {} => fixed[c] \in failed[c]
        /\ pc[c] = "ready" => winner[c] = fixed[c] \/ fixed[c] = NoPath \/ fixed[c] \in failed[c]

LEMMA CauseNext == ASSUME TypeInv, CauseInv, Next PROVE CauseInv'
<1> USE DEF CauseInv, TypeInv, TypeOK
<1>1. ASSUME NEW c \in Conns, NEW t \in Targets, Accept(c, t) PROVE CauseInv'
  BY <1>1 DEF Accept, Step
<1>2. ASSUME NEW c \in Conns, FixedPath(c) PROVE CauseInv'
  BY <1>2 DEF FixedPath, Step
<1>3. ASSUME NEW c \in Conns, NEW p \in Paths, PathReady(c, p) PROVE CauseInv'
  BY <1>3 DEF PathReady, Candidates, Step
<1>4. ASSUME NEW c \in Conns, NEW p \in Paths, PathFailed(c, p) PROVE CauseInv'
  BY <1>4 DEF PathFailed, Candidates, Step
<1>5. ASSUME NEW c \in Conns, DialCanceled(c) \/ Remember(c) \/ Enqueue(c) \/ CountQueued(c)
      PROVE  CauseInv'
  <2>1. /\ UNCHANGED <<fixed, failed, winner>>
        /\ \E to \in {"enqueue", "count", "done"} : pc' = [pc EXCEPT ![c] = to]
    BY <1>5 DEF DialCanceled, Remember, Enqueue, CountQueued, Step
  <2> QED
    BY <2>1
<1>6. CASE Writer \/ Process \/ ClearPolicies \/ Tick
  <2>1. /\ UNCHANGED <<fixed, failed, winner>>
        /\ pc' = pc \/ pc' = [c \in Conns |-> IF pc[c] = "new" THEN "new" ELSE "done"]
    BY <1>6 DEF Writer, Take, Commit, WriteError, Process, Start, Interrupt, CloseWriter, CloseDone, Die,
                ClearPolicies, Tick, connVars
  <2> QED
    BY <2>1
<1> QED
  BY <1>1, <1>2, <1>3, <1>4, <1>5, <1>6 DEF Next, Handler

LEMMA CauseInvariant == Spec => []CauseInv
<1>1. Init => CauseInv
  BY DEF Init, CauseInv
<1>2. TypeInv /\ CauseInv /\ [Next]_vars => CauseInv'
  <2>1. ASSUME CauseInv, UNCHANGED vars PROVE CauseInv'
    BY <2>1 DEF CauseInv, vars, connVars
  <2> QED
    BY <2>1, CauseNext
<1> QED
  BY <1>1, <1>2, TypeInvariant, PTL DEF Spec

\* Only Remember replaces one path by the other: eviction, reload and the end
\* of the process remove paths or work on no running process.
LEMMA FlipIsRemember ==
    ASSUME TypeInv, Next, NEW k \in Targets, proc \in Running, {index[k].path, index'[k].path} = Paths
    PROVE  \E c \in Conns : /\ pc[c] = "ready" /\ pc'[c] = "enqueue" /\ dest[c] = k
                            /\ index'[k].path = winner[c]
<1>1. index \in PolicyMaps /\ Direct # Proxy /\ NoPath \notin Paths /\ Paths = {Direct, Proxy}
  BY DEF TypeInv, TypeOK, Paths, Direct, Proxy, NoPath
<1>2. index' # index /\ index' # EmptyMap
  <2>1. EmptyMap[k].path = NoPath
    BY DEF EmptyMap, NoEntry
  <2> QED
    BY <1>1, <2>1
<1>3. PICK c \in Conns : Remember(c)
  BY <1>2 DEF Next, Handler, Accept, FixedPath, PathReady, PathFailed, DialCanceled, Enqueue, CountQueued,
              Writer, Take, Commit, WriteError, Process, Start, Interrupt, CloseWriter, CloseDone, Die,
              ClearPolicies, Tick
<1> DEFINE e == [path |-> winner[c], at |-> now]
<1>4. /\ pc[c] = "ready" /\ dest[c] \in Targets /\ winner[c] \in Paths /\ e \in Entry
      /\ pc' = [pc EXCEPT ![c] = "enqueue"] /\ index' = Put(index, cap, dest[c], e)
  BY <1>2, <1>3 DEF Remember, Step, TypeInv, TypeOK, Entry
<1>5. pc'[c] = "enqueue"
  BY <1>4 DEF TypeInv, TypeOK
<1>6. /\ index'[dest[c]] = e
      /\ \A o \in Targets \ {dest[c]} : index'[o] \in {index[o], NoEntry}
  BY <1>1, <1>4, PutLemma
<1>7. dest[c] = k
  <2>1. NoEntry.path = NoPath
    BY DEF NoEntry
  <2> QED
    BY <1>1, <1>6, <2>1
<1> QED
  BY <1>4, <1>5, <1>6, <1>7

\* A remembered path is replaced only by a connection that saw it fail, or that
\* chose its candidates without having been told of it.
THEOREM FlipsHaveCauses == Spec => FlipHasCause
<1> DEFINE Flips == \A k \in Targets :
                      proc \in Running /\ {index[k].path, index'[k].path} = Paths =>
                          \E c \in Conns :
                              /\ pc[c] = "ready" /\ pc'[c] = "enqueue" /\ dest[c] = k
                              /\ index[k].path \in failed[c] \/ fixed[c] # index[k].path
<1>1. TypeInv /\ CauseInv /\ [Next]_vars => [Flips]_vars
  <2>1. SUFFICES ASSUME TypeInv, CauseInv, Next, NEW k \in Targets, proc \in Running,
                        {index[k].path, index'[k].path} = Paths
                 PROVE  \E c \in Conns :
                              /\ pc[c] = "ready" /\ pc'[c] = "enqueue" /\ dest[c] = k
                              /\ index[k].path \in failed[c] \/ fixed[c] # index[k].path
    OBVIOUS
  <2>2. index[k].path \in Paths /\ index'[k].path # index[k].path /\ NoPath \notin Paths
    BY <2>1 DEF Paths, Direct, Proxy, NoPath
  <2>3. PICK c \in Conns : /\ pc[c] = "ready" /\ pc'[c] = "enqueue" /\ dest[c] = k
                           /\ index'[k].path = winner[c]
    BY <2>1, FlipIsRemember
  <2> QED
    BY <2>1, <2>2, <2>3 DEF CauseInv
<1> QED
  BY <1>1, TypeInvariant, CauseInvariant, PTL DEF Spec, FlipHasCause

(***************************************************************************)
(* A clean stop is complete.                                               *)
(***************************************************************************)

\* The handlers have returned before the queue is closed, so a request is
\* dropped for want of room alone; and when run returns nothing is on its way.
THEOREM CleanStops == Spec => CleanStopIsComplete
<1> DEFINE Complete ==
      /\ DropOnlyWhenFull
      /\ proc = "closing" /\ proc' = "stopped" =>
            /\ stats.queued = stats.written + stats.errors
            /\ NoLoss => \A k \in Keys(index) \cap Keys(db) : db[k].path = index[k].path
<1>1. TypeInv /\ Balance /\ NoStalePath /\ Next => Complete
  <2> SUFFICES ASSUME TypeInv, Balance, NoStalePath, Next PROVE Complete
    OBVIOUS
  <2>0. /\ stats \in Counters /\ stats.queued \in Nat /\ stats.written \in Nat
        /\ stats.dropped \in Nat /\ stats.errors \in Nat
    BY DEF TypeInv, TypeOK, Counters
  <2>1. ASSUME stats'.dropped > stats.dropped PROVE Len(queue) = QueueSize
    <3>1. PICK c \in Conns : Enqueue(c) /\ stats' = [stats EXCEPT !.dropped = @ + 1]
      <4>1. ASSUME NEW n \in Capacities, Start(n) PROVE FALSE
        BY <2>0, <2>1, <4>1 DEF Start, ZeroCounters
      <4>2. ASSUME stats' = stats \/ \E f \in {"queued", "written", "errors"} : stats' = [stats EXCEPT ![f] = @ + 1]
            PROVE  FALSE
        BY <2>0, <2>1, <4>2 DEF Counters
      <4>3. CASE \E c \in Conns : CountQueued(c)
        BY <4>2, <4>3 DEF CountQueued
      <4>4. CASE Commit \/ WriteError
        BY <4>2, <4>4 DEF Commit, WriteError
      <4>5. ASSUME NEW c \in Conns,
                   \/ \E t \in Targets : Accept(c, t)
                   \/ FixedPath(c) \/ DialCanceled(c) \/ Remember(c)
                   \/ \E p \in Paths : PathReady(c, p) \/ PathFailed(c, p)
            PROVE  stats' = stats
        BY <4>5 DEF Accept, FixedPath, DialCanceled, PathReady, PathFailed, Remember, writerVars
      <4>6. CASE Take \/ Interrupt \/ CloseWriter \/ CloseDone \/ Die \/ ClearPolicies \/ Tick
        BY <4>2, <4>6 DEF Take, Interrupt, CloseWriter, CloseDone, Die, ClearPolicies, Tick, writerVars
      <4>7. PICK c \in Conns : Enqueue(c)
        BY <4>1, <4>2, <4>3, <4>4, <4>5, <4>6 DEF Next, Handler, Writer, Process
      <4> QED
        BY <4>2, <4>7 DEF Enqueue
    <3>2. proc # "closing" /\ Len(queue) \in Nat /\ Len(queue) =< QueueSize
      BY <3>1 DEF Enqueue, Step, TypeInv, TypeOK, Shape, HandlersReturned
    <3>3. ~(proc # "closing" /\ Len(queue) < QueueSize)
      <4>1. stats' # stats
        BY <2>0, <2>1
      <4> QED
        BY <3>1, <4>1 DEF Enqueue
    <3> QED
      BY <3>2, <3>3, ConfigAssumption DEF ConfigAssumption
  <2>2. ASSUME proc = "closing", proc' = "stopped"
        PROVE  /\ stats.queued = stats.written + stats.errors
               /\ NoLoss => \A k \in Keys(index) \cap Keys(db) : db[k].path = index[k].path
    <3>1. queue = <<>> /\ inflight = NoRequest
      BY <2>2 DEF Next, Handler, Accept, FixedPath, PathReady, PathFailed, DialCanceled, Remember, Enqueue,
                  CountQueued, Writer, Take, Commit, WriteError, Process, Start, Interrupt, CloseWriter,
                  CloseDone, Die, ClearPolicies, Tick, procVars
    <3>2. proc \in Running /\ \A c \in Conns : pc[c] \in {"new", "done"}
      BY <2>2 DEF TypeInv, Shape, HandlersReturned, Running
    <3>3. Uncounted = 0 /\ Held = 0 /\ Len(queue) = 0
      BY <3>1, <3>2 DEF Uncounted, Held
    <3>4. stats.queued = stats.written + stats.errors
      BY <2>0, <3>2, <3>3 DEF Balance
    <3>5. offer = NoRequest
      BY <3>2, NoOffer
    <3>6. ASSUME NoLoss, NEW k \in Keys(index) \cap Keys(db) PROVE db[k].path = index[k].path
      <4>1. Settled(k) /\ k \in Targets
        BY <3>2, <3>6, StaleByTarget DEF Keys
      <4>2. offer.target # k /\ inflight.target # k
        BY <3>1, <3>5, <4>1, TargetsAssumption DEF NoRequest, NoTarget
      <4>3. ~InQueue(k)
        BY <3>1 DEF InQueue
      <4> QED
        BY <3>6, <4>1, <4>2, <4>3 DEF Settled
    <3> QED
      BY <3>4, <3>6
  <2> QED
    BY <2>1, <2>2 DEF DropOnlyWhenFull
<1>2. TypeInv /\ Balance /\ NoStalePath /\ [Next]_vars => [Complete]_vars
  BY <1>1
<1> QED
  BY <1>2, TypeInvariant, BalanceInvariant, DiskNeverOvertaken, PTL DEF Spec, CleanStopIsComplete

(***************************************************************************)
(* Replaying the pending writes.                                           *)
(***************************************************************************)
Stored(r) == [path |-> r.path, at |-> r.at]

\* The map that the requests p, written one after the other, make of m.
After(m, n, p) == FoldLeft(LAMBDA q, r : Put(q, n, r.target, [path |-> r.path, at |-> r.at]), m, p)

\* R lists the maps on the way there.
Replays(R, m, n, p) ==
    /\ R[0] = m
    /\ \A k \in 1 .. Len(p) : R[k] = Put(R[k - 1], n, p[k].target, Stored(p[k]))

\* The fold is defined by recursion over sets of positions; the equation it
\* is chosen by has a solution, built one position at a time.
Folds(g, m, n, p, N) ==
    g = [s \in SUBSET (1 .. N) |->
           IF s = {} THEN m
           ELSE Put(g[s \ {Max(s)}], n, p[Max(s)].target, Stored(p[Max(s)]))]

LEMMA FoldExists ==
    ASSUME NEW m, NEW n, NEW p, NEW N \in Nat
    PROVE  \E g : Folds(g, m, n, p, N)
<1> DEFINE step(g, s) == Put(g[s \ {Max(s)}], n, p[Max(s)].target, Stored(p[Max(s)]))
           body(g, s) == IF s = {} THEN m ELSE step(g, s)
           Bad == {j \in 0 .. N : ~ \E g : g = [s \in SUBSET (1 .. j) |-> body(g, s)]}
<1>1. Bad = {}
  <2> SUFFICES ASSUME Bad # {} PROVE FALSE  OBVIOUS
  <2>1. PICK j \in Bad : \A i \in Bad : j =< i
    <3>1. Bad \subseteq Nat  OBVIOUS
    <3> HIDE DEF Bad
    <3> QED  BY <3>1, LeastNumber
  <2>2. j \in 0 .. N /\ ~ \E g : g = [s \in SUBSET (1 .. j) |-> body(g, s)]  OBVIOUS
  <2>3. j # 0
    <3> SUFFICES ASSUME j = 0 PROVE FALSE  OBVIOUS
    <3> DEFINE g == [s \in SUBSET (1 .. j) |-> m]
    <3>1. SUBSET (1 .. j) = {{}}  BY DEF body
    <3>2. \A s \in SUBSET (1 .. j) : body(g, s) = m  BY <3>1
    <3>3. g = [s \in SUBSET (1 .. j) |-> body(g, s)]
      <4> HIDE DEF body
      <4> QED  BY <3>2
    <3> QED  BY <2>2, <3>3
  <2>4. PICK g : g = [s \in SUBSET (1 .. j - 1) |-> body(g, s)]
    <3>1. j - 1 \in 0 .. N /\ ~(j =< j - 1)  BY <2>2, <2>3
    <3>2. j - 1 \notin Bad  BY <2>1, <3>1
    <3> QED  BY <3>1, <3>2
  <2> DEFINE h == [s \in SUBSET (1 .. j) |->
                     IF j \in s THEN Put(g[s \ {j}], n, p[j].target, Stored(p[j])) ELSE g[s]]
  <2>5. ASSUME NEW s \in SUBSET (1 .. j) PROVE h[s] = body(h, s)
    <3>1. CASE j \in s
      <4>1. Max(s) = j
        <5>1. j \in s /\ \A y \in s : j >= y  BY <2>2, <3>1
        <5>2. \A x \in s : (\A y \in s : x >= y) => x = j  BY <2>2, <3>1
        <5> HIDE DEF h
        <5> QED  BY <5>1, <5>2 DEF Max
      <4>2. s \ {j} \in SUBSET (1 .. j) /\ j \notin s \ {j}  OBVIOUS
      <4>3. h[s \ {j}] = g[s \ {j}]  BY <4>2
      <4>4. body(h, s) = Put(h[s \ {j}], n, p[j].target, Stored(p[j]))  BY <3>1, <4>1
      <4>5. h[s] = Put(g[s \ {j}], n, p[j].target, Stored(p[j]))  BY <3>1
      <4> QED  BY <4>3, <4>4, <4>5
    <3>2. CASE j \notin s
      <4>1. s \in SUBSET (1 .. j - 1)  BY <2>2, <3>2
      <4>2. h[s] = g[s] /\ g[s] = body(g, s)
        <5>1. h[s] = g[s]  BY <3>2
        <5> HIDE DEF body, h
        <5> QED  BY <2>4, <4>1, <5>1
      <4>3. CASE s = {}  BY <4>2, <4>3
      <4>4. CASE s # {}
        <5>1. Max(s) \notin s \ {Max(s)} /\ j \notin s \ {Max(s)} /\ s \ {Max(s)} \in SUBSET (1 .. j)
              BY <3>2
        <5>2. h[s \ {Max(s)}] = g[s \ {Max(s)}]  BY <5>1
        <5>3. body(g, s) = step(g, s) /\ body(h, s) = step(h, s)  BY <4>4
        <5> HIDE DEF body, h
        <5> QED  BY <4>2, <5>2, <5>3
      <4> QED  BY <4>3, <4>4
    <3> QED  BY <3>1, <3>2
  <2>6. h = [s \in SUBSET (1 .. j) |-> body(h, s)]
    <3>1. h = [s \in SUBSET (1 .. j) |-> h[s]]  OBVIOUS
    <3> HIDE DEF body, h
    <3> QED  BY <2>5, <3>1
  <2> QED
    <3> HIDE DEF body, h
    <3> QED  BY <2>2, <2>6
<1>2. N \in 0 .. N /\ N \notin Bad
  <2>1. N \in 0 .. N  OBVIOUS
  <2> HIDE DEF Bad
  <2> QED  BY <1>1, <2>1
<1>3. \E g : g = [s \in SUBSET (1 .. N) |-> body(g, s)]
  <2> HIDE DEF body
  <2> QED  BY <1>2
<1> QED  BY <1>3 DEF Folds

\* So there is such a list, and it ends with the fold.
LEMMA ReplayExists ==
    ASSUME NEW m, NEW n, NEW p \in Seq(Requests)
    PROVE  \E R : Replays(R, m, n, p) /\ After(m, n, p) = R[Len(p)]
<1> DEFINE N == Len(p)
           body(g, s) == IF s = {} THEN m
                         ELSE Put(g[s \ {Max(s)}], n, p[Max(s)].target, Stored(p[Max(s)]))
           iter == CHOOSE g : g = [s \in SUBSET (DOMAIN p) |-> body(g, s)]
           R == [k \in 0 .. N |-> iter[1 .. k]]
<1>1. N \in Nat /\ DOMAIN p = 1 .. N  OBVIOUS
<1>2. After(m, n, p) = iter[DOMAIN p]
      BY DEF After, FoldLeft, MapThenFoldSet, Stored
<1>3. iter = [s \in SUBSET (1 .. N) |-> body(iter, s)]
  <2>1. \E g : g = [s \in SUBSET (1 .. N) |-> body(g, s)]
    <3>1. N \in Nat  BY <1>1
    <3>2. PICK g : Folds(g, m, n, p, N)
      <4> HIDE DEF N
      <4> QED  BY <3>1, FoldExists
    <3> QED  BY <3>2 DEF Folds
  <2> HIDE DEF body
  <2> QED  BY <1>1, <2>1
<1> HIDE DEF iter
<1>4. ASSUME NEW s \in SUBSET (1 .. N) PROVE iter[s] = body(iter, s)
  <2> HIDE DEF body
  <2> QED  BY <1>3
<1>5. R[0] = m
  <2>1. 1 .. 0 = {} /\ {} \in SUBSET (1 .. N)  OBVIOUS
  <2>2. iter[{}] = m  BY <1>4, <2>1
  <2>3. R[0] = iter[1 .. 0]  BY <1>1
  <2> QED  BY <2>1, <2>2, <2>3
<1>6. ASSUME NEW k \in 1 .. N
      PROVE  R[k] = Put(R[k - 1], n, p[k].target, Stored(p[k]))
  <2>1. k \in Nat /\ k >= 1 /\ k =< N /\ N \in Nat  BY <1>1
  <2>2. 1 .. k \in SUBSET (1 .. N) /\ 1 .. k # {} /\ (1 .. k) \ {k} = 1 .. (k - 1)
    <3> HIDE DEF N
    <3> QED  BY <2>1
  <2>3. Max(1 .. k) = k
    <3>1. k \in 1 .. k /\ \A y \in 1 .. k : k >= y  BY <2>1
    <3>2. \A x \in 1 .. k : (\A y \in 1 .. k : x >= y) => x = k  BY <2>1
    <3> QED  BY <3>1, <3>2 DEF Max
  <2>4. iter[1 .. k] = Put(iter[1 .. (k - 1)], n, p[k].target, Stored(p[k]))
        BY <1>4, <2>2, <2>3
  <2>5. R[k] = iter[1 .. k] /\ R[k - 1] = iter[1 .. (k - 1)]
    <3>1. k \in 0 .. N /\ k - 1 \in 0 .. N
      <4> HIDE DEF N
      <4> QED  BY <2>1
    <3> QED  BY <3>1
  <2> QED  BY <2>4, <2>5
<1>7. R[N] = iter[DOMAIN p]  BY <1>1
<1> QED
  <2> HIDE DEF R, iter
  <2> QED  BY <1>2, <1>5, <1>6, <1>7 DEF Replays

\* And it is the only one.
LEMMA ReplayEnds ==
    ASSUME NEW m, NEW n, NEW p \in Seq(Requests), NEW R, Replays(R, m, n, p)
    PROVE  After(m, n, p) = R[Len(p)]
<1>1. PICK Q : Replays(Q, m, n, p) /\ After(m, n, p) = Q[Len(p)]  BY ReplayExists
<1> DEFINE Bad == {k \in 0 .. Len(p) : R[k] # Q[k]}
<1>2. Bad = {}
  <2> SUFFICES ASSUME Bad # {} PROVE FALSE  OBVIOUS
  <2>1. PICK k \in Bad : \A i \in Bad : k =< i
    <3>1. Bad \subseteq Nat  OBVIOUS
    <3> HIDE DEF Bad
    <3> QED  BY <3>1, LeastNumber
  <2>2. k # 0  BY <1>1 DEF Replays
  <2>3. k \in 1 .. Len(p) /\ k - 1 \in 0 .. Len(p) /\ ~(k =< k - 1)  BY <2>2
  <2>4. k - 1 \notin Bad  BY <2>1, <2>3
  <2>5. R[k - 1] = Q[k - 1]  BY <2>3, <2>4
  <2>6. R[k] = Q[k]
    <3> HIDE DEF Bad
    <3> QED  BY <1>1, <2>3, <2>5 DEF Replays
  <2> QED  BY <2>6
<1>3. Len(p) \in 0 .. Len(p)  OBVIOUS
<1> QED  BY <1>1, <1>2, <1>3

\* Nothing pending, one more request at the end, one fewer at the front.
LEMMA ReplayNothing == ASSUME NEW m, NEW n PROVE After(m, n, <<>>) = m
<1>1. <<>> \in Seq(Requests) /\ Len(<<>>) = 0  OBVIOUS
<1>2. PICK R : Replays(R, m, n, <<>>) /\ After(m, n, <<>>) = R[Len(<<>>)]  BY <1>1, ReplayExists
<1> QED  BY <1>1, <1>2 DEF Replays

LEMMA ReplayOneMore ==
    ASSUME NEW m, NEW n, NEW p \in Seq(Requests), NEW r \in Requests
    PROVE  After(m, n, Append(p, r)) = Put(After(m, n, p), n, r.target, Stored(r))
<1> DEFINE q == Append(p, r)
<1>1. q \in Seq(Requests) /\ Len(q) = Len(p) + 1 /\ Len(p) \in Nat
      /\ q[Len(p) + 1] = r /\ \A k \in 1 .. Len(p) : q[k] = p[k]
      OBVIOUS
<1>2. PICK R : Replays(R, m, n, q) /\ After(m, n, q) = R[Len(q)]  BY <1>1, ReplayExists
<1> HIDE DEF q
<1>3. Replays(R, m, n, p)
  <2>1. \A k \in 1 .. Len(p) : k \in 1 .. Len(q)  BY <1>1
  <2> QED  BY <1>1, <1>2, <2>1 DEF Replays
<1>4. After(m, n, p) = R[Len(p)]  BY <1>3, ReplayEnds
<1>5. R[Len(q)] = Put(R[Len(p)], n, r.target, Stored(r))
  <2>1. Len(q) \in 1 .. Len(q) /\ Len(q) - 1 = Len(p)  BY <1>1
  <2>2. R[Len(q)] = Put(R[Len(q) - 1], n, q[Len(q)].target, Stored(q[Len(q)]))
        BY <1>2, <2>1 DEF Replays
  <2> QED  BY <1>1, <2>1, <2>2
<1> QED  BY <1>2, <1>4, <1>5 DEF q

LEMMA ReplayOneFewer ==
    ASSUME NEW m, NEW n, NEW p \in Seq(Requests), NEW r \in Requests
    PROVE  After(m, n, <<r>> \o p) = After(Put(m, n, r.target, Stored(r)), n, p)
<1> DEFINE q == <<r>> \o p
           m1 == Put(m, n, r.target, Stored(r))
<1>1. q \in Seq(Requests) /\ Len(q) = Len(p) + 1 /\ Len(p) \in Nat
      /\ q[1] = r /\ \A k \in 1 .. Len(p) : q[k + 1] = p[k]
      OBVIOUS
<1>2. PICK R : Replays(R, m, n, q) /\ After(m, n, q) = R[Len(q)]  BY <1>1, ReplayExists
<1> HIDE DEF q
<1> DEFINE Q == [k \in 0 .. Len(p) |-> R[k + 1]]
<1>3. Q[0] = m1
  <2>1. R[1] = Put(R[1 - 1], n, q[1].target, Stored(q[1])) /\ R[0] = m
        BY <1>1, <1>2 DEF Replays
  <2>2. Q[0] = R[1]  BY <1>1
  <2> QED  BY <1>1, <2>1, <2>2
<1>4. ASSUME NEW k \in 1 .. Len(p) PROVE Q[k] = Put(Q[k - 1], n, p[k].target, Stored(p[k]))
  <2>1. k + 1 \in 1 .. Len(q) /\ (k + 1) - 1 = k  BY <1>1
  <2>2. R[k + 1] = Put(R[(k + 1) - 1], n, q[k + 1].target, Stored(q[k + 1]))
        BY <1>2, <2>1 DEF Replays
  <2>3. Q[k] = R[k + 1] /\ Q[k - 1] = R[k]  BY <1>1
  <2>4. q[k + 1] = p[k]  BY <1>1
  <2> HIDE DEF Q
  <2> QED  BY <2>1, <2>2, <2>3, <2>4
<1>5. Q[Len(p)] = R[Len(q)]  BY <1>1
<1> HIDE DEF Q, m1
<1>6. Replays(Q, m1, n, p)  BY <1>3, <1>4 DEF Replays
<1>7. After(m1, n, p) = Q[Len(p)]  BY <1>6, ReplayEnds
<1> QED  BY <1>2, <1>5, <1>7 DEF q, m1

\* A line of requests: one in the writer's hands, the queue, one on offer.
Line(i, q, o) == Maybe(i) \o q \o Maybe(o)

LEMMA LineLemma ==
    ASSUME NEW q \in Seq(Requests), NEW i \in Requests \cup {NoRequest}, NEW o \in Requests \cup {NoRequest}
    PROVE  /\ Line(i, q, o) \in Seq(Requests)
           /\ \A r \in Requests : /\ Append(Line(i, q, NoRequest), r) = Line(i, q, r)
                                  /\ Line(i, Append(q, r), NoRequest) = Line(i, q, r)
           /\ i \in Requests => Line(i, q, o) = <<i>> \o Line(NoRequest, q, o)
           /\ q # <<>> => Line(NoRequest, q, o) = Line(Head(q), Tail(q), o)
           /\ Line(NoRequest, <<>>, NoRequest) = <<>>
<1>1. NoRequest \notin Requests  BY TargetsAssumption DEF Requests, NoRequest, NoTarget
<1>2. /\ Maybe(NoRequest) = <<>>
      /\ \A r \in Requests : Maybe(r) = <<r>>
      BY <1>1 DEF Maybe
<1>3. /\ Maybe(i) \in Seq(Requests) /\ Maybe(o) \in Seq(Requests)
  <2>1. \A r \in Requests : <<r>> \in Seq(Requests)  OBVIOUS
  <2>2. <<>> \in Seq(Requests)  OBVIOUS
  <2> QED  BY <1>2, <2>1, <2>2
<1>4. \A s \in Seq(Requests) : s \o <<>> = s /\ <<>> \o s = s  OBVIOUS
<1>5. \A s, u \in Seq(Requests) : s \o u \in Seq(Requests)  OBVIOUS
<1>6. \A s \in Seq(Requests), r \in Requests : Append(s, r) = s \o <<r>>  OBVIOUS
<1>7. \A s, u, w \in Seq(Requests) : (s \o u) \o w = s \o (u \o w)  OBVIOUS
<1>8. q # <<>> => /\ Head(q) \in Requests /\ Tail(q) \in Seq(Requests)
                  /\ q = <<Head(q)>> \o Tail(q)
      OBVIOUS
<1>9. \A r \in Requests : <<r>> \in Seq(Requests)  OBVIOUS
<1>10. <<>> \in Seq(Requests)  OBVIOUS
<1>11. Line(i, q, o) \in Seq(Requests)  BY <1>3, <1>5 DEF Line
<1>12. ASSUME NEW r \in Requests
       PROVE  /\ Append(Line(i, q, NoRequest), r) = Line(i, q, r)
              /\ Line(i, Append(q, r), NoRequest) = Line(i, q, r)
  <2>1. Line(i, q, NoRequest) = Maybe(i) \o q /\ Maybe(i) \o q \in Seq(Requests)
        BY <1>2, <1>3, <1>4, <1>5 DEF Line
  <2>2. Line(i, q, r) = (Maybe(i) \o q) \o <<r>>  BY <1>2 DEF Line
  <2>3. Append(Line(i, q, NoRequest), r) = Line(i, q, r)  BY <1>6, <2>1, <2>2
  <2>4. Line(i, Append(q, r), NoRequest) = Maybe(i) \o (q \o <<r>>)
    <3>1. q \o <<r>> \in Seq(Requests) /\ Append(q, r) = q \o <<r>>  BY <1>5, <1>6, <1>9
    <3>2. Maybe(i) \o (q \o <<r>>) \in Seq(Requests)  BY <1>3, <1>5, <3>1
    <3> QED  BY <1>2, <1>4, <3>1, <3>2 DEF Line
  <2>5. (Maybe(i) \o q) \o <<r>> = Maybe(i) \o (q \o <<r>>)  BY <1>3, <1>7, <1>9
  <2> QED  BY <2>2, <2>3, <2>4, <2>5
<1>13. ASSUME q # <<>> PROVE Line(NoRequest, q, o) = Line(Head(q), Tail(q), o)
  <2>1. Line(NoRequest, q, o) = q \o Maybe(o)  BY <1>2, <1>4 DEF Line
  <2>2. Line(Head(q), Tail(q), o) = (<<Head(q)>> \o Tail(q)) \o Maybe(o)  BY <1>2, <1>8, <1>13 DEF Line
  <2> QED  BY <1>8, <1>13, <2>1, <2>2
<1>14. Line(NoRequest, <<>>, NoRequest) = <<>>  BY <1>2, <1>4, <1>10 DEF Line
<1>15. ASSUME i \in Requests PROVE Line(i, q, o) = <<i>> \o Line(NoRequest, q, o)
  <2>1. Line(i, q, o) = (<<i>> \o q) \o Maybe(o)  BY <1>2, <1>15 DEF Line
  <2>2. Line(NoRequest, q, o) = q \o Maybe(o)  BY <1>2, <1>4 DEF Line
  <2>3. (<<i>> \o q) \o Maybe(o) = <<i>> \o (q \o Maybe(o))  BY <1>3, <1>7, <1>9, <1>15
  <2> QED  BY <2>1, <2>2, <2>3
<1> QED  BY <1>11, <1>12, <1>13, <1>14, <1>15

LEMMA ReplayedLine == Replayed = After(db, cap, Line(inflight, queue, offer))
BY DEF Replayed, Pending, Line, After

LEMMA ReplayOfLine ==
    /\ ReplayGivesIndex <=>
          (proc \in Running /\ NoLoss => After(db, cap, Line(inflight, queue, offer)) = index)
    /\ ReplayGivesIndex' <=>
          (proc' \in Running /\ NoLoss' => After(db', cap', Line(inflight', queue', offer')) = index')
<1>1. (Replayed = After(db, cap, Line(inflight, queue, offer)))'  BY ReplayedLine, PTL
<1> QED  BY <1>1, ReplayedLine DEF ReplayGivesIndex

\* Every step moves a request along the line, adds one that the index has
\* just taken, or writes the first one to the table as it stands in the line.
LEMMA ReplayStep ==
    ASSUME ConfigAssumption, WideAssumption, TypeInv, ReplayGivesIndex, Next, NoLoss'
    PROVE  ReplayGivesIndex'
<1>1. SUFFICES ASSUME proc' \in Running PROVE After(db', cap', Line(inflight', queue', offer')) = index'
      BY ReplayOfLine
<1>2. /\ queue \in Seq(Requests) /\ inflight \in Requests \cup {NoRequest}
      /\ offer \in Requests \cup {NoRequest} /\ stats \in Counters
      /\ index \in PolicyMaps /\ db \in PolicyMaps
      BY DEF TypeInv, TypeOK
<1>3. /\ stats.queued \in Nat /\ stats.written \in Nat /\ stats.dropped \in Nat /\ stats.errors \in Nat
      BY <1>2 DEF Counters
<1>4. proc \in Running /\ NoLoss => After(db, cap, Line(inflight, queue, offer)) = index
      BY ReplayOfLine
<1> DEFINE line == Line(inflight, queue, offer)
           Goal == After(db', cap', Line(inflight', queue', offer')) = index'
<1>5. ASSUME proc \in Running, NoLoss, UNCHANGED <<cap, index, queue, inflight, db, offer>> PROVE Goal
      BY <1>4, <1>5
<1>6. ASSUME stats' = stats \/ \E f \in {"queued", "written"} : stats' = [stats EXCEPT ![f] = @ + 1]
      PROVE  NoLoss
  <2>1. stats'.dropped = stats.dropped /\ stats'.errors = stats.errors  BY <1>2, <1>6 DEF Counters
  <2> QED  BY <2>1 DEF NoLoss
<1>7. ASSUME NEW f \in {"dropped", "errors"}, stats' = [stats EXCEPT ![f] = @ + 1] PROVE FALSE
  <2>1. f \in DOMAIN stats /\ stats'[f] = stats[f] + 1 /\ stats[f] \in Nat
        BY <1>2, <1>7 DEF Counters
  <2>2. stats'.dropped = 0 /\ stats'.errors = 0  BY DEF NoLoss
  <2> QED  BY <2>1, <2>2
<1>8. ASSUME NEW c \in Conns, pc[c] \notin {"new", "done"} PROVE proc \in Running
      BY <1>8 DEF TypeInv, Shape, HandlersReturned, Running
<1>9. ASSUME NEW c \in Conns, NEW t \in Targets, Accept(c, t) PROVE Goal
      BY <1>5, <1>6, <1>9 DEF Accept, procVars, writerVars, Running
<1>10. ASSUME NEW c \in Conns,
              \/ FixedPath(c) \/ DialCanceled(c) \/ CountQueued(c)
              \/ \E path \in Paths : PathReady(c, path) \/ PathFailed(c, path)
       PROVE  Goal
  <2>1. /\ pc[c] \notin {"new", "done"} /\ UNCHANGED <<cap, index, queue, inflight, db, offer>>
        /\ stats' = stats \/ \E f \in {"queued", "written"} : stats' = [stats EXCEPT ![f] = @ + 1]
        BY <1>10 DEF FixedPath, DialCanceled, CountQueued, PathReady, PathFailed, Step, procVars, writerVars
  <2> QED  BY <1>5, <1>6, <1>8, <2>1
<1>11. ASSUME NEW c \in Conns, Remember(c) PROVE Goal
  <2>1. proc \in Running /\ UNCHANGED <<cap, queue, inflight, db, stats>>
        BY <1>8, <1>11 DEF Remember, procVars, writerVars
  <2>2. NoLoss  BY <1>6, <2>1
  <2>3. CASE UNCHANGED <<index, offer>>  BY <1>5, <2>1, <2>2, <2>3
  <2>4. CASE /\ index' = Put(index, cap, dest[c], [path |-> winner[c], at |-> now])
             /\ offer' = [target |-> dest[c], path |-> winner[c], at |-> now]
    <3>1. offer = NoRequest  BY <1>11, NoOffer DEF Remember, LockFree
    <3>2. dest[c] \in Targets /\ winner[c] \in Paths /\ now \in Nat
          BY <1>11 DEF TypeInv, TypeOK, Remember
    <3>3. offer' \in Requests  BY <2>4, <3>2 DEF Requests
    <3>4. Line(inflight', queue', offer') = Append(line, offer')
      <4>1. Line(inflight, queue, offer') = Append(Line(inflight, queue, NoRequest), offer')
            BY <1>2, <3>3, LineLemma
      <4> QED  BY <2>1, <3>1, <4>1
    <3>5. line \in Seq(Requests)  BY <1>2, LineLemma
    <3>6. After(db, cap, Append(line, offer')) = Put(After(db, cap, line), cap, offer'.target, Stored(offer'))
          BY <3>3, <3>5, ReplayOneMore
    <3>7. offer'.target = dest[c] /\ Stored(offer') = [path |-> winner[c], at |-> now]
          BY <2>4 DEF Stored
    <3>8. After(db, cap, line) = index  BY <1>4, <2>1, <2>2
    <3> HIDE DEF line
    <3> QED  BY <2>1, <2>4, <3>4, <3>6, <3>7, <3>8
  <2> QED  BY <1>11, <2>3, <2>4 DEF Remember
<1>12. ASSUME NEW c \in Conns, Enqueue(c) PROVE Goal
  <2>1. proc \in Running  BY <1>8, <1>12 DEF Enqueue, Step
  <2>2. queue' = Append(queue, offer) /\ stats' = stats  BY <1>7, <1>12 DEF Enqueue
  <2>3. offer \in Requests /\ offer' = NoRequest /\ UNCHANGED <<cap, index, inflight, db>>
        BY <1>12 DEF Enqueue, Step, TypeInv, Shape, procVars
  <2>4. Line(inflight, Append(queue, offer), NoRequest) = line  BY <1>2, <2>3, LineLemma
  <2> QED  BY <1>4, <1>6, <2>1, <2>2, <2>3, <2>4
<1>13. ASSUME Take PROVE Goal
  <2>1. /\ proc \in Running /\ inflight = NoRequest /\ queue # <<>> /\ inflight' = Head(queue)
        /\ queue' = Tail(queue) /\ UNCHANGED <<cap, index, stats, db, offer>>
        BY <1>13 DEF Take, procVars
  <2>2. line = Line(inflight', queue', offer')  BY <1>2, <2>1, LineLemma
  <2> QED  BY <1>4, <1>6, <2>1, <2>2
<1>14. ASSUME Commit PROVE Goal
  <2>1. /\ proc \in Running /\ inflight # NoRequest /\ inflight' = NoRequest
        /\ stats' = [stats EXCEPT !.written = @ + 1]
        /\ UNCHANGED <<cap, index, queue, offer>>
        /\ db' = Put(db, cap, inflight.target, [path |-> inflight.path, at |-> inflight.at \div TicksPerMs])
        BY <1>14 DEF Commit, procVars
  <2>2. inflight \in Requests /\ NoLoss  BY <1>2, <1>6, <2>1
  <2>3. inflight.at \div TicksPerMs = inflight.at
    <3>1. inflight.at \in Nat /\ TicksPerMs = 1  BY <2>2 DEF Requests, WideAssumption
    <3> QED  BY <3>1
  <2>4. db' = Put(db, cap, inflight.target, Stored(inflight))  BY <2>1, <2>3 DEF Stored
  <2>5. line = <<inflight>> \o Line(NoRequest, queue, offer)  BY <1>2, <2>2, LineLemma
  <2>6. Line(NoRequest, queue, offer) \in Seq(Requests)  BY <1>2, LineLemma
  <2>7. After(db, cap, <<inflight>> \o Line(NoRequest, queue, offer))
          = After(Put(db, cap, inflight.target, Stored(inflight)), cap, Line(NoRequest, queue, offer))
        BY <2>2, <2>6, ReplayOneFewer
  <2>8. After(db, cap, line) = index  BY <1>4, <2>1, <2>2
  <2> HIDE DEF line
  <2> QED  BY <2>1, <2>4, <2>5, <2>7, <2>8
<1>15. ASSUME WriteError PROVE Goal  BY <1>7, <1>15 DEF WriteError
<1>16. ASSUME NEW n \in Capacities, Start(n) PROVE Goal
  <2>1. proc \notin Running /\ index' = LoadedIndex /\ UNCHANGED <<queue, inflight, db, offer>>
        BY <1>1, <1>16 DEF Start, Running
  <2>2. HandlersReturned /\ queue = <<>> /\ inflight = NoRequest
        BY <2>1 DEF TypeInv, Shape, Running
  <2>3. offer = NoRequest  BY <2>2, NoOffer DEF HandlersReturned
  <2>4. Line(inflight', queue', offer') = <<>>  BY <1>2, <2>1, <2>2, <2>3, LineLemma
  <2>5. LoadedIndex = db
    <3>1. \A k \in Targets : db[k] \in Entry => [db[k] EXCEPT !.at = @ * TicksPerMs] = db[k]
      <4> SUFFICES ASSUME NEW k \in Targets, db[k] \in Entry
                   PROVE  [db[k] EXCEPT !.at = @ * TicksPerMs] = db[k]
          OBVIOUS
      <4>1. db[k].at * TicksPerMs = db[k].at
        <5>1. db[k].at \in Nat /\ TicksPerMs = 1  BY DEF Entry, WideAssumption
        <5> QED  BY <5>1
      <4> QED  BY <4>1 DEF Entry
    <3>2. \A k \in Targets : (k \in Keys(db) <=> db[k] \in Entry) /\ (k \notin Keys(db) => db[k] = NoEntry)
          BY <1>2, KeysLemma DEF Keys
    <3>3. db = [k \in Targets |-> db[k]]  BY <1>2 DEF PolicyMaps
    <3>4. \A k \in Targets : LoadedIndex[k] = db[k]  BY <3>1, <3>2 DEF LoadedIndex
    <3>5. LoadedIndex = [k \in Targets |-> LoadedIndex[k]]  BY DEF LoadedIndex
    <3> QED  BY <3>3, <3>4, <3>5
  <2> QED  BY <2>1, <2>4, <2>5, ReplayNothing
<1>17. ASSUME Interrupt \/ CloseWriter \/ Tick PROVE Goal
  <2>1. ASSUME Interrupt \/ CloseWriter PROVE Goal
    <3>1. proc \in Running /\ stats' = stats /\ UNCHANGED <<cap, index, queue, inflight, db, offer>>
          BY <2>1 DEF Interrupt, CloseWriter, writerVars, Running
    <3> QED  BY <1>5, <1>6, <3>1
  <2>2. ASSUME Tick PROVE Goal
    <3>1. stats' = stats /\ UNCHANGED <<proc, cap, index, queue, inflight, db, offer>>
          BY <2>2 DEF Tick, writerVars, procVars
    <3> QED  BY <1>1, <1>5, <1>6, <3>1
  <2> QED  BY <1>17, <2>1, <2>2
<1>18. ASSUME CloseDone \/ Die PROVE Goal  BY <1>1, <1>18 DEF CloseDone, Die, Running
<1>19. ~ClearPolicies  BY DEF ClearPolicies, WideAssumption
<1> HIDE DEF Goal
<1>20. Goal
       BY <1>9, <1>10, <1>11, <1>12, <1>13, <1>14, <1>15, <1>16, <1>17, <1>18, <1>19
       DEF Next, Handler, Writer, Process
<1> QED  BY <1>20 DEF Goal

\* In milliseconds, and while nothing is lost or cleared, memory and disk evict
\* the same targets: replaying what is pending on the table gives the index,
\* whatever the clock does and however full both are.
THEOREM ReplayGivesTheIndex == MCSpec => []ReplayIsExact
<1> DEFINE I == part = "wide" => TypeInv /\ ReplayGivesIndex
<1>1. MCInit => I
  <2> SUFFICES ASSUME MCInit PROVE I  OBVIOUS
  <2>1. TypeInv  BY TypeInit, ConfigAssumption DEF MCInit
  <2>2. ReplayGivesIndex  BY DEF MCInit, Init, ReplayGivesIndex, Running
  <2> QED  BY <2>1, <2>2
<1>2. I /\ [MCNext]_<<part, vars>> => I'
  <2> SUFFICES ASSUME I, [MCNext]_<<part, vars>>, part' = "wide" PROVE TypeInv' /\ ReplayGivesIndex'
      OBVIOUS
  <2>1. CASE UNCHANGED <<part, vars>>
    <3>1. TypeInv /\ ReplayGivesIndex /\ UNCHANGED vars  BY <2>1
    <3>2. ReplayGivesIndex'
          BY <3>1, ReplayOfLine DEF NoLoss, vars, procVars, writerVars
    <3> QED  BY <3>1, <3>2, TypeStutter
  <2>2. CASE MCNext
    <3>1. part = "wide" /\ Next /\ NoLoss'  BY <2>2 DEF MCNext
    <3>2. TypeInv /\ ReplayGivesIndex  BY <3>1
    <3>3. ReplayGivesIndex'  BY <3>1, <3>2, ReplayStep, ConfigAssumption, WideAssumption
    <3>4. TypeInv'  BY <3>1, <3>2, TypeHandler, TypeWriter, TypeProcess, ConfigAssumption DEF Next
    <3> QED  BY <3>3, <3>4
  <2> QED  BY <2>1, <2>2
<1>3. I => ReplayIsExact  BY DEF ReplayIsExact
<1> QED  BY <1>1, <1>2, <1>3, PTL DEF MCSpec
=============================================================================
