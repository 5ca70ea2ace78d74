--------------------------- MODULE LastKnownGood ---------------------------
(***************************************************************************)
(* Automatic mode from the first look at a target to the SQLite row: the   *)
(* connection handlers of the sidecar, runtimeLearningEngine with its lock *)
(* e.mu, the in-memory DurablePolicyIndex, the bounded queue and goroutine *)
(* of AsyncPolicyWriter, the durable_policies table, and the life of the   *)
(* process around them (start, shutdown with a deadline, crash).           *)
(*                                                                         *)
(* In this mode the health gate and the ephemeral engine are nil, so       *)
(* Observe is Remember followed by Enqueue, with e.mu held over both.      *)
(***************************************************************************)
EXTENDS PolicyMap, Integers, Sequences

CONSTANTS
    Conns,       \* the connections that may ever be accepted, each once
    Capacities,  \* values of learning.max_entries an operator may start with
    QueueSize,   \* learning.persistence.queue_size
    TicksPerMs,  \* clock ticks in one millisecond of updated_at_ms
    ClockSteps,  \* how the wall clock may move (UTC() drops the monotonic part)
    MaxClock,    \* bound: the last clock value
    AllowClear   \* whether the operator may run "learning clear-policies"

ASSUME ConfigAssumption ==
    /\ Capacities \subseteq Nat \ {0}
    /\ QueueSize \in Nat \ {0}
    /\ TicksPerMs \in Nat \ {0}
    /\ ClockSteps \subseteq Int
    /\ MaxClock \in Nat
    /\ AllowClear \in BOOLEAN

VARIABLES
    proc,     \* the serve process
    cap,      \* its max_entries
    index,    \* DurablePolicyIndex.policies (empty when no process runs)
    queue,    \* AsyncPolicyWriter.queue
    inflight, \* the request the writer goroutine has taken, or NoRequest
    stats,    \* the writer's atomic counters
    db,       \* table durable_policies, times in milliseconds
    pc,       \* where each connection's handler is
    dest,     \* its target
    fixed,    \* the path FixedPath returned to it, or NoPath
    failed,   \* the paths it has seen fail
    winner,   \* the path that reached TLS readiness for it
    offer,    \* the request of the handler inside Observe, or NoRequest
    now       \* the wall clock

procVars   == <<proc, cap>>
writerVars == <<queue, inflight, stats>>
connVars   == <<pc, dest, fixed, failed, winner>>
vars       == <<procVars, index, writerVars, db, connVars, offer, now>>

NoTarget  == 0
Requests  == [target : Targets, path : Paths, at : Nat]
NoRequest == [target |-> NoTarget, path |-> NoPath, at |-> 0]

Running      == {"up", "draining", "closing"}
Counters     == [queued : Nat, written : Nat, dropped : Nat, errors : Nat]
ZeroCounters == [queued |-> 0, written |-> 0, dropped |-> 0, errors |-> 0]

TypeOK ==
    /\ proc \in Running \cup {"stopped", "killed", "refused"}
    /\ cap \in Capacities
    /\ index \in PolicyMaps /\ db \in PolicyMaps
    /\ queue \in Seq(Requests) /\ Len(queue) =< QueueSize
    /\ inflight \in Requests \cup {NoRequest}
    /\ offer \in Requests \cup {NoRequest}
    /\ stats \in Counters
    /\ pc \in [Conns -> {"new", "accepted", "dialing", "ready", "enqueue", "count", "done"}]
    /\ dest \in [Conns -> Targets \cup {NoTarget}]
    /\ \A c \in Conns : pc[c] \notin {"new", "done"} => dest[c] \in Targets
    /\ fixed \in [Conns -> Paths \cup {NoPath}]
    /\ failed \in [Conns -> SUBSET Paths]
    /\ winner \in [Conns -> Paths \cup {NoPath}]
    /\ \A c \in Conns : pc[c] \in {"ready", "enqueue", "count"} => winner[c] \in Paths
    /\ now \in Nat

Init ==
    /\ proc = "stopped" /\ cap \in Capacities
    /\ index = EmptyMap /\ db = EmptyMap
    /\ queue = <<>> /\ inflight = NoRequest /\ offer = NoRequest
    /\ stats = ZeroCounters
    /\ pc = [c \in Conns |-> "new"]
    /\ dest = [c \in Conns |-> NoTarget]
    /\ fixed = [c \in Conns |-> NoPath]
    /\ failed = [c \in Conns |-> {}]
    /\ winner = [c \in Conns |-> NoPath]
    /\ now = 0

-----------------------------------------------------------------------------
(* The connection handler: Server.handleTLS of the sidecar.                *)

\* e.mu is free: no handler is between Remember and the end of Enqueue.
LockFree == \A c \in Conns : pc[c] \notin {"enqueue", "count"}

Step(c, from, to) == pc[c] = from /\ pc' = [pc EXCEPT ![c] = to]

Accept(c, t) ==
    /\ proc = "up"
    /\ Step(c, "new", "accepted")
    /\ dest' = [dest EXCEPT ![c] = t]
    /\ UNCHANGED <<procVars, index, writerVars, db, fixed, failed, winner, offer, now>>

\* FixedPath under e.mu: a hit fixes the candidate, a miss leads to the race.
FixedPath(c) ==
    /\ LockFree
    /\ Step(c, "accepted", "dialing")
    /\ fixed' = [fixed EXCEPT ![c] = index[dest[c]].path]
    /\ UNCHANGED <<procVars, index, writerVars, db, dest, failed, winner, offer, now>>

\* Mutant: both paths stay candidates although a mapping was found.
Candidates_AlwaysRace(c) == Paths \ failed[c]

\* The race keeps both paths open; ConnectPreferredWithFallback dials the
\* opposite path only after the fixed one has failed.
Candidates(c) ==
    IF fixed[c] # NoPath /\ failed[c] = {} THEN {fixed[c]} ELSE Paths \ failed[c]

PathReady(c, p) ==
    /\ p \in Candidates(c)
    /\ Step(c, "dialing", "ready")
    /\ winner' = [winner EXCEPT ![c] = p]
    /\ UNCHANGED <<procVars, index, writerVars, db, dest, fixed, failed, offer, now>>

\* When the second path fails too, the handler ends without an observation.
PathFailed(c, p) ==
    /\ p \in Candidates(c)
    /\ Step(c, "dialing", IF failed[c] = {} THEN "dialing" ELSE "done")
    /\ failed' = [failed EXCEPT ![c] = @ \cup {p}]
    /\ UNCHANGED <<procVars, index, writerVars, db, dest, fixed, winner, offer, now>>

\* The candidate timeout or the shutdown ends the attempt for every path.
DialCanceled(c) ==
    /\ Step(c, "dialing", "done")
    /\ UNCHANGED <<procVars, index, writerVars, db, dest, fixed, failed, winner, offer, now>>

\* Mutant: only a target that is new to the index is handed to the writer.
Remember_PersistsNewOnly(c) ==
    LET t == dest[c]
        e == [path |-> winner[c], at |-> now]
    IN /\ pc[c] = "ready" /\ LockFree
       /\ index' = Put(index, cap, t, e)
       /\ IF t \in Keys(index)
          THEN Step(c, "ready", "done") /\ UNCHANGED offer
          ELSE /\ Step(c, "ready", "enqueue")
               /\ offer' = [target |-> t, path |-> winner[c], at |-> now]
       /\ UNCHANGED <<procVars, writerVars, db, dest, fixed, failed, winner, now>>

\* Observe takes e.mu, reads the clock and calls DurablePolicyIndex.Remember;
\* a mapping that already has this path is left alone, its age included.
Remember(c) ==
    LET t == dest[c]
        e == [path |-> winner[c], at |-> now]
    IN /\ pc[c] = "ready" /\ LockFree
       /\ IF index[t].path = winner[c]
          THEN Step(c, "ready", "done") /\ UNCHANGED <<index, offer>>
          ELSE /\ Step(c, "ready", "enqueue")
               /\ index' = Put(index, cap, t, e)
               /\ offer' = [target |-> t, path |-> winner[c], at |-> now]
       /\ UNCHANGED <<procVars, writerVars, db, dest, fixed, failed, winner, now>>

\* Mutant: the queue takes one request more than its capacity.
Enqueue_OffByOne(c) ==
    /\ IF proc # "closing" /\ Len(queue) =< QueueSize
       THEN /\ Step(c, "enqueue", "count")
            /\ queue' = Append(queue, offer)
            /\ UNCHANGED stats
       ELSE /\ Step(c, "enqueue", "done")
            /\ stats' = [stats EXCEPT !.dropped = @ + 1]
            /\ UNCHANGED queue
    /\ offer' = NoRequest
    /\ UNCHANGED <<procVars, index, inflight, db, dest, fixed, failed, winner, now>>

\* AsyncPolicyWriter.Enqueue, first half: send without blocking or drop.
Enqueue(c) ==
    /\ IF proc # "closing" /\ Len(queue) < QueueSize
       THEN /\ Step(c, "enqueue", "count")
            /\ queue' = Append(queue, offer)
            /\ UNCHANGED stats
       ELSE /\ Step(c, "enqueue", "done")
            /\ stats' = [stats EXCEPT !.dropped = @ + 1]
            /\ UNCHANGED queue
    /\ offer' = NoRequest
    /\ UNCHANGED <<procVars, index, inflight, db, dest, fixed, failed, winner, now>>

\* Second half: the counter is added to after the send, so the writer may
\* have finished the request before it is counted as queued.
CountQueued(c) ==
    /\ Step(c, "count", "done")
    /\ stats' = [stats EXCEPT !.queued = @ + 1]
    /\ UNCHANGED <<procVars, index, queue, inflight, db, dest, fixed, failed, winner, offer, now>>

Handler(c) ==
    \/ FixedPath(c)
    \/ \E p \in Paths : PathReady(c, p) \/ PathFailed(c, p)
    \/ DialCanceled(c)
    \/ Remember(c) \/ Enqueue(c) \/ CountQueued(c)

-----------------------------------------------------------------------------
(* The writer goroutine: AsyncPolicyWriter.run.                            *)

Take ==
    /\ proc \in Running /\ inflight = NoRequest /\ queue # <<>>
    /\ inflight' = Head(queue)
    /\ queue' = Tail(queue)
    /\ UNCHANGED <<procVars, index, stats, db, connVars, offer, now>>

\* Mutants: an existing row keeps its path; an existing row keeps its age.
Commit_KeepsPath ==
    /\ proc \in Running /\ inflight # NoRequest
    /\ db' = IF inflight.target \in Keys(db) THEN db
             ELSE Put(db, cap, inflight.target,
                      [path |-> inflight.path, at |-> inflight.at \div TicksPerMs])
    /\ stats' = [stats EXCEPT !.written = @ + 1]
    /\ inflight' = NoRequest
    /\ UNCHANGED <<procVars, index, queue, connVars, offer, now>>

Commit_KeepsAge ==
    /\ proc \in Running /\ inflight # NoRequest
    /\ db' = Put(db, cap, inflight.target,
                 [path |-> inflight.path,
                  at   |-> IF inflight.target \in Keys(db) THEN db[inflight.target].at
                           ELSE inflight.at \div TicksPerMs])
    /\ stats' = [stats EXCEPT !.written = @ + 1]
    /\ inflight' = NoRequest
    /\ UNCHANGED <<procVars, index, queue, connVars, offer, now>>

\* RememberDurablePath commits: one transaction that replaces the oldest row
\* for a new key at capacity and upserts the row, its time in milliseconds.
Commit ==
    /\ proc \in Running /\ inflight # NoRequest
    /\ db' = Put(db, cap, inflight.target,
                 [path |-> inflight.path, at |-> inflight.at \div TicksPerMs])
    /\ stats' = [stats EXCEPT !.written = @ + 1]
    /\ inflight' = NoRequest
    /\ UNCHANGED <<procVars, index, queue, connVars, offer, now>>

\* Mutant: a failed write is not counted.
WriteError_Silent ==
    /\ proc \in Running /\ inflight # NoRequest
    /\ inflight' = NoRequest
    /\ UNCHANGED <<procVars, index, queue, stats, db, connVars, offer, now>>

\* The transaction fails (busy, disk full) and rolls back; no retry.
WriteError ==
    /\ proc \in Running /\ inflight # NoRequest
    /\ stats' = [stats EXCEPT !.errors = @ + 1]
    /\ inflight' = NoRequest
    /\ UNCHANGED <<procVars, index, queue, db, connVars, offer, now>>

-----------------------------------------------------------------------------
(* The process, the operator and the clock.                                *)

\* Mutant: a missing row is read as "proxy".
LoadedIndex_DefaultsToProxy == [k \in Targets |->
    [path |-> IF db[k].path = Direct THEN Direct ELSE Proxy, at |-> db[k].at * TicksPerMs]]

\* The rows become the snapshot; more rows than max_entries refuse the start.
LoadedIndex == [k \in Targets |->
    IF k \in Keys(db) THEN [db[k] EXCEPT !.at = @ * TicksPerMs] ELSE NoEntry]

Start(n) ==
    /\ proc \notin Running
    /\ cap' = n
    /\ IF Cardinality(Keys(db)) > n
       THEN proc' = "refused" /\ UNCHANGED <<index, stats>>
       ELSE proc' = "up" /\ index' = LoadedIndex /\ stats' = ZeroCounters
    /\ UNCHANGED <<queue, inflight, db, connVars, offer, now>>

\* SIGTERM: the accept loop ends; handlers run on until they return.
Interrupt ==
    /\ proc = "up" /\ proc' = "draining"
    /\ UNCHANGED <<cap, index, writerVars, db, connVars, offer, now>>

\* Serve returns after handlers.Wait, then the deferred Close closes the queue.
HandlersReturned == \A c \in Conns : pc[c] \in {"new", "done"}

CloseWriter ==
    /\ proc = "draining" /\ HandlersReturned
    /\ proc' = "closing"
    /\ UNCHANGED <<cap, index, writerVars, db, connVars, offer, now>>

\* Mutant: Close does not wait for done.
CloseDone_NoWait ==
    /\ proc = "closing"
    /\ proc' = "stopped" /\ index' = EmptyMap
    /\ queue' = <<>> /\ inflight' = NoRequest
    /\ UNCHANGED <<cap, stats, db, connVars, offer, now>>

\* run has drained the closed queue and closed done: Close returns nil.
CloseDone ==
    /\ proc = "closing" /\ queue = <<>> /\ inflight = NoRequest
    /\ proc' = "stopped" /\ index' = EmptyMap
    /\ UNCHANGED <<cap, writerVars, db, connVars, offer, now>>

\* The process is gone: by a crash at any point, or because the shutdown
\* deadline passed before the queue was drained. Memory is lost.
Die ==
    /\ proc \in Running
    /\ proc' = "killed" /\ index' = EmptyMap
    /\ queue' = <<>> /\ inflight' = NoRequest /\ offer' = NoRequest
    /\ pc' = [c \in Conns |-> IF pc[c] = "new" THEN "new" ELSE "done"]
    /\ UNCHANGED <<cap, stats, db, dest, fixed, failed, winner, now>>

\* "learning clear-policies" in another process; a running snapshot stays.
ClearPolicies ==
    /\ AllowClear
    /\ db' = EmptyMap
    /\ UNCHANGED <<procVars, index, writerVars, connVars, offer, now>>

Tick ==
    /\ \E d \in ClockSteps : now' = now + d
    /\ now' \in 0..MaxClock
    /\ UNCHANGED <<procVars, index, writerVars, db, connVars, offer>>

-----------------------------------------------------------------------------
Writer  == Take \/ Commit \/ WriteError
Process == \/ \E n \in Capacities : Start(n)
           \/ Interrupt \/ CloseWriter \/ CloseDone \/ Die

Next ==
    \/ \E c \in Conns, t \in Targets : Accept(c, t)
    \/ \E c \in Conns : Handler(c)
    \/ Writer
    \/ Process
    \/ ClearPolicies
    \/ Tick

Spec == Init /\ [][Next]_vars

\* Every handler ends (its dials are bounded by the candidate timeout), the
\* writer goroutine keeps running, and a shutdown carries on. Nothing makes
\* a client connect, an operator act, the process start or the process die.
Fairness ==
    /\ \A c \in Conns : WF_vars(Handler(c))
    /\ WF_vars(Writer)
    /\ WF_vars(CloseWriter)
    /\ WF_vars(CloseDone)

FairSpec == Spec /\ Fairness

-----------------------------------------------------------------------------
(* Safety.                                                                 *)

\* Neither copy ever holds more targets than the max_entries the process was
\* started with, although the index and the table evict on their own, at
\* different times, and an operator may lower the limit between two starts.
CapacityHeld ==
    proc \in Running => /\ Cardinality(Keys(index)) =< cap
                        /\ Cardinality(Keys(db)) =< cap

\* The shutdown line adds up: every request counted as queued is written,
\* failed, in the writer's hands or in the queue, and the only request that
\* may be missing from "queued" is the one its handler is about to count.
Counting == {c \in Conns : pc[c] = "count"}
WriteAccounting ==
    proc \in Running =>
        stats.queued + Cardinality(Counting) =
            stats.written + stats.errors + Len(queue)
                + (IF inflight = NoRequest THEN 0 ELSE 1)

\* Whatever is remembered anywhere, for a target, is a path some connection
\* to that target really brought to TLS readiness; no eviction, reload,
\* crash or lost write makes up a choice.
Earned == {<<dest[c], winner[c]>> : c \in Conns}
NeverInvented ==
    /\ \A k \in Keys(index) : <<k, index[k].path>> \in Earned
    /\ \A k \in Keys(db) : <<k, db[k].path>> \in Earned
    /\ \A i \in DOMAIN queue : <<queue[i].target, queue[i].path>> \in Earned
    /\ \A r \in {inflight, offer} \ {NoRequest} : <<r.target, r.path>> \in Earned

\* While this process has lost no write, the path on disk is behind memory
\* only by requests still on their way: the last of them for a target, or
\* else its row if it has one, carries the path the index holds. So a crash
\* can lose the newest choices, but what it leaves for a target was never
\* overtaken unnoticed by a drop, a reordering or an eviction.
NoLoss == stats.dropped = 0 /\ stats.errors = 0
InQueue(k) == \E i \in DOMAIN queue : queue[i].target = k
LastInQueue(i) == \A j \in DOMAIN queue : j > i => queue[j].target # queue[i].target
NoStalePath ==
    proc \in Running /\ NoLoss =>
        \A k \in Keys(index) :
            /\ offer.target = k => offer.path = index[k].path
            /\ offer.target # k =>
                  /\ \A i \in DOMAIN queue :
                        queue[i].target = k /\ LastInQueue(i) => queue[i].path = index[k].path
                  /\ ~InQueue(k) =>
                        /\ inflight.target = k => inflight.path = index[k].path
                        /\ inflight.target # k /\ k \in Keys(db) => db[k].path = index[k].path

-----------------------------------------------------------------------------
(* What a step may never do.                                               *)

\* A path changes in memory only on evidence about the very mapping it
\* replaces: the connection that changes it saw that path fail, or it chose
\* its candidates without having been told of that mapping.
FlipHasCause ==
    [][\A k \in Targets :
         proc \in Running /\ {index[k].path, index'[k].path} = Paths =>
            \E c \in Conns :
                /\ pc[c] = "ready" /\ pc'[c] = "enqueue" /\ dest[c] = k
                /\ index[k].path \in failed[c] \/ fixed[c] # index[k].path]_vars

\* A write is dropped only for want of room in the queue, never because a
\* handler outlives the writer: the shutdown waits for the handlers first.
DropOnlyWhenFull == stats'.dropped > stats.dropped => Len(queue) = QueueSize

\* So a Close that returns nil has counted everything and left on disk the path
\* the process would have used, unless it reported a dropped or failed write.
CleanStopIsComplete ==
    [][/\ DropOnlyWhenFull
       /\ proc = "closing" /\ proc' = "stopped" =>
            /\ stats.queued = stats.written + stats.errors
            /\ NoLoss => \A k \in Keys(index) \cap Keys(db) : db[k].path = index[k].path]_vars

-----------------------------------------------------------------------------
(* Liveness.                                                               *)

\* A shutdown ends, whatever the handlers and the writer were doing.
ShutdownEnds == proc = "draining" ~> proc \notin Running

\* A process that keeps running without losing a write brings the table to
\* the paths of its index; a failed or slow write never wedges the writer.
SamePaths == \A k \in Targets : index[k].path = db[k].path
Converges == proc = "up" ~> (proc # "up" \/ ~NoLoss \/ SamePaths)
=============================================================================
