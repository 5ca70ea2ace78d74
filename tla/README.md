# SmartRoute: verification project

SmartRoute decides, per connection, whether a TLS client reaches its target *Direct* or through a
*Proxy*. It never decides in advance: it opens both candidates, lets TLS readiness choose, and only
then commits. This directory holds TLA+ models of its core logic, the TLC configurations that check
them and TLAPS proofs about them. `PROJECT.json` lists components, runs, mutants, the map from
definitions to source lines, findings, hazards and theorems.

    tlc -workers 2 -config MCPolicies.cfg MCPolicies
    tlapm LastKnownGood_proofs.tla        # 8 modules of proofs, a minute to a quarter of an hour each

## 1. Inventory

| Component | State it keeps | Operations | Hard behaviour | What makes it correct |
|---|---|---|---|---|
| Automatic-policy pipeline: `runtimeLearningEngine` in `auto` mode, `DurablePolicyIndex`, `AsyncPolicyWriter`, table `durable_policies` | index, bounded queue, request in the writer's hands, counters, rows | FixedPath, Remember, Enqueue, write loop, load, close with deadline, clear-policies | two copies of one map that evict on their own; drops; failed writes; crash; a second process | bounds hold; memory and disk never disagree unnoticed; counters add up; a mapping changes only with cause |
| `internal/sidecar` Server | handlers, closers, listener | accept loop, handleTLS, non-TLS and privacy branches, relay | shutdown joins handlers that still dial, decide or relay | one terminal event; private names stay off Direct; nothing outlives Serve |
| `internal/transport` Racer, TLS readiness dialer | goroutines, result channel, timer, contexts, connections | Race, Dial, watcher, drain, preferred-with-fallback | many ready `select` cases; cancellation racing success | one winner; every loser closed; no path blamed for losing; half of the time left for the fallback |
| `internal/health` Gate | state, reason, deadline, three target windows | both/proxy failures, success, expiry, snapshot | windows, extensions, expiry between two readings | freezes only on evidence, thaws only if earned |
| legacy learning runtime (`shadow`, `ephemeral-auto`) | gate + engine under one mutex | PreferredPath, Observe, three health observers | clock read several times in one call | frozen learning knows nothing; preferences are earned |
| `internal/learning` Engine, pair classification | bounded table of counters with TTL | Observe, PreferredPath, Clear | contradiction, expiry, full table | see above, and no eviction of a live preference |
| `internal/learning` DurableEvaluator | none | Evaluate, Report | counts taken from a table others trim | a suggestion rests on independent sessions; the report adds up |
| `internal/netrelay` | two connections, counter, two channels | Bidirectional | context end racing the last copy; silent peers | the result is what happened; it ends after the context |
| `internal/store` evidence | evidence and session rows, queue | append, prune, trim, session start | trims every 256 rows; failing transactions; a second process prunes | row ceiling accounted for; a writing session stays registered |
| `internal/store` lifecycle | database, key, backup directory, marker, manifest | open, migrate, backup, verify, restore, status | a crash between any two file operations; two first starts | one key for all rows; a half copy is never taken for a whole one |
| `internal/observe` Recorder, control | open file, rotation, files of a source; `.paused` | Record, rotate, prune, pause, resume, clear, export | another process acts on the same directory | bounds of size and age; quiet when paused |
| `internal/observe` report; `internal/trial` assessment | none | BuildReport, AssessObservations | windows and prunings that cut between two events of a connection | what is written is readable; the numbers are what happened |
| `internal/trial` plan, preflight | a saved report | Preflight, LoadAssessmentPlan | configuration or file changes before the assessment | the accepted plan was fixed before the trial |
| `internal/supervisor` | attempts, consecutive failures, children | monitor, backoff, stop | child exits racing the stop | restarts on the documented schedule, never after the stop; no orphans |
| `internal/guard` | handlers, two lanes | adaptive dial, original dial, relay | timeout racing success | one lane, before any payload |
| `internal/fixedpolicy` | rules with expiry and revocation | Lock, Revoke, List | overlapping commands; clock; two units of time | one active rule per target; every row readable |
| `decision`, `model`, `privacy`, `tlsinspect`, `socks5`, `config`, `runtimecheck`, `connectionid` | none | predicates, parsers, validation | byte boundaries | pure functions |
| labs, benchmarks, scripts, Clash transform | batch state | measurements, file transforms | none that runs concurrently | outside the program's decisions |

How they interact. A sidecar handler asks the runtime for a path (`FixedPath` in `auto`,
`PreferredPath` in the legacy modes), calls the transport (`Race`, or `ConnectPreferredWithFallback`
when there is a path), reports to the runtime (`Observe`, or a health observer when there was no
pair to compare), emits its events to the recorder, and relays. The runtime serialises all calls by
`e.mu`; in `auto` it holds the lock over `Remember` and `Enqueue`, so requests enter the queue in the
order the index changed. The writer goroutines share only their queues and atomic counters with it.
Shutdown runs the other way: the listener closes, contexts are cancelled, handlers are joined, the
queues are closed and the writers drain them until a deadline. The Guard is a process of its own in
front of the sidecar; the supervisor starts both. The operator's commands (`learning backup`,
`restore`, `status`, `clear-policies`; `observations pause`, `clear`, `report`; `policy lock`;
`trial`) are short-lived processes that meet the others on disk only.

## 2. Modules

| Module | Models | Composed of |
|---|---|---|
| `Routing` | targets and paths | |
| `PolicyMap` | the bounded map with its eviction order | `Routing` |
| `LastKnownGood` | the automatic pipeline and the life of the process | `PolicyMap` |
| `RaceOutcome` | abstract: what a race promises its caller | |
| `CandidateRace`, `PreferredFallback` | the two calls of `TLSRacer` with their goroutines; both implement `RaceOutcome` | |
| `Relay` | one relay: copiers, closer, peers | |
| `HealthGate`, `EphemeralLearning` | the gate and the engine, as operators on records | `Routing` |
| `LearningRuntime` | the legacy runtime: gate and engine under one mutex | both of these |
| `DurableAssessment` | Summarize, Evaluate and Report on evidence rows | `Routing` |
| `EvidenceStore` | the processes, writer and tables of strong evidence | `DurableAssessment` |
| `StoreFiles` | database, key, migration, backup and restore, file by file | |
| `ConnectionServer` | what `sidecar.Server` and `guard.Server` share: accept loop, closers, join | |
| `Guard`, `Sidecar` | their handlers | `ConnectionServer` |
| `Supervisor` | monitors, backoff, children, stop | |
| `Recorder` | the files of one source; pause, resume, clear | |
| `ObservationRow` | what is emitted, what the recorder lets through, what the report accepts | |
| `ObservationReport`, `TrialAssessment` | BuildReport; AssessObservations | each extends the previous |
| `Trial` | engine, guard and operator writing and reading one directory | `TrialAssessment` |
| `Preflight` (`PreflightInputs`: its inputs) | checks, plan, saved report, acceptance | |
| `FixedPolicy` | the table of manual locks and its commands | |
| `MCPolicies` (on `MCLastKnownGood`), `MCLearningRuntime`, `MCConnection`, `MCServers`, `MCStopping`, `MCStorage`, `MCTrial` | bounded instances | |
| `LastKnownGood_proofs` | theorems about the automatic pipeline and its replay | extends `MCPolicies` |
| `LearningRuntime_proofs` | theorems about gate, engine and their runtime | extends `LearningRuntime` |
| `CandidateRace_proofs` | theorems about the race, its refinement of `RaceOutcome` included | extends `CandidateRace` |
| `MCConnection_proofs` | relay, fallback and its refinement; the race through an instance of its proofs | extends `MCConnection` |
| `MCServers_proofs` | Guard, Sidecar, Supervisor | extends `MCServers` |
| `EvidenceStore_proofs` | the evidence table, for one process and for many | extends `EvidenceStore` |
| `MCStorage_proofs` | files of the store, recorder, manual locks; the evidence of two processes through an instance | extends `MCStorage`, `EvidenceStore_proofs` |
| `MCTrial_proofs` | preflight and plan; what is emitted is kept and can be read, the report is true, readiness is earned | extends `MCTrial` |

**Several instances in one run.** Most MC modules hold more than one component. A variable (`part`,
`program`, `call`) that never changes says which one moves; the variables of the others keep their
initial values. So a run checks the disjoint union of the instances, each against its own properties,
guarded by that variable. Composition in the other sense, components that share state, is in the
modules: `EvidenceStore` over `DurableAssessment`, `Trial` over recorder rows, report and assessment,
`LearningRuntime` over gate and engine, `Sidecar` and `Guard` over `ConnectionServer`.

**LastKnownGood.** A connection's `pc` follows `handleTLS`: `accepted` (before FixedPath), `dialing`,
`ready` (a path reached TLS readiness), `enqueue` and `count` (inside `Observe`, holding `e.mu`),
`done`. `Enqueue` is split at the send because the counter is raised after it. A dial ends by any
candidate becoming ready, by the failure of both, or by cancellation; a fixed path makes the other
one a candidate only after it failed. The writer takes, then commits or fails. `proc` is `up`,
`draining` (accept loop ended, handlers joined), `closing` (queue closed), and then `stopped`,
`killed` (crash, or the deadline passed) or `refused` (more rows than `max_entries` at start).
`Put` is both `Remember`'s eviction loop and the SQL statement: an oldest entry leaves for a new key
only. Times are ticks of a wall clock that may step back; the table keeps milliseconds.

**CandidateRace, PreferredFallback.** `main` is the selecting goroutine, `dial`, `conn`, `watcher` and
`result` belong to each candidate, `results` is the channel. `select` takes any ready case: `OnDone`,
`OnTimer`, `OnReady` and `OnFailure` are enabled independently. A watcher may fire whenever the
context has ended and it has not been joined, which includes the time after its handshake succeeded.
`PreferredFallback` has two nested contexts instead of the channel, and counts ticks; `prompt` says
whether goroutines are never late, which only the promise about half of the time needs.

**Sidecar, Guard.** One `pc` per handler; `closer` is the goroutine that closes the client's
connection when the server stops, so a handler's reads and writes may fail at any point after. What a
race, a fallback or a single attempt does inside is the business of the transport modules; in
`Sidecar` it ends with what each path came to: a race cut short, by the stop or by its own deadline, may
report no pair, and the connection it returns may be closed already. `events` and `told` are what the
recorder and the learner were given.

**Supervisor.** Time is explicit: `Tick` is disabled while a monitor could move, so that the schedule
can be stated exactly. Failures are counted up to the number at which the doubling has passed the cap.

**LearningRuntime.** One action per call under the mutex. Each reading of the clock inside a call is
a separate non-decreasing value, so a freeze may expire between two of them. `failedAt`, `worked`
and `streak` are history that no action reads: what the properties say about the past. The two win
counters of a policy are one streak, because each update zeroes one of them.

**Relay.** A direction reads, writes, reports its end, half-closes and counts itself out. Data is a
number of units; a write takes everything sent up to some point after the read. Closing left and
right are two steps. `ServerCloses` is the closer of `serveConnection`, which closes the client on the same
context at any point before, between or after those. `handedClosed` says that the remote connection was
closed before the relay began (finding 2). A `timeout` or `io_error` end is the `reset` outcome: no property
tells them apart.

**EvidenceStore.** A process opens (prune, trim, register its session; each its own transaction, each
may fail), then its writer takes, appends, assesses, counts, and every `TrimEvery` rows trims; a stop
closes the queue, drains it or runs into the deadline, and trims once more. `untrimmed` counts the
rows dead processes left. Each transaction is one step with the clock reading before it (`main.go:946`): a
clock that moves in between is one that is read a little earlier.

**StoreFiles.** Every file operation is a step and may be the last of its process: creating the key
and writing it are two, as are creating a copy and finishing it, and a file in between is `Torso`. A
transaction is one step, a checksum is what it is the checksum of, and `Damage` changes a file of the
backup from outside.

**Recorder.** Files are numbered in the order of creation. `Record` is split at the pause check, the
rotation, the listing, every removal of the pruning and the write; `clear` is split at its check, its
listing and every removal. Closing the old file, creating the next, and every step of the pruning may
fail (`CloseFails`, `RotateFails`, `PruneFails`).

**Trial, ObservationRow, ObservationReport.** An event is a record whose optional fields are sequences
of at most one element. The emitters build rows as the sidecar, the guard and the supervisor do, the
recorder's validation and the report's are two operators. A line of the report is a place in a file
with the row that stands there, and every counter, which the code increments while it reads, is the
number of lines it counts. `Trial` lets connections, pauses, prunings, clears, crashes and restarts with or without the
planned session produce the rows, and compares the report with what happened to the connections. An
engine whose file `Clear` took away goes on in a new one here. In the code it may go on in the unlinked
one (finding 5), whose events are in no report: to the report that is an engine that records nothing
until it rotates, which `Trial` has as a pause.

**Preflight.** Inputs are records of what the checks find. A report is saved, one field of the file
may be edited, the configuration may change, and `Accepts` is `LoadAssessmentPlan`. The window that
`runTrialAssess` then derives from the plan is no condition of acceptance; it is `AssessSince` of `Trial`. The
digest covers the plan and not the checks, is injective, and has no key: it detects a changed field, not a
plan that was replaced together with its digest.

**FixedPolicy.** A lock reads the clock, opens (four statements of the schema, each of which another
process may have executed first), and commits; a revoke reads the clock last. Times have ticks finer
than the table's milliseconds.

## 3. Runs

| Run | Question | Bounds and why they are enough |
|---|---|---|
| `last_known_good` | what memory, queue and table may hold, how they may differ, and is the table with what is pending the index? | *narrow*: 3 connections (two inside the pipeline while a third is ahead or behind), 2 targets for capacity 1 (eviction) or 2, queue of 1 so that drops happen, 2 ticks per ms so that two times share a millisecond, clears. *wide*: 3 targets for 2 places and a clock that steps back, up to the first lost write |
| `connection` | who owns each connection of a race or fallback, do both keep `RaceOutcome`, is a relay's result true, does it end? | the whole system: two candidates is what the code has; a fallback of 5 ticks, an odd number, so that half of it is rounded; 2 units of data, which both may come from one side |
| `learning_runtime` | freezes, recoveries and preferences | 2 targets, thresholds of 2 (the least the configuration admits), table of 1 so that it is full, a clock to 3 with TTL 2 and freezes of 1, so that policies, windows and freezes expire, and a freeze may begin and thaw inside one call while a policy lives |
| `servers` | lanes, events, blame, orphans, schedule of restarts | 2 connections or 2 services: one may be stopped while the other is anywhere; backoff 1, 2, 3 (the cap is no power of two), stable after 3 |
| `stopping` | does every stop end, is nobody forgotten, does the table catch up? | one connection each, two handlers of the automatic pipeline, one service: liveness without symmetry. The Sidecar twice: with the TLS paths `main.go` always installs (race, remembered path with fallback), and without a `TLSRacer` |
| `storage` | everything kept in files | evidence *alone*: ceiling of 2 rows, trim every 2, 3 starts, 4 offers, one fault; *shared*: two processes, ceiling 1, clock set back; *files*: two processes, a backup and a restore, every prefix of each; *recorder*: 2 files of one row, 4 created, one crash or failed pruning; *locks*: 3 commands on two targets with TTLs below, at and above a millisecond, the clock set back once |
| `trial` | is what is recorded readable, the report true, readiness earned, the plan fixed before? | four parts. *engine*: two connections, clock to 2, window of 1; only proxied relays are canceled. *mixed*: at most one connection among the events of the other processes and rows of an older version. *checks* and *edits*: every group of preflight inputs against every other it interacts with, at three times; one edit of the saved report |
| `sticky_mapping`, `race_window`, `outage_rows`, `relay_halfclose`, `recorder_resume` | findings | each the smallest instance that shows it |

`SYMMETRY` permutes connections or targets, which no definition of those runs orders or names, and is
used in no run with a liveness property. `MCStorage` uses a `VIEW` instead, that counts
interchangeable processes by state: its properties quantify over all of them. The views of
`MCLastKnownGood` leave out what a connection that is over had seen: no action reads it, and of the
properties only those about connections still inside do. `WithoutRows` leaves out `rows`, which
`learning_runtime` does not check; the recorder's part of `MCStorage`'s view leaves out times and rows
that no later step reads. `MCTrial` takes the planning instances (`Inputs`, `FewInputs`, `Configs`,
`MaxAge`, `Tolerance`) as constants, so that they can be proved about. Deadlock checking is off where the system really stops: all
connections over and the clock at its end, or every bound of a part reached.

A passing run's invariant is a conjunction of named parts, one per statement, and begins with the type
invariants of the modules it covers. Each has one mutant: a definition with a plausible bug, named
after the definition it replaces, under which TLC finds the property violated.

**Fairness.** `LastKnownGood`: handlers, the writer goroutine and the two shutdown steps. The dials
of a handler are bounded by the candidate timeout and its `Observe` by the lock it takes; the Go
scheduler runs the writer. No fairness on clients, on starts or on crashes. `CandidateRace` and
`PreferredFallback`: goroutines run and time passes, but a peer never has to answer: a `Dial` must end
only once its context is over or its connection closed. `Relay`: our goroutines run; in `FairSpec` a
peer need not even read, so a write may block for ever; `TakesAll` adds that it does. `Guard`,
`Sidecar`: the listener's and the connections' closers run, a read, dial or relay ends once its
connection is closed or its deadline passed, and steps that wait for nobody are taken; a client need
not send anything. `Supervisor`: monitors run and time passes; a child never has to exit, but the
kill ends it. No fairness on the interrupt the operator sends.

## 4. What the checks show

* Index and table each stay within `max_entries`; the shutdown line adds up in every interleaving,
  with exactly the request about to be counted as exception; a clean stop without losses leaves on
  disk the paths memory had, and a write is dropped only because the queue is full (`CapacityHeld`,
  `WriteAccounting`, `CleanStopIsComplete`).
* As long as this process lost no write, the disk's path for a target is behind only by pending
  requests (`NoStalePath`). After a drop it is not: nothing enqueues an unchanged path again.
* In milliseconds, without clears or losses, memory and disk evict the same targets, even with a
  clock that steps back (`ReplayIsExact`).
* A path changes in memory only by a connection that saw it fail or that had not been told of it
  (`FlipHasCause`). ADR-0036 says more, and that is refuted.
* Race and fallback leak no connection and blame no path that lost or was abandoned by a shutdown;
  both implement `RaceOutcome`, their ending included, and a silent remembered path leaves half of the
  time (`ConnectionsOwned`, `BlameIsEarned`, `KeepsPromise`).
* Unless it was handed a closed connection (finding 2): no direction of a relay is cut by our own closing
  before its context ends, and the remote connection is closed only by a cancellation that was announced. An
  EOF means all was carried, and the relay never outlives its context (`ResultIsTrue`, `Returns`, `HalfCloseOfTCP`). A relay that a stop cut is not always *reported*
  as canceled: see below.
* The gate freezes and thaws only on the evidence it should, and no preference or counter of the
  engine outlives a freeze or is gained during one. A live preference goes only by its own
  contradiction or with the table at a freeze (`LivePreferenceKept`). A freeze counts even if it
  began and thawed inside one call of `Observe`, which the gate's state before and after does not show:
  `FreezesLearning` says how to recognise it.
* A Guard connection's payload reaches one lane; a denied name is never dialled on Direct; each Sidecar
  connection leaves one terminal event, followed by a relay outcome exactly when a path was committed;
  a shutdown is no evidence of an outage; restarts follow the schedule of ADR-0008; after a stop
  nothing is left (`servers`), and every stop ends (`stopping`).
* The evidence table is above its ceiling only by rows some writer owes a trim for: 256 per writer, one more
  per failed transaction, and those of writers that ended without a last trim; it is exact when all have just
  started or closed in time. A suggestion rests on distinct sessions; two first starts agree on one key, and
  leave no database without it; an unfinished backup does not verify and an unfinished restore does not
  open; the recorder's disk is bounded but for prunings cut short; a target has one manual lock
  (`storage`).
* Every event the program emits passes both validations; a report of whole rows fails only when a sum
  overflows; a ready window was earned; the plan was fixed before the trial, if at most one field of its
  file was changed since (`trial`).

### Findings

1. `sticky_mapping`: two connections that find no mapping and race may choose differently; the slower
   overwrites the faster's choice though that path never failed. ADR-0036 lists only fallback after
   failure, eviction, clear and scope.
2. `race_window`: cancellation or deadline between a successful handshake and `close(stop)` lets the
   watcher close the connection that `Dial` then returns as a success and `Race` selects.
3. `outage_rows`: the gate counts distinct targets, evidence counts connections, so repeated
   connections to one target leave more than the `N-1` rows of ADR-0017.
4. `relay_halfclose`: the selected connection is a `prefetchedConn`, which hides `CloseWrite`; a
   client's half-close does not reach the remote.
5. `recorder_resume`: after pause, clear and resume an idle recorder goes on writing to the file that
   clear unlinked, until it rotates; no report sees these events.

### Observed while modelling

The properties are stated so that they allow for the following, and no run refutes anything by it. Three
points nevertheless contradict a document:

* docs/adr/0036, line 56: evidence rows are "exact on startup/shutdown and at most 255 over while
  running". The writer trims after the 256th row is in the table (`OnProcessed`, `main.go:957-983`), so
  256 may be over; a failed trim is tried again only with the next row, which comes first; a `Close` that
  misses its deadline skips the last trim, so a shutdown may leave as many; and each of two processes
  counts only its own rows. What holds instead is `RowsAccounted` and `CeilingKept`.
* docs/adr/0014, line 41: "Any failure after destination creation leaves `INCOMPLETE`". A backup that is
  killed between creating its directory and its marker leaves a directory with neither marker nor
  manifest. It does not verify (`CopiesAreComplete`), for want of a manifest.
* docs/02-technical-design.md, line 518, says that an explicit cancellation marks both directions
  `canceled`. At a stop, `serveConnection` closes the client on the same context; if both copies end by that
  and are counted before the relay's own closer looks, the result is `ended`, its ends `closed` or what
  the remote did. docs/adr/0025, line 21, allows `closed` for "ordinary local shutdown behavior".

The others contradict none that we found:

* Of two processes on one evidence database, the start of the second deletes the still empty session
  of the first, even if the second then fails (`SessionsRegistered` says so of one process only); and
  after the clock is set back a trim may delete the rows, and with them the session, of the process
  that is running.
* After a dropped write of a changed mapping a restart brings the old path back.
* `StoreFiles`: a start that is killed between creating and writing the key leaves a short key that
  every later start refuses, until somebody deletes it; there is then no database, so that no row is lost
  with it (`NoDatabaseWithoutKey`). A backup that is changed while it is being restored may leave a
  destination that opens, because `Open` never looks for the marker.
* `Recorder`: a `rotate` whose close fails leaves the recorder without recovery until a restart; a
  clear that removes a file the pruning has listed makes that event be dropped.
* `FixedPolicy`: a command whose clock is behind the creation of the active rule, or a TTL below a
  millisecond, is refused by a constraint of the table and not by the validation; a `policy list` in the
  middle of a first start may report the database as corrupt.
* Thawing by expiry inside one call may leave no `freeze_expired` event.

## 5. What is proved

Each theorem is of the specification a run checks or of the component it instantiates, for every
value of the constants that satisfies the named assumptions, which TLC evaluates on every run:

| Assumption | Says |
|---|---|
| `FiniteTargets`, `TargetsAssumption` | finitely many targets; numbers, where an order of keys is needed |
| `ConfigAssumption`, `HealthAssumption`, `LearningAssumption`, `ModeAssumption`, `ThresholdAssumption` | what `config.go` admits, or the constructors refuse |
| `EvidenceAssumption`, `StorageAssumption`, `RelayAssumption`, `DurationAssumption` | positive limits, natural bounds, finitely many processes |
| `CapAssumption` | failures are counted at least until the doubled backoff has passed its cap |
| `TimeoutAssumption` | the fallback's time-out has two ticks: half of it is neither 0 nor all |
| `WideAssumption` | the wide instance: clock in milliseconds, no clears. Without it `ReplayIsExact` does not hold of it |
| `AloneAssumption` | the part with one process whose clock runs forward |
| `PlanningAssumption`, `TrialAssumption` | the enumerated inputs and events are some that the program can have or emit; "" identifies no connection; limits are natural numbers; a row of an older version is one its reader accepts |

**Automatic pipeline** (`LastKnownGood_proofs`).

* `TypeCorrect`: `TypeOK` is not inductive alone: that a request is well typed depends on who is
  inside `Observe`. `TypeInv` adds `Shape`: at most one handler holds the lock, and `offer` is its
  request exactly until it is enqueued.
* `RememberedIsEarned`: strengthened by `Unwon`, that a handler before readiness has no winner yet:
  otherwise a later winner could overwrite the one that earned an entry. `Earned` only grows, and
  every action moves entries or adds an earned one.
* `DiskNeverOvertaken`: `NoStalePath`, as one predicate per target, `Settled`, proved by where the
  newest request for it is: offered, last in the queue, in flight, or committed.
* `CapacityRespected`, `CountersAddUp`: cardinality lemmas about `Put`, and an equation kept by every
  action. `FlipsHaveCauses` rests on `CauseInv`: a handler that was told of a mapping has it as its
  winner or saw it fail. `CleanStops` combines types, counters and `NoStalePath`.
* `ReplayGivesTheIndex`: `ReplayIsExact`. Every step moves a request along the line from offer to table,
  adds one that the index has just taken, or writes the first one (`ReplayStep`); lemmas say what a
  fold over the line does with one request more at its end or one fewer at its front.

**Legacy runtime** (`LearningRuntime_proofs`).

* `LearningTypes`: `TypeOK` with the bound on the table. `FreezeIsTotal`: its core is
  `FrozenTransition`, that a gate frozen after an operation was frozen before or reports a change.
* `PreferenceEarned`: `AllEarned` says of every entry, preferred or not, that its streak is a suffix
  of the pairs really seen. A pair seen during a freeze is kept from the engine and may end a streak;
  that no entry is then left to contradict it is `FreezeIsTotal`, which the proof uses.
* `GateIsTrue`: the inductive `Evidence` says that every member of a window still open failed since it
  opened, and that every recovery counted during a freeze is a success that was seen; each call is
  proved gate by gate, because time may pass between two readings of the clock.
* `PreferencesLast`: what the steps of a call do to a live entry, one lemma per branch.

**Transport** (`CandidateRace_proofs`, `MCConnection_proofs`).

* `RaceTypes`, `RaceIsSafe`: `RaceInv` relates where a `Dial` is to its connection, watcher and result
  (`DialInv`), the channel to who was read (`ResultsInv`), and says that as many results are on their
  way as somebody waits for (`OnTheirWay = Awaited`): without it a drain might stop one too early, and
  a loser's connection would have no owner.
* `RaceImplements`: under the mapping of `Promised` every step is one of `RaceOutcome` or a stutter.
* `CallsOwnConnections`, `CallsBlameFairly`: the same of the fallback from `FallInv`, whose part
  `ContextInv` orders the ends of the two nested contexts. `CallsKeepPromise`: race and fallback
  implement `RaceOutcome` step by step, and half of the time is left: the safety half of `KeepsPromise`.
* `RelayTypes`, `RelayIsTrue`: `RelayInv` relates the closer's steps to what is closed and each copier
  to what it has moved. The server's closer may have closed the left connection at any time after the
  context's end, so only the right one tells a cancellation.

**Servers and supervisor** (`MCServers_proofs`): `PayloadKeepsToItsPath`, `SidecarReportsTruly` and
`StopsAreClean`, from an invariant per handler (`GuardInv`, `SidecarInv`); `BackoffIsKept` for every number
of restarts and every two bounds. That the loop of `restartBackoff` yields the capped power of two
is an induction over its argument.

**Evidence, files, recorder, locks** (`EvidenceStore_proofs`, `MCStorage_proofs`).

* `TableOfManyProcesses`, `StepsOfManyProcesses`: types, the account of the rows above the ceiling,
  referential integrity and the sums of the report; trims keep the newest; suggestions are independent.
  `Accounted` carries the sum over processes of what each owes a trim for; `CeilingInv` bounds what one writer
  owes by `TrimEvery` and the failures so far, and keeps the ceiling exact while all are at rest.
* `TableOfOneProcess` needs `InOrder`: the requests of a queue are in the order of their times, none
  newer than the clock and no row newer than they. Only then is the row just written the newest, the
  one no trim deletes, and its session stays registered. Two processes, or a clock that steps back,
  break it, and do break the property.
* `ExcessIsOwed`, `SessionsStay`, `EvidenceCounts`, `NewestStay`, `SuggestionsAreIndependent` are these for
  the parts *alone* and *shared* of the run, and the recorder's own ageing.
* `StartsShareOneKey` (`OneKeyForAllRows` and `NoDatabaseWithoutKey`), `BackupsAreComplete`: `FilesInv`. One process at most writes the key, and there is
  no database before it is written; a manifest is written last, of what the directory then holds; in
  a restore the key comes after the whole database, and the marker goes after both were compared.
* `RecordingIsContained`: `RecInv`, in which a file opened by a rotation stays empty until the pruning
  that follows is over, and what the pruning listed is all there is.
* `TargetsHaveOneLock`, `LocksKeepTheirHistory`: of the rules of a target only the last may be active
  (`OnlyTheLast`), every row satisfies the table's constraints, and no rule but the revoked one changes.

**Trial** (`MCTrial_proofs`).

* `PreflightSound`: the list of checks is treated as the set of what it says (`ChecksTell`), so that a
  report is ready exactly when none fails, and `Accepts` is compared with that set. `PlanInv` says
  what the saved file is: the report of the last run, or that with one edit. `EditsChangeNothing`: an edit
  leaves verdict and plan as they were, or the file is refused. The digest pins the plan, the checks
  are counted again, and all fourteen required ones must be there.
* `EventsAreReadable`: `Sound` of every constructor of an event (it passes `Recordable`, and its row passes
  `Reportable`), and an invariant of the directory under append, prune, clear and the older rows. Only
  a running engine has open connections (`ConnsOk`), so a relay event always has a session to carry.
* `ReportsAreHonest`, `ReadinessEarned`: both from `HistoryInv`, which relates the engine's file to what
  happened. For terminals and for relays, there is a map from the rows of that kind in the file to the
  connections (`Owned`): no two rows have the same connection, each row describes its own (`Describes`),
  and a connection whose row is missing has it from a time not after `lost`. Every action extends, cuts
  or empties that map. The report's window then has a one-to-one map to the connections of the window
  (`MatchExists`), onto them where `lost` is older. So any counter is at most the number of connections
  it is about, and equal to it where nothing was lost (`CountMatched`); identifiers never repeat and
  the two rows of a connection never disagree, so pairing never fails (`PairableHolds`).
* `ReportCountersAgree` needs no history: in any files whose rows can be paired, the sets the counters
  count split as the counters should add up.
* `PercentilesAreNearest`: the values have an ascending order (the model sorts by choosing one), built
  from the least value on; the positions up to the index are mapped one to one into the values at or
  below the one there, and the values below it into the positions before.

**Instances.** A theorem of a component is carried to an MC module by an INSTANCE of its proof module (`RP`
in `MCConnection_proofs`, `SP` in `MCStorage_proofs`); assumptions of the instance are discharged there.

**Induction.** The library's induction theorems take an operator and cannot be used. Where a proof needs
induction over a concrete definition (`restartBackoff`, the folds of `ReplayIsExact`, of the
account and of the evidence report's sums, the ascending order of a percentile), it takes a least
counterexample, from well-foundedness of the naturals.

**Only model-checked.** Liveness, which needs fairness and ENABLED: the liveness half of `KeepsPromise`,
`Returns`, `HalfCloseOfTCP`, `StopsEnd`, `NobodyIsForgotten`, `Converges`. Every other property of a
passing run is stated by a theorem. Strengthenings that quantify over maps TLC cannot enumerate, as
`HistoryInv` does, serve the proof only and are evaluated in no run.

## 6. What is not modelled

* Labs, benchmarks and scripts drive the program or report on it and take no part in its decisions.
* Wire formats (`socks5`, TLS records) and configuration parsing are abstract: a parse succeeds or
  fails. `decision`, `privacy` and `connectionid` are pure and small; what they yield is an input
  (`denied` in `Sidecar`, the class of an identifier in `ObservationRow`).
* Two methods of the gate, for network profile changes and captive portals, are called by nothing.
* In `LastKnownGood` a client's target is always admitted by privacy policy and speaks TLS; the other
  cases are in `Sidecar`.
* SQLite transactions are atomic, as it promises. The online backup is one consistent image taken at
  some moment between its start and its end.
* `Export` and the salt file of the recorder, the partial write of a row, the manifest's fields one by
  one, and more than one backup or destination at a time. The salt is created as the store's key is.
* The writer's printed counters in the legacy modes; the reason counts and the time range of a report.
* Preflight's branch for a cancelled context, which its caller cannot reach, and edits of more than one
  field of the saved report.

## 7. Plan

Done: the automatic pipeline, the transport, the legacy learning runtime, the relay, both servers, the
supervisor, the evidence store, the files of the store, the recorder, report, trial and manual locks.

Left to model: the bounded readers of `tlsinspect` and the privacy predicate against reference
definitions; configuration validation against the assumptions of these modules; `Export`.

Theorems: every safety property and every action property a passing run checks is proved; liveness is out
of the prover's reach. The modules left to model would bring their own.
