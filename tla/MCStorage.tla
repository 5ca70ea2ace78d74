------------------------------ MODULE MCStorage ------------------------------
(***************************************************************************)
(* The parts that keep something on disk, each alone, on instances small   *)
(* enough for one run; the first state says which, and the variables of    *)
(* the others never move:                                                  *)
(*   alone     EvidenceStore, one process whose clock runs forward and     *)
(*             whose transactions may fail;                                *)
(*   shared    EvidenceStore, two processes on one database and a clock    *)
(*             that may be set back;                                       *)
(*   files     StoreFiles;                                                 *)
(*   recorder  Recorder;                                                   *)
(*   locks     FixedPolicy.                                                *)
(***************************************************************************)
EXTENDS EvidenceStore, TLC

CONSTANTS Pair, Trio,  \* interchangeable processes
          MaxKeys, MaxDamage,
          MaxFiles, RowsPerFile, MaxTime, MaxCreated, MaxCrashes,
          Ttls, TicksPerMs, MaxSetBacks

ASSUME StorageAssumption ==
    /\ \A n \in {MaxKeys, MaxDamage, MaxTime, MaxCreated, MaxCrashes, MaxSetBacks} : n \in Nat
    /\ \A n \in {MaxFiles, RowsPerFile, TicksPerMs} : n \in Nat \ {0}
    /\ Ttls \subseteq Nat /\ IsFiniteSet(Pair)

\* The instance of the part "alone".
ASSUME AloneAssumption == (\E p \in Procs : Procs = {p}) /\ MayStepBack = FALSE

VARIABLES
    part,
    live, open, saw, secret, version, made, backup, bstep, bsecret, copy, rstep, manifest,
    damage, floor,
    clock, paused, files, up, record, at, file, openedAt, names, clear, todo, crashes, unpruned, quiet,
    wall, schema, rules, pc, cmd, stmt, setBacks

Two == [path \in Paths |-> 2]

Shared == INSTANCE EvidenceStore WITH
    Procs <- Pair, MaxRows <- 1, MayStepBack <- TRUE, MaxClock <- 1, MaxOffers <- 3, MaxFaults <- 0,
    MaxStarts <- 2
Files == INSTANCE StoreFiles WITH Procs <- Pair, step <- open
Recorded == INSTANCE Recorder WITH now <- clock, step <- record, current <- file
Locks == INSTANCE FixedPolicy WITH Commands <- Trio, Targets <- Pair, now <- wall

fileVars   == <<live, open, saw, secret, version, made, backup, bstep, bsecret, copy, rstep, manifest,
                damage, floor>>
recordVars == <<clock, paused, files, up, record, at, file, openedAt, names, clear, todo, crashes,
                unpruned, quiet>>
lockVars   == <<wall, schema, rules, pc, cmd, stmt, setBacks>>
allVars    == <<part, vars, fileVars, recordVars, lockVars>>

MCInit ==
    /\ part \in {"alone", "shared", "files", "recorder", "locks"}
    /\ IF part = "shared" THEN Shared!Init ELSE Init
    /\ Files!Init /\ Recorded!Init /\ Locks!Init
    /\ part # "recorder" => ~paused

Stored == /\ \/ part = "alone" /\ Next
             \/ part = "shared" /\ Shared!Next
          /\ UNCHANGED <<fileVars, recordVars, lockVars>>
MCNext ==
    /\ UNCHANGED part
    /\ \/ Stored
       \/ /\ part = "files" /\ Files!Next
          /\ UNCHANGED <<vars, recordVars, lockVars>>
       \/ /\ part = "recorder" /\ Recorded!Next
          /\ UNCHANGED <<vars, fileVars, lockVars>>
       \/ /\ part = "locks" /\ Locks!Next
          /\ UNCHANGED <<vars, fileVars, recordVars>>

MCSpec == MCInit /\ [][MCNext]_allVars

\* Processes and commands are interchangeable, and nothing refers to one by
\* its name: of each part it matters how many are in which state.
Counts(S, State(_)) ==
    LET states == {State(x) : x \in S} IN [v \in states |-> Cardinality({x \in S : State(x) = v})]

\* The properties of the evidence table two processes share do not look at
\* what was suggested; of a command that is over nothing matters; and the
\* recorder reads the rows of the open file only, the time of a file only while
\* it is linked or listed, and its own two times only inside Record or while a
\* file is open.
WriterState(p)  == <<life[p], session[p], queue[p], step[p], current[p], since[p]>>
OpenState(p)    == <<open[p], saw[p], secret[p], version[p]>>
CommandState(c) == IF pc[c] \in {"done", "not found", "refused", "over"} THEN <<>>
                   ELSE <<pc[c], cmd[c], stmt[c]>>

SharedView == <<tables, now, starts, offers, faults, untrimmed, Counts(Pair, WriterState)>>
FileView   == <<live, made, backup, bstep, bsecret, copy, rstep, manifest, damage, floor,
                Counts(Pair, OpenState)>>
FileState(f) == <<files[f].place,
                  IF files[f].place = "linked" \/ f \in names THEN files[f].mod ELSE 0,
                  IF f = file THEN files[f].rows ELSE 0>>
RecordView == <<clock, paused, [f \in DOMAIN files |-> FileState(f)], up, record,
                IF record = "idle" THEN 0 ELSE at, file, IF file = 0 THEN 0 ELSE openedAt,
                names, clear, todo, crashes, unpruned, quiet>>
LockView   == <<wall, schema, rules, setBacks, Counts(Trio, CommandState)>>

View == <<part, CASE part = "alone"    -> vars
                  [] part = "shared"   -> SharedView
                  [] part = "files"    -> FileView
                  [] part = "recorder" -> RecordView
                  [] part = "locks"    -> LockView>>

-----------------------------------------------------------------------------
(* The properties of each part.                                            *)

\* Every variable of the part that runs keeps its type.
StorageTypeOK ==
    CASE part = "shared"   -> Shared!TypeOK
      [] part = "files"    -> Files!TypeOK
      [] part = "recorder" -> Recorded!TypeOK
      [] part = "locks"    -> Locks!TypeOK
      [] OTHER             -> TypeOK

Alone  == part = "alone"
Stores == part \in {"alone", "shared"}

\* The evidence table, of any number of processes: the rows above the ceiling
\* are those of writers that owe a trim, TrimEvery each but for failures, and
\* none when all have just started or closed in time.  ADR-0036 promises more:
\* see the properties of EvidenceStore.
ExcessAccounted ==
    /\ StorageTypeOK
    /\ Stores => IF Alone THEN RowsAccounted /\ CeilingKept
                 ELSE Shared!RowsAccounted /\ Shared!CeilingKept

\* No row is without its session; and, of a process alone (what two do to each
\* other's sessions, see the README), its session stays registered while it
\* writes.
SessionsRegistered == /\ Stores => ReferencesHold
                      /\ Alone => SessionStaysRegistered

\* Whatever has to be deleted, the newest is kept: of the rows by every trim, of
\* the observation files by every pruning.
NewestAreKept ==
    [][/\ Stores => IF Alone THEN KeepsNewest ELSE Shared!KeepsNewest
       /\ part = "recorder" => Recorded!PrunesTheOldest]_allVars

\* An assessment counts the row just written, and the report of the operator
\* every row within the retention.
EvidenceIsCounted == Alone => AssessmentSeesItsRow /\ ReportAddsUp

\* What is suggested rests on sessions that are independent.
VerdictIsIndependent == [][Alone => SuggestsIndependently]_allVars

\* However first starts of two processes interleave and end half way, those that
\* open the store share one key, and no database is left without it; a start that
\* ended between creating and writing the key leaves one that all others refuse,
\* and no database.
OneKeyForAllRows == part = "files" => Files!OneKeyForAllRows /\ Files!NoDatabaseWithoutKey

\* A backup that verifies is a snapshot with its key; what a restore leaves
\* behind opens only if it is the whole backup, and is that when it says so.
CopiesAreComplete ==
    part = "files" =>
        Files!VerifiedIsSnapshot /\ Files!HalfRestoreNeverOpens /\ Files!RestoredIsVerified

\* The recorder's disk is bounded but for prunings cut short, it never prunes
\* what it writes to, and it is quiet when paused.
RecorderIsContained ==
    part = "recorder" =>
        Recorded!BoundedDisk /\ Recorded!OpenFileNotPruned /\ Recorded!PausedIsQuiet

\* No target has two manual locks, and no stored row is unreadable.
OneLockPerTarget == part = "locks" => Locks!OneLockPerTarget /\ Locks!StoredIsReadable

\* A lock is refused only for its time, and the table is a history.
LocksAreRefusedForTheirTime ==
    [][part = "locks" => Locks!RefusedForItsTime /\ Locks!KeepsHistory]_allVars
=============================================================================
