------------------------------ MODULE Recorder ------------------------------
(***************************************************************************)
(* The files of one observation source: the recorder of a process that     *)
(* checks the pause marker, rotates and prunes, and the operator's pause,  *)
(* resume and clear, which act on the same directory from other processes. *)
(* An event is a row, of one size; a file is named by its place in the     *)
(* order of creation, which is the order of its name.                      *)
(***************************************************************************)
EXTENDS Integers, Sequences, FiniteSets

CONSTANTS Retention, MaxFiles,
          RowsPerFile,                  \* MaxFileBytes, in rows
          MaxTime, MaxCreated, MaxCrashes  \* bounds

VARIABLES
    now,
    paused,     \* the marker exists
    files,      \* every file ever created: where it is, when last written, its rows
    up,         \* the process runs
    step,       \* where Record is, under its mutex
    at,         \* the time it read
    current,    \* the open file, or 0
    openedAt,
    names,      \* the files its pruning has listed and not yet dropped
    clear,      \* where clear is: "idle", "allowed" or "removing"
    todo,       \* the files it has listed and not yet removed
    crashes,    \* and prunings that failed: what MaxCrashes bounds
    unpruned,   \* history: files created since the last pruning that was completed
    quiet       \* history: rows written since the marker was created

vars == <<now, paused, files, up, step, at, current, openedAt, names, clear, todo, crashes,
          unpruned, quiet>>
recordVars == <<step, at, current, openedAt, names>>
clearVars  == <<clear, todo>>

Linked == {f \in DOMAIN files : files[f].place = "linked"}

TypeOK ==
    /\ now \in 0 .. MaxTime /\ at \in 0 .. now /\ openedAt \in 0 .. now
    /\ paused \in BOOLEAN /\ up \in BOOLEAN
    /\ \A f \in DOMAIN files : /\ files[f].place \in {"linked", "cleared", "pruned"}
                               /\ files[f].mod \in 0 .. now /\ files[f].rows \in 0 .. RowsPerFile
    /\ step \in {"idle", "checked", "created", "listed", "pruning"}
    /\ current \in {0} \cup DOMAIN files /\ (~up => current = 0 /\ step = "idle")
    /\ names \subseteq DOMAIN files /\ todo \subseteq DOMAIN files
    /\ clear \in {"idle", "allowed", "removing"} /\ crashes \in 0 .. MaxCrashes
    /\ unpruned \in 0 .. Len(files) /\ quiet \in Nat

Init ==
    /\ now = 0 /\ paused \in BOOLEAN /\ files = <<>> /\ up = FALSE
    /\ step = "idle" /\ at = 0 /\ current = 0 /\ openedAt = 0 /\ names = {}
    /\ clear = "idle" /\ todo = {} /\ crashes = 0 /\ unpruned = 0 /\ quiet = 0

Tick ==
    /\ now < MaxTime /\ now' = now + 1
    /\ UNCHANGED <<paused, files, up, recordVars, clearVars, crashes, unpruned, quiet>>

-----------------------------------------------------------------------------
(* The process: New, Close and the end without Close.                      *)

Start ==
    /\ ~up /\ up' = TRUE
    /\ UNCHANGED <<now, paused, files, recordVars, clearVars, crashes, unpruned, quiet>>

Ends ==
    /\ up /\ up' = FALSE
    /\ step' = "idle" /\ current' = 0 /\ names' = {}
    /\ UNCHANGED <<now, paused, files, at, openedAt, clearVars, unpruned, quiet>>
Close == step = "idle" /\ Ends /\ UNCHANGED crashes
Crash == step # "idle" /\ crashes < MaxCrashes /\ crashes' = crashes + 1 /\ Ends

-----------------------------------------------------------------------------
(* Record.                                                                 *)

Goes(from, to) == up /\ step = from /\ step' = to

\* No marker: the event will be recorded, at the time read now.
CheckPause ==
    /\ Goes("idle", "checked") /\ ~paused
    /\ at' = now
    /\ UNCHANGED <<now, paused, files, up, current, openedAt, names, clearVars, crashes, unpruned, quiet>>

MustRotate ==
    current # 0 => at - openedAt >= Retention \/ files[current].rows >= RowsPerFile

\* rotate closes the open file and creates the next.
Rotate ==
    /\ Goes("checked", "created") /\ MustRotate
    /\ Len(files) < MaxCreated
    /\ files' = Append(files, [place |-> "linked", mod |-> now, rows |-> 0])
    /\ current' = Len(files) + 1 /\ openedAt' = at
    /\ unpruned' = unpruned + 1
    /\ UNCHANGED <<now, paused, up, at, names, clearVars, crashes, quiet>>

\* The directory is full or gone: the event is dropped, and no file is open.
RotateFails ==
    /\ Goes("checked", "idle") /\ MustRotate
    /\ current' = 0
    /\ UNCHANGED <<now, paused, files, up, at, openedAt, names, clearVars, crashes, unpruned, quiet>>

\* The open file could not be closed: the event is dropped, and the file stays
\* the current one.  It is closed all the same, so that every later try fails
\* too, until a restart; here a later one may also succeed.
CloseFails ==
    /\ Goes("checked", "idle") /\ MustRotate /\ current # 0
    /\ UNCHANGED <<now, paused, files, up, at, current, openedAt, names, clearVars, crashes, unpruned,
                   quiet>>

List ==
    /\ Goes("created", "listed")
    /\ names' = Linked
    /\ UNCHANGED <<now, paused, files, up, at, current, openedAt, clearVars, crashes, unpruned, quiet>>

\* Each file listed is inspected; one that is gone by now fails the pruning and
\* drops the event, although its file is open.
Inspected ==
    /\ Goes("listed", "pruning") /\ names \subseteq Linked
    /\ UNCHANGED <<now, paused, files, up, at, current, openedAt, names, clearVars, crashes,
                   unpruned, quiet>>
InspectFails ==
    /\ Goes("listed", "idle") /\ ~(names \subseteq Linked)
    /\ names' = {}
    /\ UNCHANGED <<now, paused, files, up, at, current, openedAt, clearVars, crashes, unpruned, quiet>>

\* Mutants: the open file is not left out; the newest go first.
Oldest_Any == {f \in names : \A g \in names : files[f].mod <= files[g].mod}
\* The first of the sorted files that is not the open one; those of the same
\* time are in any order.
Oldest == {f \in names \ {current} : \A g \in names \ {current} : files[f].mod <= files[g].mod}

Excess(f) == files[f].mod < at - Retention \/ Cardinality(names) > MaxFiles

\* One that clear has removed in between counts as removed.
PruneOne ==
    /\ Goes("pruning", "pruning")
    /\ \E f \in Oldest :
        /\ Excess(f)
        /\ names' = names \ {f}
        /\ files' = IF f \in Linked THEN [files EXCEPT ![f].place = "pruned"] ELSE files
    /\ UNCHANGED <<now, paused, up, at, current, openedAt, clearVars, crashes, unpruned, quiet>>

\* The directory cannot be read, or a file not be inspected or removed: the
\* event is dropped, and the open file goes on without a pruning.
PruneFails ==
    /\ up /\ step \in {"created", "listed", "pruning"} /\ step' = "idle"
    /\ names' = {} /\ crashes < MaxCrashes /\ crashes' = crashes + 1
    /\ UNCHANGED <<now, paused, files, up, at, current, openedAt, clearVars, unpruned, quiet>>

PruningDone == step = "pruning" /\ (Oldest = {} \/ \E f \in Oldest : ~Excess(f))

\* The row goes to the open file, wherever that is.
Write ==
    /\ up /\ step' = "idle"
    /\ \/ step = "checked" /\ ~MustRotate
       \/ PruningDone
    /\ files' = [files EXCEPT ![current].rows = @ + 1, ![current].mod = now]
    /\ quiet' = IF paused THEN quiet + 1 ELSE quiet
    /\ unpruned' = IF step = "pruning" THEN 0 ELSE unpruned
    /\ names' = {}
    /\ UNCHANGED <<now, paused, up, at, current, openedAt, clearVars, crashes>>

-----------------------------------------------------------------------------
(* smartroute observations pause, resume and clear.                        *)

Pause ==
    /\ ~paused /\ paused' = TRUE /\ quiet' = 0
    /\ UNCHANGED <<now, files, up, recordVars, clearVars, crashes, unpruned>>
Resume ==
    /\ paused /\ paused' = FALSE /\ quiet' = 0
    /\ UNCHANGED <<now, files, up, recordVars, clearVars, crashes, unpruned>>

ClearAllowed ==
    /\ clear = "idle" /\ paused /\ Linked # {} /\ clear' = "allowed"
    /\ UNCHANGED <<now, paused, files, up, recordVars, todo, crashes, unpruned, quiet>>
ClearLists ==
    /\ clear = "allowed" /\ clear' = "removing" /\ todo' = Linked
    /\ UNCHANGED <<now, paused, files, up, recordVars, crashes, unpruned, quiet>>

\* In the order of names; a file that pruning removed first ends it.
ClearRemoves ==
    /\ clear = "removing" /\ todo # {}
    /\ LET f == CHOOSE g \in todo : \A h \in todo : g <= h IN
       IF f \in Linked
       THEN /\ files' = [files EXCEPT ![f].place = "cleared"]
            /\ todo' = todo \ {f} /\ UNCHANGED clear
       ELSE todo' = {} /\ clear' = "idle" /\ UNCHANGED files
    /\ UNCHANGED <<now, paused, up, recordVars, crashes, unpruned, quiet>>
ClearDone ==
    /\ clear = "removing" /\ todo = {} /\ clear' = "idle"
    /\ UNCHANGED <<now, paused, files, up, recordVars, todo, crashes, unpruned, quiet>>

Next ==
    \/ Tick \/ Start \/ Close \/ Crash
    \/ CheckPause \/ Rotate \/ RotateFails \/ List \/ Inspected \/ InspectFails \/ PruneOne \/ Write
    \/ CloseFails \/ PruneFails
    \/ Pause \/ Resume \/ ClearAllowed \/ ClearLists \/ ClearRemoves \/ ClearDone

Spec == Init /\ [][Next]_vars

-----------------------------------------------------------------------------
(* Properties.                                                             *)

\* ADR-0009: a source keeps at most max_files_per_source files.  It is over
\* that by no more than the files whose pruning was cut short, by a crash, by an
\* error or by a clear that removed a listed file, or is under way.
BoundedDisk == Cardinality(Linked) <= MaxFiles + unpruned

\* Pruning never unlinks the file that is being written: only clear does.
OpenFileNotPruned == current # 0 => files[current].place # "pruned"

\* A file is pruned for its age, or because of MaxFiles that stay and are at
\* least as new; and when pruning is over, nothing that is too old is left but
\* the open file.
PrunesTheOldest ==
    /\ \A f \in DOMAIN files : f \in Linked /\ files'[f].place = "pruned" =>
           \/ files[f].mod < at - Retention
           \/ /\ Cardinality(names \ {f}) >= MaxFiles
              /\ \A g \in names \ {f, current} : files[g].mod >= files[f].mod
    /\ step = "pruning" /\ unpruned' < unpruned =>
           \A f \in Linked \ {current} : files[f].mod >= at - Retention

\* ADR-0009: the marker is "checked before every record": after a pause at most
\* the one event goes to disk whose check was made before.
PausedIsQuiet == quiet <= 1

\* The test TestRecorderPauseDropsEventsAndResumeContinues: when recording is
\* on again and no command is at work, the file an idle recorder would write
\* its next event to is in the directory, where the reports look.
ResumeContinues ==
    up /\ ~paused /\ clear = "idle" /\ step = "idle" /\ current # 0 => current \in Linked
=============================================================================
