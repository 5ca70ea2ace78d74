----------------------------- MODULE StoreFiles -----------------------------
(***************************************************************************)
(* The files of the learning store: a database and the key its rows are    *)
(* hashed with.  Processes open the pair, creating and migrating it when   *)
(* it is not there; an operator backs it up into a new directory while     *)
(* they write, and restores a backup to a new path.  Every file operation  *)
(* is a step, and any of these may be the last one of its process.         *)
(*                                                                         *)
(* A transaction is one step.  A checksum is injective and is modelled by  *)
(* what it is the checksum of.                                             *)
(***************************************************************************)
EXTENDS Naturals

CONSTANTS Procs,
          MaxRows, MaxKeys, MaxDamage  \* bounds

CurrentSchemaVersion == 2

NoKey    == 0
ShortKey == 1                 \* created, and not written yet
Keys     == 2 .. MaxKeys + 1  \* as they are generated

NoFile == [exists |-> FALSE, whole |-> FALSE, schema |-> 0, rows |-> 0, under |-> {}]
Empty  == [NoFile EXCEPT !.exists = TRUE, !.whole = TRUE]
Torso  == [NoFile EXCEPT !.exists = TRUE]  \* some of a file

NoManifest == [state |-> "absent", db |-> NoFile, key |-> NoKey]

VARIABLES
    live,    \* the configured path: database and key
    step, saw, secret, version,  \* of each process: where it is, what it has read
    made,    \* keys generated
    backup,  \* the directory: made, marker, database, key, manifest
    bstep, bsecret,              \* of smartroute learning backup
    copy,    \* the path restored to: marker, database and key
    rstep, manifest,             \* of smartroute learning restore
    damage,  \* files of the backup that were changed by something else
    floor    \* history: the rows there were when the backup began

openVars    == <<step, saw, secret, version, made>>
backupVars  == <<backup, bstep, bsecret, floor>>
restoreVars == <<copy, rstep, manifest>>
vars == <<live, openVars, backupVars, restoreVars, damage>>

NoBackup == [made |-> FALSE, marker |-> FALSE, db |-> NoFile, key |-> NoKey, manifest |-> NoManifest]

DbOk(db) == /\ db.exists \in BOOLEAN /\ db.whole \in BOOLEAN
            /\ db.schema \in 0 .. CurrentSchemaVersion
            /\ db.rows \in 0 .. MaxRows /\ db.under \subseteq Keys
TypeOK ==
    /\ \A db \in {live.db, copy.db, backup.db, manifest.db} : DbOk(db)
    /\ {live.key, copy.key, backup.key, manifest.key} \subseteq Keys \cup {NoKey, ShortKey}
    /\ step \in [Procs -> {"off", "looked", "creating", "writing", "keyed", "migrating", "up"}]
    /\ saw \in [Procs -> BOOLEAN] /\ secret \in [Procs -> Keys \cup {NoKey}]
    /\ version \in [Procs -> 0 .. CurrentSchemaVersion]
    /\ made \in 0 .. MaxKeys /\ damage \in 0 .. MaxDamage /\ floor \in 0 .. MaxRows

Init ==
    /\ live = [db |-> NoFile, key |-> NoKey]
    /\ step = [p \in Procs |-> "off"] /\ saw = [p \in Procs |-> FALSE]
    /\ secret = [p \in Procs |-> NoKey] /\ version = [p \in Procs |-> 0] /\ made = 0
    /\ backup = NoBackup /\ bstep = "idle" /\ bsecret = NoKey /\ floor = 0
    /\ copy = [db |-> NoFile, key |-> NoKey, marker |-> FALSE]
    /\ rstep = "idle" /\ manifest = NoManifest /\ damage = 0

-----------------------------------------------------------------------------
(* Open, by a process that will write.                                     *)

Goes(p, from, to) == step[p] = from /\ step' = [step EXCEPT ![p] = to]

Look(p) ==
    /\ Goes(p, "off", "looked")
    /\ saw' = [saw EXCEPT ![p] = live.db.exists]
    /\ UNCHANGED <<live, secret, version, made, backupVars, restoreVars, damage>>

\* loadOrCreateSecret finds a key, ...
ReadKey(p) ==
    /\ Goes(p, "looked", "keyed") /\ live.key \in Keys
    /\ secret' = [secret EXCEPT ![p] = live.key]
    /\ UNCHANGED <<live, saw, version, made, backupVars, restoreVars, damage>>

\* ... or none, and may make one, ...
NoKeyYet(p) ==
    /\ Goes(p, "looked", "creating") /\ live.key = NoKey /\ ~saw[p]
    /\ UNCHANGED <<live, saw, secret, version, made, backupVars, restoreVars, damage>>

\* ... or gives up: too short a key, or none for a database that is there.
KeyRefused(p) ==
    /\ Goes(p, "looked", "off")
    /\ live.key = ShortKey \/ (live.key = NoKey /\ saw[p])
    /\ UNCHANGED <<live, saw, secret, version, made, backupVars, restoreVars, damage>>

\* Mutant: a key file that is there is truncated.
CreateKey_Truncates(p) ==
    /\ Goes(p, "creating", "writing")
    /\ live' = [live EXCEPT !.key = ShortKey]
    /\ UNCHANGED <<saw, secret, version, made, backupVars, restoreVars, damage>>
CreateKey(p) ==
    /\ IF live.key = NoKey
       THEN Goes(p, "creating", "writing") /\ live' = [live EXCEPT !.key = ShortKey]
       ELSE Goes(p, "creating", "off") /\ UNCHANGED live
    /\ UNCHANGED <<saw, secret, version, made, backupVars, restoreVars, damage>>
WriteKey(p) ==
    /\ Goes(p, "writing", "keyed") /\ made < MaxKeys /\ made' = made + 1
    /\ live' = [live EXCEPT !.key = made + 2]
    /\ secret' = [secret EXCEPT ![p] = made + 2]
    /\ UNCHANGED <<saw, version, backupVars, restoreVars, damage>>

\* The first statement creates the file; migrate reads the version.
ReadVersion(p) ==
    /\ Goes(p, "keyed", "migrating")
    /\ live' = IF live.db.exists THEN live ELSE [live EXCEPT !.db = Empty]
    /\ version' = [version EXCEPT ![p] = live.db.schema]
    /\ UNCHANGED <<saw, secret, made, backupVars, restoreVars, damage>>

\* Each migration is a transaction, which begins after the version was read.
Migrate(p) ==
    /\ step[p] = "migrating" /\ version[p] < CurrentSchemaVersion
    /\ live.db.schema = version[p]
    /\ live' = [live EXCEPT !.db.schema = @ + 1]
    /\ version' = [version EXCEPT ![p] = @ + 1]
    /\ UNCHANGED <<step, saw, secret, made, backupVars, restoreVars, damage>>
\* Its tables exist by now: another process was faster.
MigrateFails(p) ==
    /\ Goes(p, "migrating", "off") /\ version[p] < live.db.schema
    /\ UNCHANGED <<live, saw, secret, version, made, backupVars, restoreVars, damage>>
Opened(p) ==
    /\ Goes(p, "migrating", "up") /\ version[p] = CurrentSchemaVersion
    /\ UNCHANGED <<live, saw, secret, version, made, backupVars, restoreVars, damage>>

\* A row, hashed with the key this process has in memory.
Append(p) ==
    /\ step[p] = "up" /\ live.db.rows < MaxRows
    /\ live' = [live EXCEPT !.db.rows = @ + 1, !.db.under = @ \cup {secret[p]}]
    /\ UNCHANGED <<openVars, backupVars, restoreVars, damage>>

\* Close, an error of the file system, or a crash.
Ends(p) ==
    /\ step[p] # "off" /\ step' = [step EXCEPT ![p] = "off"]
    /\ UNCHANGED <<live, saw, secret, version, made, backupVars, restoreVars, damage>>

-----------------------------------------------------------------------------
(* smartroute learning backup.                                             *)

Backs(from, to) == bstep = from /\ bstep' = to

\* Backup runs on a store opened with OpenReadOnly, which creates nothing.
BackupOpens ==
    /\ Backs("idle", "opened") /\ ~backup.made
    /\ live.db.exists /\ live.key \in Keys /\ live.db.schema = CurrentSchemaVersion
    /\ bsecret' = live.key /\ floor' = live.db.rows
    /\ UNCHANGED <<live, openVars, backup, restoreVars, damage>>

BackupMakes(from, to, result) ==
    /\ Backs(from, to) /\ backup' = result
    /\ UNCHANGED <<live, openVars, bsecret, floor, restoreVars, damage>>

MakeDirectory == BackupMakes("opened", "made", [backup EXCEPT !.made = TRUE])
MarkBackup    == BackupMakes("made", "marked", [backup EXCEPT !.marker = TRUE])

StartCopy == BackupMakes("marked", "copying", [backup EXCEPT !.db = Torso])

\* The online backup: what it has copied when it finishes is the database of
\* that moment, whoever wrote to it meanwhile.
FinishCopy == BackupMakes("copying", "copied", [backup EXCEPT !.db = live.db])
CopyKey   == BackupMakes("copied", "keying", [backup EXCEPT !.key = ShortKey])
KeyCopied == BackupMakes("keying", "keyed", [backup EXCEPT !.key = bsecret])

\* The snapshot is opened, counted and hashed; then the manifest is written.
WriteManifest == BackupMakes("keyed", "describing", [backup EXCEPT !.manifest.state = "torso"])
ManifestDone  ==
    BackupMakes("describing", "described",
                [backup EXCEPT !.manifest = [state |-> "whole", db |-> backup.db, key |-> backup.key]])

FinalizeBackup == BackupMakes("described", "idle", [backup EXCEPT !.marker = FALSE])

BackupEnds ==
    /\ bstep # "idle" /\ bstep' = "idle"
    /\ UNCHANGED <<live, openVars, backup, bsecret, floor, restoreVars, damage>>

\* Something else changes a file of a backup.
Damage ==
    /\ bstep = "idle" /\ backup.made /\ damage < MaxDamage /\ damage' = damage + 1
    /\ \/ backup.db.exists /\ backup' = [backup EXCEPT !.db.whole = FALSE]
       \/ backup.key # NoKey /\ backup' = [backup EXCEPT !.key = ShortKey]
    /\ UNCHANGED <<live, openVars, bstep, bsecret, floor, restoreVars>>

-----------------------------------------------------------------------------
(* smartroute learning restore, which begins with verify-backup.           *)

Restores(from, to) ==
    /\ rstep = from /\ rstep' = to
    /\ UNCHANGED <<live, openVars, backupVars, damage>>

\* validateBackupFiles: the marker first, then the files, the manifest and
\* the checksums; VerifyBackup repeats them on a private copy.
SeesNoMarker ==
    /\ Restores("idle", "unmarked") /\ backup.made /\ ~backup.marker
    /\ UNCHANGED <<copy, manifest>>
Verifies ==
    /\ Restores("unmarked", "verified") /\ backup.manifest.state = "whole"
    /\ backup.db = backup.manifest.db /\ backup.key = backup.manifest.key
    /\ manifest' = backup.manifest
    /\ UNCHANGED copy

\* Nothing may be at the destination, an old marker included.
FindsRoom ==
    /\ Restores("verified", "clear") /\ ~copy.db.exists /\ copy.key = NoKey /\ ~copy.marker
    /\ UNCHANGED <<copy, manifest>>

RestoreMakes(from, to, result) == Restores(from, to) /\ copy' = result /\ UNCHANGED manifest

MarkRestore == RestoreMakes("clear", "marked", [copy EXCEPT !.marker = TRUE])

\* The database, then the key.
StartDb   == RestoreMakes("marked", "copying", [copy EXCEPT !.db = Torso])
DbCopied  == RestoreMakes("copying", "copied", [copy EXCEPT !.db = backup.db])
\* Mutant: the key is there before the database is.
StartKey_First ==
    \E from \in {"marked", "copied"} :
        RestoreMakes(from, "keying", [copy EXCEPT !.key = ShortKey, !.db = Torso])
StartKey  == RestoreMakes("copied", "keying", [copy EXCEPT !.key = ShortKey])
KeyDone   == RestoreMakes("keying", "keyed", [copy EXCEPT !.key = backup.key])

Rechecks ==
    /\ Restores("keyed", "checked") /\ copy.db = manifest.db /\ copy.key = manifest.key
    /\ UNCHANGED <<copy, manifest>>
FinalizeRestore == RestoreMakes("checked", "idle", [copy EXCEPT !.marker = FALSE])

\* Any refusal above, an error, or a crash.
RestoreEnds == rstep # "idle" /\ Restores(rstep, "idle") /\ UNCHANGED <<copy, manifest>>

Next ==
    \/ \E p \in Procs :
        \/ Look(p) \/ ReadKey(p) \/ NoKeyYet(p) \/ KeyRefused(p) \/ CreateKey(p) \/ WriteKey(p)
        \/ ReadVersion(p) \/ Migrate(p) \/ MigrateFails(p) \/ Opened(p) \/ Append(p) \/ Ends(p)
    \/ BackupOpens \/ MakeDirectory \/ MarkBackup \/ StartCopy \/ FinishCopy \/ CopyKey \/ KeyCopied
    \/ WriteManifest \/ ManifestDone \/ FinalizeBackup \/ BackupEnds \/ Damage
    \/ SeesNoMarker \/ Verifies \/ FindsRoom \/ MarkRestore \/ StartDb \/ DbCopied
    \/ StartKey \/ KeyDone \/ Rechecks \/ FinalizeRestore \/ RestoreEnds

Spec == Init /\ [][Next]_vars

-----------------------------------------------------------------------------
(* Properties.                                                             *)

\* ADR-0012: rows are useless without the key they were hashed with.  However
\* first starts interleave and end half way, every process that has opened the
\* store has the key of every row in it, and its schema is the current one.
OneKeyForAllRows ==
    \A p \in Procs : step[p] = "up" =>
        /\ live.db.under \subseteq {secret[p]} /\ live.key = secret[p]
        /\ live.db.schema = CurrentSchemaVersion

\* What smartroute learning status says of the configured path; an error is
\* that OpenReadOnly refuses the key or the schema.
Health ==
    CASE ~live.db.exists /\ live.key = NoKey -> "absent"
      [] ~live.db.exists /\ live.key # NoKey -> "orphaned_key"
      [] live.db.exists /\ live.key = NoKey  -> "missing_key"
      [] live.db.exists /\ live.key # NoKey  ->
             IF live.key \in Keys /\ live.db.schema = CurrentSchemaVersion THEN "ok" ELSE "error"

\* What first starts that end half way leave behind: nothing, a key alone, a
\* migration that the next start completes, or a healthy store, and that while
\* any process is up.  No database is there without its whole key, which no later
\* start could make up.  The one thing no start recovers from is a key that was
\* created and never written: each refuses it (loadOrCreateSecret wants 32
\* bytes).  But there is then no database, so no row is lost with it.
NoDatabaseWithoutKey ==
    /\ Health # "missing_key" /\ (Health = "error" => live.key \in Keys)
    /\ (\E p \in Procs : step[p] = "up") => Health = "ok"
    /\ \A p \in Procs : step[p] = "looked" /\ live.key \notin Keys => ~saw[p]

\* ADR-0014: a backup that passes verification is one the command finished: a
\* consistent image, with every row written before the command began and none
\* that was never written, and the key of all of them.
VerifiedIsSnapshot ==
    rstep = "verified" =>
        /\ manifest.db.whole /\ manifest.db.schema = CurrentSchemaVersion
        /\ manifest.db.rows \in floor .. live.db.rows
        /\ manifest.key \in Keys /\ manifest.db.under \subseteq {manifest.key}

\* What loadOrCreateSecret lets pass for a database that is there.
WouldOpen(place) == place.db.exists /\ place.key \in Keys

\* Open never looks for the marker of an interrupted restore.  It needs none:
\* wherever restore ended, the destination either does not open or is the whole
\* backup; unless the backup itself changed after its verification.
HalfRestoreNeverOpens ==
    WouldOpen(copy) /\ damage = 0 => copy.db = manifest.db /\ copy.key = manifest.key

\* A restore that removed its marker restored what was verified, and that even
\* if the backup changed while it was copied.
RestoredIsVerified ==
    copy.db.exists /\ ~copy.marker =>
        copy.db = manifest.db /\ copy.key = manifest.key /\ copy.db.whole
=============================================================================
