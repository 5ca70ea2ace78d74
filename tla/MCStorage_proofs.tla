-------------------------- MODULE MCStorage_proofs --------------------------
(***************************************************************************)
(* Proofs about the parts that keep something on disk, for any number of   *)
(* processes, commands, rows and files: the files of the store with their  *)
(* backup and restore, the recorder's directory and the table of manual    *)
(* locks.                                                                  *)
(***************************************************************************)
EXTENDS MCStorage, EvidenceStore_proofs, SequenceTheorems

-----------------------------------------------------------------------------
(* The files of the store: the inductive invariant.                        *)

FileKeys  == Files!Keys \cup {Files!NoKey, Files!ShortKey}
Databases == [exists : BOOLEAN, whole : BOOLEAN, schema : 0 .. 2, rows : 0 .. MaxRows,
              under : SUBSET Files!Keys]
Manifests == [state : {"absent", "torso", "whole"}, db : Databases, key : FileKeys]

LiveTypes ==
    /\ live \in [db : Databases, key : FileKeys]
    /\ open \in [Pair -> {"off", "looked", "creating", "writing", "keyed", "migrating", "up"}]
    /\ saw \in [Pair -> BOOLEAN] /\ secret \in [Pair -> Files!Keys \cup {Files!NoKey}]
    /\ version \in [Pair -> 0 .. 2] /\ made \in 0 .. MaxKeys
BackupTypes ==
    /\ backup \in [made : BOOLEAN, marker : BOOLEAN, db : Databases, key : FileKeys,
                   manifest : Manifests]
    /\ bsecret \in Files!Keys \cup {Files!NoKey} /\ floor \in 0 .. MaxRows
    /\ damage \in 0 .. MaxDamage
    /\ bstep \in {"idle", "opened", "made", "marked", "copying", "copied", "keying", "keyed",
                  "describing", "described"}
RestoreTypes ==
    /\ copy \in [db : Databases, key : FileKeys, marker : BOOLEAN] /\ manifest \in Manifests
    /\ rstep \in {"idle", "unmarked", "verified", "clear", "marked", "copying", "copied", "keying",
                  "keyed", "checked"}

\* A process that has the key has the key of the file, one that migrates has
\* created the database, ...
Holder(p) ==
    /\ open[p] = "looked" /\ saw[p] => live.db.exists
    /\ open[p] = "writing" => live.key = Files!ShortKey
    /\ open[p] \in {"keyed", "migrating", "up"} => live.key \in Files!Keys /\ secret[p] = live.key
    /\ open[p] \in {"migrating", "up"} => live.db.exists
    /\ open[p] = "migrating" => version[p] <= live.db.schema
    /\ open[p] = "up" => live.db.schema = 2

\* ... one process at most writes the key, and there is no database before it
\* is written.
LiveInv ==
    /\ LiveTypes
    /\ \A p, q \in Pair : open[p] = "writing" /\ open[q] = "writing" => p = q
    /\ \A p \in Pair : Holder(p)
    /\ live.db.exists => live.key \in Files!Keys
    /\ live.db.whole = live.db.exists
    /\ live.db.under \subseteq {live.key}
    /\ ~live.db.exists => live.db = Files!NoFile

\* An image of the database after floor rows, and its key.
Snapshot(db, key) ==
    /\ db.exists /\ db.whole /\ db.schema = 2
    /\ floor <= db.rows /\ db.rows <= live.db.rows
    /\ key = live.key /\ db.under \subseteq {key}

\* The backup is made once; its database is an image from the end of the copy,
\* and what its manifest says stays true of it until it is damaged.
BackupInv ==
    /\ BackupTypes
    /\ bstep # "idle" => /\ bsecret = live.key /\ live.db.exists /\ live.db.schema = 2
                         /\ floor <= live.db.rows
    /\ bstep \notin {"idle", "opened"} => backup.made
    /\ ~backup.made => backup = Files!NoBackup
    /\ bstep \in {"copied", "keying", "keyed", "describing"} => Snapshot(backup.db, live.key)
    /\ bstep \in {"keyed", "describing"} => backup.key = live.key
    /\ backup.manifest.state = "whole" =>
         /\ bstep \in {"idle", "described"} /\ live.db.exists
         /\ Snapshot(backup.manifest.db, backup.manifest.key)
         /\ damage = 0 => backup.db = backup.manifest.db /\ backup.key = backup.manifest.key
    /\ backup.manifest.state # "whole" => bstep # "described"

\* A restore has verified what it writes; the key comes after the whole
\* database, and the marker is there until both were compared.
RestoreInv ==
    /\ RestoreTypes
    /\ manifest.state = "whole" => manifest = backup.manifest
    /\ manifest.state # "whole" => /\ manifest = Files!NoManifest /\ rstep \in {"idle", "unmarked"}
                                   /\ ~copy.db.exists /\ copy.key = Files!NoKey /\ ~copy.marker
    /\ rstep \in {"marked", "copying", "copied", "keying", "keyed", "checked"} => copy.marker
    /\ rstep \in {"clear", "marked"} => ~copy.db.exists
    /\ rstep \in {"clear", "marked", "copying", "copied"} => copy.key = Files!NoKey
    /\ rstep = "clear" => ~copy.marker
    /\ damage = 0 /\ (rstep \in {"copied", "keying"} \/ copy.key # Files!NoKey) => copy.db = manifest.db
    /\ damage = 0 /\ copy.key \in Files!Keys => copy.key = manifest.key
    /\ rstep = "checked" \/ (~copy.marker /\ (copy.db.exists \/ copy.key # Files!NoKey)) =>
          copy.db = manifest.db /\ copy.key = manifest.key

FilesInv == LiveInv /\ BackupInv /\ RestoreInv

LEMMA KeyNames ==
    /\ Files!NoKey = 0 /\ Files!ShortKey = 1 /\ Files!Keys = 2 .. MaxKeys + 1
    /\ Files!CurrentSchemaVersion = 2
    /\ Files!NoKey \notin Files!Keys /\ Files!ShortKey \notin Files!Keys
    /\ Files!NoKey # Files!ShortKey
BY DEF Files!NoKey, Files!ShortKey, Files!Keys, Files!CurrentSchemaVersion

LEMMA BoundFacts ==
    /\ MaxRows \in Nat /\ MaxRows > 0 /\ MaxKeys \in Nat /\ MaxDamage \in Nat
    /\ 0 \in 0 .. MaxRows /\ 0 \in 0 .. MaxKeys /\ 0 \in 0 .. MaxDamage
<1>1. MaxRows \in Nat \ {0}  BY EvidenceAssumption
<1>2. MaxKeys \in Nat /\ MaxDamage \in Nat  BY StorageAssumption
<1> QED  BY <1>1, <1>2

LEMMA FileNames ==
    /\ Files!NoFile \in Databases /\ Files!Empty \in Databases /\ Files!Torso \in Databases
    /\ ~Files!NoFile.exists /\ ~Files!NoFile.whole /\ Files!NoFile.under = {}
    /\ Files!Empty.exists = TRUE /\ Files!Empty.whole = TRUE /\ Files!Empty.under = {}
    /\ Files!Empty.schema = 0 /\ Files!Empty.rows = 0
    /\ Files!NoFile.schema = 0 /\ Files!NoFile.rows = 0
    /\ Files!Torso.exists
    /\ Files!NoManifest \in Manifests /\ Files!NoManifest.state = "absent"
<1>1. Files!NoFile \in Databases  BY BoundFacts DEF Files!NoFile, Databases
<1>2. Files!Empty \in Databases /\ Files!Torso \in Databases
      BY <1>1 DEF Files!NoFile, Files!Empty, Files!Torso, Databases
<1>3. Files!NoManifest \in Manifests /\ Files!NoManifest.state = "absent"
      BY <1>1 DEF Files!NoManifest, Manifests, FileKeys
<1> QED  BY <1>1, <1>2, <1>3 DEF Files!NoFile, Files!Empty, Files!Torso

LEMMA FilesInit == Files!Init => FilesInv
<1> SUFFICES ASSUME Files!Init PROVE FilesInv  OBVIOUS
<1> USE KeyNames, FileNames, BoundFacts DEF Files!Init
<1>1. LiveTypes  BY DEF LiveTypes, FileKeys
<1>2. BackupTypes  BY DEF BackupTypes, FileKeys, Files!NoBackup
<1>3. RestoreTypes  BY DEF RestoreTypes, FileKeys
<1>4. LiveInv  BY <1>1 DEF LiveInv, Holder, Files!NoFile
<1>5. BackupInv  BY <1>2 DEF BackupInv, Files!NoBackup
<1>6. RestoreInv  BY <1>3 DEF RestoreInv
<1> QED  BY <1>4, <1>5, <1>6 DEF FilesInv

\* A process takes nothing away from what the backup has seen.
LiveGrows ==
    /\ live.key \in Files!Keys => live'.key = live.key
    /\ live.db.exists => live'.db.exists
    /\ live.db.schema <= live'.db.schema /\ live.db.rows <= live'.db.rows

\* What is true of a process stays true while the others move.
LEMMA HolderOthers ==
    ASSUME LiveInv, NEW x \in Pair, LiveGrows, LiveTypes',
           open'[x] = open[x], saw'[x] = saw[x], secret'[x] = secret[x], version'[x] = version[x],
           open[x] = "writing" => live'.key = live.key
    PROVE  Holder(x)'
<1>1. Holder(x)  BY DEF LiveInv
<1>2. live.db.schema \in 0 .. 2 /\ live'.db.schema \in 0 .. 2 /\ version[x] \in 0 .. 2
      BY DEF LiveInv, LiveTypes, Databases
<1> QED  BY <1>1, <1>2, KeyNames DEF Holder, LiveGrows

\* A step of a process that opens the store, writes to it, or ends.
LEMMA ProcessStep ==
    ASSUME LiveInv, NEW p \in Pair,
           \/ Files!Look(p) \/ Files!ReadKey(p) \/ Files!NoKeyYet(p) \/ Files!KeyRefused(p)
           \/ Files!CreateKey(p) \/ Files!WriteKey(p) \/ Files!ReadVersion(p) \/ Files!Migrate(p)
           \/ Files!MigrateFails(p) \/ Files!Opened(p) \/ Files!Append(p) \/ Files!Ends(p)
    PROVE  LiveInv' /\ LiveGrows
<1> USE KeyNames, FileNames DEF Files!Goes
<1>1. LiveTypes /\ Holder(p)  BY DEF LiveInv
<1>2. /\ live.db \in Databases /\ live.key \in FileKeys /\ version[p] \in 0 .. 2
      /\ live.db.schema \in 0 .. 2 /\ live.db.rows \in 0 .. MaxRows
      /\ live.db.exists \in BOOLEAN /\ live.db.under \subseteq Files!Keys
      BY <1>1 DEF LiveTypes, Databases
<1> DEFINE Kept ==
        /\ LiveTypes' /\ LiveGrows
        /\ \A x \in Pair \ {p} : /\ open'[x] = open[x] /\ saw'[x] = saw[x]
                                /\ secret'[x] = secret[x] /\ version'[x] = version[x]
        /\ \A x \in Pair \ {p} : open[x] = "writing" => live'.key = live.key /\ open'[p] # "writing"
        /\ Holder(p)'
        /\ live'.db.exists => live'.key \in Files!Keys
        /\ live'.db.whole = live'.db.exists
        /\ live'.db.under \subseteq {live'.key}
        /\ ~live'.db.exists => live'.db = Files!NoFile
<1> SUFFICES Kept
  <2>1. ASSUME Kept, NEW x \in Pair \ {p} PROVE Holder(x)'  BY <2>1, HolderOthers
  <2>2. ASSUME Kept, NEW x \in Pair, NEW y \in Pair, open'[x] = "writing", open'[y] = "writing"
        PROVE  x = y
        BY <2>2 DEF LiveInv
  <2> QED  BY <2>1, <2>2 DEF LiveInv
<1>3. \A x \in Pair : open[x] = "writing" => live.key = Files!ShortKey  BY DEF LiveInv, Holder
<1>4. ASSUME live' = live
      PROVE  /\ LiveGrows
             /\ live'.db.exists => live'.key \in Files!Keys
             /\ live'.db.whole = live'.db.exists
             /\ live'.db.under \subseteq {live'.key}
             /\ ~live'.db.exists => live'.db = Files!NoFile
      BY <1>2, <1>4 DEF LiveInv, LiveGrows
<1>5. CASE Files!Look(p)
      BY <1>1, <1>2, <1>3, <1>4, <1>5 DEF Files!Look, LiveTypes, Holder
<1>6. CASE Files!ReadKey(p)
      BY <1>1, <1>2, <1>3, <1>4, <1>6 DEF Files!ReadKey, LiveTypes, Holder
<1>7. CASE Files!NoKeyYet(p)
      BY <1>1, <1>2, <1>3, <1>4, <1>7 DEF Files!NoKeyYet, LiveTypes, Holder
<1>8. CASE Files!KeyRefused(p)
      BY <1>1, <1>2, <1>3, <1>4, <1>8 DEF Files!KeyRefused, LiveTypes, Holder
<1>9. CASE Files!MigrateFails(p)
      BY <1>1, <1>2, <1>3, <1>4, <1>9 DEF Files!MigrateFails, LiveTypes, Holder
<1>same. CASE Files!Opened(p)
      BY <1>1, <1>2, <1>3, <1>4, <1>same DEF Files!Opened, LiveTypes, Holder
<1>11. CASE Files!Ends(p)
      BY <1>1, <1>2, <1>3, <1>4, <1>11 DEF Files!Ends, LiveTypes, Holder
<1>12. CASE Files!CreateKey(p)
  <2>1. CASE live' = live
        BY <1>1, <1>3, <1>4, <1>12, <2>1 DEF Files!CreateKey, LiveTypes, Holder
  <2>2. CASE live.key = Files!NoKey /\ live' = [live EXCEPT !.key = Files!ShortKey]
    <3>1. live' \in [db : Databases, key : FileKeys] /\ live'.db = live.db /\ live'.key = Files!ShortKey
          BY <1>1, <2>2 DEF LiveTypes, FileKeys
    <3>2. ~live.db.exists /\ live.db.under = {}  BY <1>2, <2>2 DEF LiveInv
    <3> QED  BY <1>1, <1>2, <1>3, <1>12, <2>2, <3>1, <3>2
             DEF Files!CreateKey, LiveInv, LiveTypes, LiveGrows, Holder
  <2> QED  BY <1>12, <2>1, <2>2 DEF Files!CreateKey
<1>13. CASE Files!WriteKey(p)
  <2>1. made + 2 \in Files!Keys /\ made' \in 0 .. MaxKeys
        BY <1>1, <1>13, BoundFacts DEF Files!WriteKey, LiveTypes
  <2>2. /\ live' \in [db : Databases, key : FileKeys] /\ live'.db = live.db /\ live'.key = made + 2
        /\ open[p] = "writing" /\ open' = [open EXCEPT ![p] = "keyed"]
        /\ secret' = [secret EXCEPT ![p] = made + 2] /\ UNCHANGED <<saw, version>>
        BY <1>1, <1>13, <2>1 DEF Files!WriteKey, LiveTypes, FileKeys
  <2>3. live.key = Files!ShortKey /\ ~live.db.exists /\ live.db.under = {}
        /\ \A x \in Pair \ {p} : open[x] # "writing"
        BY <1>2, <1>3, <2>2 DEF LiveInv
  <2> QED  BY <1>1, <1>2, <2>1, <2>2, <2>3 DEF LiveInv, LiveTypes, LiveGrows, Holder
<1>14. CASE Files!ReadVersion(p)
  <2>1. /\ open[p] = "keyed" /\ open' = [open EXCEPT ![p] = "migrating"]
        /\ version' = [version EXCEPT ![p] = live.db.schema] /\ UNCHANGED <<saw, secret, made>>
        BY <1>14 DEF Files!ReadVersion
  <2>2. live.key \in Files!Keys  BY <1>1, <2>1 DEF Holder
  <2>3. CASE live.db.exists
    <3>1. live' = live  BY <1>14, <2>3 DEF Files!ReadVersion
    <3> QED  BY <1>1, <1>2, <1>3, <1>4, <2>1, <2>3, <3>1 DEF LiveTypes, Holder
  <2>4. CASE ~live.db.exists
    <3>1. live' \in [db : Databases, key : FileKeys] /\ live'.db = Files!Empty /\ live'.key = live.key
          BY <1>1, <1>14, <2>4 DEF Files!ReadVersion, LiveTypes
    <3>2. live.db.schema = 0 /\ live.db.rows = 0  BY <2>4 DEF LiveInv, Files!NoFile
    <3>3. LiveTypes'  BY <1>1, <1>2, <2>1, <3>1 DEF LiveTypes
    <3>4. LiveGrows  BY <2>4, <3>1, <3>2 DEF LiveGrows
    <3>5. Holder(p)'
      <4>1. open'[p] = "migrating" /\ version'[p] = 0  BY <1>1, <2>1, <3>2 DEF LiveTypes
      <4> QED  BY <1>1, <2>1, <2>2, <3>1, <4>1 DEF Holder
    <3>6. \A x \in Pair \ {p} : /\ open'[x] = open[x] /\ saw'[x] = saw[x]
                                /\ secret'[x] = secret[x] /\ version'[x] = version[x]
          BY <1>1, <2>1 DEF LiveTypes
    <3>7. open'[p] # "writing"  BY <1>1, <2>1 DEF LiveTypes
    <3>8. /\ live'.db.exists => live'.key \in Files!Keys
          /\ live'.db.whole = live'.db.exists
          /\ live'.db.under \subseteq {live'.key}
          /\ ~live'.db.exists => live'.db = Files!NoFile
          BY <2>2, <3>1
    <3>9. \A x \in Pair \ {p} : open[x] = "writing" => live'.key = live.key /\ open'[p] # "writing"
          BY <3>1, <3>7
    <3> QED  BY <3>3, <3>4, <3>5, <3>6, <3>8, <3>9
  <2> QED  BY <2>3, <2>4
<1>15. CASE Files!Migrate(p)
  <2>1. /\ open[p] = "migrating" /\ version[p] < 2 /\ live.db.schema = version[p]
        /\ live' = [live EXCEPT !.db.schema = @ + 1] /\ version' = [version EXCEPT ![p] = @ + 1]
        /\ UNCHANGED <<open, saw, secret, made>>
        BY <1>15 DEF Files!Migrate
  <2>2. /\ live'.key = live.key /\ live'.db = [live.db EXCEPT !.schema = live.db.schema + 1]
        /\ live' = [live EXCEPT !.db = live'.db]
        BY <1>1, <2>1 DEF LiveTypes
  <2>3. live'.db \in Databases  BY <1>2, <2>1, <2>2 DEF Databases
  <2>4. live' \in [db : Databases, key : FileKeys]  BY <1>1, <2>2, <2>3 DEF LiveTypes
  <2>5. /\ live'.db.schema = live.db.schema + 1 /\ live'.db.rows = live.db.rows
        /\ live'.db.exists = live.db.exists /\ live'.db.whole = live.db.whole
        /\ live'.db.under = live.db.under
        BY <1>2, <2>2 DEF Databases
  <2> QED  BY <1>1, <1>2, <1>3, <2>1, <2>2, <2>4, <2>5 DEF LiveInv, LiveTypes, LiveGrows, Holder
<1>16. CASE Files!Append(p)
  <2>1. /\ open[p] = "up" /\ live.db.rows < MaxRows
        /\ live' = [live EXCEPT !.db.rows = @ + 1, !.db.under = @ \cup {secret[p]}]
        /\ UNCHANGED <<open, saw, secret, version, made>>
        BY <1>16 DEF Files!Append, Files!openVars
  <2>2. /\ live'.key = live.key
        /\ live'.db = [live.db EXCEPT !.rows = live.db.rows + 1, !.under = live.db.under \cup {secret[p]}]
        /\ live' = [live EXCEPT !.db = live'.db]
        BY <1>1, <2>1 DEF LiveTypes
  <2>3. live.key \in Files!Keys /\ secret[p] = live.key  BY <1>1, <2>1 DEF Holder
  <2>4. live'.db \in Databases
    <3>1. live.db.rows + 1 \in 0 .. MaxRows  BY <1>2, <2>1, BoundFacts
    <3>2. live.db.under \cup {secret[p]} \in SUBSET Files!Keys  BY <1>2, <2>3
    <3> QED  BY <1>2, <2>2, <3>1, <3>2 DEF Databases
  <2>5. live' \in [db : Databases, key : FileKeys]  BY <1>1, <2>2, <2>4 DEF LiveTypes
  <2>6. /\ live'.db.schema = live.db.schema /\ live'.db.rows = live.db.rows + 1
        /\ live'.db.exists = live.db.exists /\ live'.db.whole = live.db.whole
        /\ live'.db.under = live.db.under \cup {live.key}
        BY <1>2, <2>2, <2>3 DEF Databases
  <2> QED  BY <1>1, <1>2, <1>3, <2>1, <2>2, <2>3, <2>5, <2>6 DEF LiveInv, LiveTypes, LiveGrows, Holder
<1> QED  BY <1>5, <1>6, <1>7, <1>8, <1>9, <1>same, <1>11, <1>12, <1>13, <1>14, <1>15, <1>16

\* The backup and the restore have seen what a process cannot take away.
LEMMA BackupOthers ==
    ASSUME LiveInv, BackupInv, LiveTypes', LiveGrows,
           UNCHANGED <<backup, bstep, bsecret, floor, damage>>
    PROVE  BackupInv'
<1>1. /\ live.db.schema \in 0 .. 2 /\ live'.db.schema \in 0 .. 2
      /\ live.db.rows \in 0 .. MaxRows /\ live'.db.rows \in 0 .. MaxRows
      /\ floor \in 0 .. MaxRows /\ backup.db.rows \in 0 .. MaxRows
      /\ backup.manifest.db.rows \in 0 .. MaxRows
      BY DEF LiveInv, LiveTypes, BackupInv, BackupTypes, Databases, Manifests
<1>2. live.db.exists => live'.db.exists /\ live'.key = live.key /\ live.db.rows <= live'.db.rows
      BY DEF LiveInv, LiveGrows
<1>3. ASSUME NEW db, NEW key, db.rows \in 0 .. MaxRows, live.db.exists, Snapshot(db, key)
      PROVE  Snapshot(db, key)'
      BY <1>1, <1>2, <1>3 DEF Snapshot
<1>4. bstep \in {"copied", "keying", "keyed", "describing"} => Snapshot(backup.db, live.key)'
      BY <1>1, <1>2, <1>3 DEF BackupInv
<1>5. backup.manifest.state = "whole" => Snapshot(backup.manifest.db, backup.manifest.key)'
      BY <1>1, <1>3 DEF BackupInv
<1>6. BackupTypes'  BY DEF BackupInv, BackupTypes
<1>7. bstep # "idle" => /\ bsecret = live'.key /\ live'.db.exists /\ live'.db.schema = 2
                        /\ floor <= live'.db.rows
      BY <1>1, <1>2 DEF BackupInv, LiveGrows
<1> QED  BY <1>2, <1>4, <1>5, <1>6, <1>7 DEF BackupInv

\* A step of the backup, or damage to its files; the processes and the restore
\* stand still.
LEMMA BackupStep ==
    ASSUME LiveInv, BackupInv,
           \/ Files!BackupOpens \/ Files!MakeDirectory \/ Files!MarkBackup \/ Files!StartCopy
           \/ Files!FinishCopy \/ Files!CopyKey \/ Files!KeyCopied \/ Files!WriteManifest
           \/ Files!ManifestDone \/ Files!FinalizeBackup \/ Files!BackupEnds \/ Files!Damage
    PROVE  /\ BackupInv'
           /\ UNCHANGED <<live, open, saw, secret, version, made, copy, rstep, manifest>>
           /\ backup.manifest.state = "whole" => backup'.manifest = backup.manifest
           /\ damage' = 0 => damage = 0
<1> USE KeyNames, FileNames
        DEF Files!Backs, Files!BackupMakes, Files!openVars, Files!restoreVars, Files!backupVars
<1>1. LiveTypes /\ BackupTypes  BY DEF LiveInv, BackupInv
<1>2. /\ live.db \in Databases /\ live.key \in FileKeys /\ bsecret \in FileKeys
      /\ backup.db \in Databases /\ backup.key \in FileKeys /\ backup.manifest \in Manifests
      /\ live.db.rows \in 0 .. MaxRows
      BY <1>1 DEF LiveTypes, BackupTypes, FileKeys, Databases
<1>3. CASE Files!BackupOpens
      BY <1>1, <1>2, <1>3 DEF Files!BackupOpens, LiveInv, BackupInv, BackupTypes, Snapshot,
         Files!NoBackup
<1>4. CASE Files!MakeDirectory
      BY <1>1, <1>2, <1>4 DEF Files!MakeDirectory, BackupInv, BackupTypes, Snapshot, Files!NoBackup
<1>5. CASE Files!MarkBackup
      BY <1>1, <1>2, <1>5 DEF Files!MarkBackup, BackupInv, BackupTypes, Snapshot, Files!NoBackup
<1>6. CASE Files!StartCopy
      BY <1>1, <1>2, <1>6 DEF Files!StartCopy, BackupInv, BackupTypes, Snapshot, Files!NoBackup
<1>7. CASE Files!FinishCopy
      BY <1>1, <1>2, <1>7 DEF Files!FinishCopy, LiveInv, BackupInv, BackupTypes, Snapshot, Files!NoBackup
<1>8. CASE Files!CopyKey
      BY <1>1, <1>2, <1>8 DEF Files!CopyKey, BackupInv, BackupTypes, Snapshot, FileKeys
<1>9. CASE Files!KeyCopied
      BY <1>1, <1>2, <1>9 DEF Files!KeyCopied, BackupInv, BackupTypes, Snapshot
<1>same. CASE Files!WriteManifest
      BY <1>1, <1>2, <1>same DEF Files!WriteManifest, BackupInv, BackupTypes, Snapshot, Manifests
<1>11. CASE Files!ManifestDone
      BY <1>1, <1>2, <1>11 DEF Files!ManifestDone, BackupInv, BackupTypes, Snapshot, Manifests
<1>12. CASE Files!FinalizeBackup
      BY <1>1, <1>2, <1>12 DEF Files!FinalizeBackup, BackupInv, BackupTypes, Snapshot
<1>13. CASE Files!BackupEnds
      BY <1>1, <1>2, <1>13 DEF Files!BackupEnds, BackupInv, BackupTypes, Snapshot
<1>14. CASE Files!Damage
  <2>1. /\ bstep = "idle" /\ backup.made /\ damage < MaxDamage /\ damage' = damage + 1
        /\ UNCHANGED <<live, open, saw, secret, version, made, bstep, bsecret, floor,
                       copy, rstep, manifest>>
        BY <1>14 DEF Files!Damage
  <2>2. damage' \in 0 .. MaxDamage /\ damage' # 0  BY <1>1, <2>1, BoundFacts DEF BackupTypes
  <2>3. /\ backup' \in [made : BOOLEAN, marker : BOOLEAN, db : Databases, key : FileKeys,
                        manifest : Manifests]
        /\ backup'.made = backup.made /\ backup'.manifest = backup.manifest
    <3>1. CASE backup' = [backup EXCEPT !.db.whole = FALSE]
      <4>1. [backup.db EXCEPT !.whole = FALSE] \in Databases  BY <1>2 DEF Databases
      <4> QED  BY <1>1, <3>1, <4>1 DEF BackupTypes
    <3>2. CASE backup' = [backup EXCEPT !.key = Files!ShortKey]
          BY <1>1, <3>2 DEF BackupTypes, FileKeys
    <3> QED  BY <1>14, <3>1, <3>2 DEF Files!Damage
  <2>4. BackupTypes'  BY <1>1, <2>1, <2>2, <2>3 DEF BackupTypes
  <2> QED  BY <2>1, <2>2, <2>3, <2>4 DEF BackupInv, Snapshot
<1> QED  BY <1>3, <1>4, <1>5, <1>6, <1>7, <1>8, <1>9, <1>same, <1>11, <1>12, <1>13, <1>14

\* The restore stands still.
LEMMA RestoreOthers ==
    ASSUME RestoreInv, UNCHANGED <<copy, rstep, manifest>>,
           backup.manifest.state = "whole" => backup'.manifest = backup.manifest,
           manifest.state = "whole" => backup.manifest.state = "whole",
           damage' = 0 => damage = 0
    PROVE  RestoreInv'
BY DEF RestoreInv, RestoreTypes

\* A step of the restore.
LEMMA RestoreStep ==
    ASSUME BackupInv, RestoreInv,
           \/ Files!SeesNoMarker \/ Files!Verifies \/ Files!FindsRoom \/ Files!MarkRestore
           \/ Files!StartDb \/ Files!DbCopied \/ Files!StartKey \/ Files!KeyDone
           \/ Files!Rechecks \/ Files!FinalizeRestore \/ Files!RestoreEnds
    PROVE  RestoreInv' /\ UNCHANGED <<live, open, saw, secret, version, made, backup, bstep,
                                      bsecret, floor, damage>>
<1> USE KeyNames, FileNames
        DEF Files!Restores, Files!RestoreMakes, Files!openVars, Files!backupVars
<1>1. BackupTypes /\ RestoreTypes  BY DEF BackupInv, RestoreInv
<1>2. /\ copy.db \in Databases /\ copy.key \in FileKeys /\ manifest \in Manifests
      /\ backup.db \in Databases /\ backup.key \in FileKeys /\ backup.manifest \in Manifests
      BY <1>1 DEF BackupTypes, RestoreTypes
<1>3. manifest.state = "whole" =>
         /\ manifest = backup.manifest
         /\ damage = 0 => backup.db = manifest.db /\ backup.key = manifest.key
      BY DEF BackupInv, RestoreInv
<1>4. CASE Files!SeesNoMarker  BY <1>1, <1>4 DEF Files!SeesNoMarker, RestoreInv, RestoreTypes
<1>5. CASE Files!Verifies  BY <1>1, <1>2, <1>3, <1>5 DEF Files!Verifies, RestoreInv, RestoreTypes
<1>6. CASE Files!FindsRoom  BY <1>1, <1>6 DEF Files!FindsRoom, RestoreInv, RestoreTypes
<1>7. CASE Files!MarkRestore  BY <1>1, <1>7 DEF Files!MarkRestore, RestoreInv, RestoreTypes
<1>8. CASE Files!StartDb  BY <1>1, <1>8 DEF Files!StartDb, RestoreInv, RestoreTypes
<1>9. CASE Files!DbCopied
      BY <1>1, <1>2, <1>3, <1>9 DEF Files!DbCopied, RestoreInv, RestoreTypes
<1>same. CASE Files!StartKey
      BY <1>1, <1>2, <1>same DEF Files!StartKey, RestoreInv, RestoreTypes, FileKeys
<1>11. CASE Files!KeyDone
      BY <1>1, <1>2, <1>3, <1>11 DEF Files!KeyDone, RestoreInv, RestoreTypes
<1>12. CASE Files!Rechecks  BY <1>1, <1>12 DEF Files!Rechecks, RestoreInv, RestoreTypes
<1>13. CASE Files!FinalizeRestore
      BY <1>1, <1>13 DEF Files!FinalizeRestore, RestoreInv, RestoreTypes
<1>14. CASE Files!RestoreEnds  BY <1>1, <1>14 DEF Files!RestoreEnds, RestoreInv, RestoreTypes
<1> QED  BY <1>4, <1>5, <1>6, <1>7, <1>8, <1>9, <1>same, <1>11, <1>12, <1>13, <1>14

LEMMA FilesNext == FilesInv /\ (Files!Next \/ UNCHANGED fileVars) => FilesInv'
<1> SUFFICES ASSUME FilesInv, Files!Next \/ UNCHANGED fileVars PROVE FilesInv'  OBVIOUS
<1> USE DEF FilesInv
<1>1. CASE UNCHANGED fileVars
      BY <1>1 DEF fileVars, LiveInv, LiveTypes, Holder, BackupInv, BackupTypes, Snapshot,
         RestoreInv, RestoreTypes
<1>2. ASSUME NEW p \in Pair,
             \/ Files!Look(p) \/ Files!ReadKey(p) \/ Files!NoKeyYet(p) \/ Files!KeyRefused(p)
             \/ Files!CreateKey(p) \/ Files!WriteKey(p) \/ Files!ReadVersion(p) \/ Files!Migrate(p)
             \/ Files!MigrateFails(p) \/ Files!Opened(p) \/ Files!Append(p) \/ Files!Ends(p)
      PROVE  FilesInv'
  <2>1. UNCHANGED <<backup, bstep, bsecret, floor, damage, copy, rstep, manifest>>
        BY <1>2 DEF Files!Look, Files!ReadKey, Files!NoKeyYet, Files!KeyRefused, Files!CreateKey,
           Files!WriteKey, Files!ReadVersion, Files!Migrate, Files!MigrateFails, Files!Opened,
           Files!Append, Files!Ends, Files!backupVars, Files!restoreVars
  <2>2. LiveInv' /\ LiveGrows  BY <1>2, ProcessStep
  <2>3. LiveTypes'  BY <2>2 DEF LiveInv
  <2>4. BackupInv'  BY <2>1, <2>2, <2>3, BackupOthers
  <2>5. RestoreInv'  BY <2>1 DEF RestoreInv, RestoreTypes
  <2> QED  BY <2>2, <2>4, <2>5
<1>3. ASSUME \/ Files!BackupOpens \/ Files!MakeDirectory \/ Files!MarkBackup \/ Files!StartCopy
             \/ Files!FinishCopy \/ Files!CopyKey \/ Files!KeyCopied \/ Files!WriteManifest
             \/ Files!ManifestDone \/ Files!FinalizeBackup \/ Files!BackupEnds \/ Files!Damage
      PROVE  FilesInv'
  <2>1. /\ BackupInv'
        /\ UNCHANGED <<live, open, saw, secret, version, made, copy, rstep, manifest>>
        /\ backup.manifest.state = "whole" => backup'.manifest = backup.manifest
        /\ damage' = 0 => damage = 0
        BY <1>3, BackupStep
  <2>2. LiveInv'  BY <2>1 DEF LiveInv, LiveTypes, Holder
  <2>3. manifest.state = "whole" => backup.manifest.state = "whole"  BY DEF RestoreInv
  <2> QED  BY <2>1, <2>2, <2>3, RestoreOthers
<1>4. ASSUME \/ Files!SeesNoMarker \/ Files!Verifies \/ Files!FindsRoom \/ Files!MarkRestore
             \/ Files!StartDb \/ Files!DbCopied \/ Files!StartKey \/ Files!KeyDone
             \/ Files!Rechecks \/ Files!FinalizeRestore \/ Files!RestoreEnds
      PROVE  FilesInv'
  <2>1. RestoreInv' /\ UNCHANGED <<live, open, saw, secret, version, made, backup, bstep,
                                   bsecret, floor, damage>>
        BY <1>4, RestoreStep
  <2>2. LiveInv' /\ BackupInv'
        BY <2>1 DEF LiveInv, LiveTypes, Holder, BackupInv, BackupTypes, Snapshot
  <2> QED  BY <2>1, <2>2
<1> QED  BY <1>1, <1>2, <1>3, <1>4 DEF Files!Next

\* The invariant says everything of the files that the runs check.
LEMMA FilesSafe ==
    FilesInv => /\ Files!TypeOK /\ Files!OneKeyForAllRows /\ Files!NoDatabaseWithoutKey
                /\ Files!VerifiedIsSnapshot /\ Files!HalfRestoreNeverOpens
                /\ Files!RestoredIsVerified
<1> SUFFICES ASSUME FilesInv
             PROVE  /\ Files!TypeOK /\ Files!OneKeyForAllRows /\ Files!NoDatabaseWithoutKey
                    /\ Files!VerifiedIsSnapshot /\ Files!HalfRestoreNeverOpens
                    /\ Files!RestoredIsVerified
    OBVIOUS
<1> USE KeyNames, FileNames DEF FilesInv
<1>1. LiveTypes /\ BackupTypes /\ RestoreTypes  BY DEF LiveInv, BackupInv, RestoreInv
<1>2. Files!TypeOK
  <2>1. \A db \in Databases : Files!DbOk(db)  BY DEF Databases, Files!DbOk
  <2> QED  BY <1>1, <2>1
           DEF LiveTypes, BackupTypes, RestoreTypes, Manifests, FileKeys, Files!TypeOK
<1>3. Files!OneKeyForAllRows  BY DEF LiveInv, Holder, Files!OneKeyForAllRows
<1>4. Files!NoDatabaseWithoutKey
      BY <1>1 DEF LiveInv, LiveTypes, Holder, FileKeys, Files!NoDatabaseWithoutKey, Files!Health
<1>5. Files!VerifiedIsSnapshot
  <2>1. /\ floor \in 0 .. MaxRows /\ live.db.rows \in 0 .. MaxRows
        /\ manifest.db.rows \in 0 .. MaxRows
        BY <1>1 DEF LiveTypes, BackupTypes, RestoreTypes, Manifests, Databases
  <2>2. rstep = "verified" => /\ manifest.state = "whole" /\ manifest = backup.manifest
                              /\ Snapshot(manifest.db, manifest.key) /\ live.key \in Files!Keys
        BY DEF LiveInv, BackupInv, RestoreInv
  <2> QED  BY <2>1, <2>2 DEF Snapshot, Files!VerifiedIsSnapshot
<1>6. Files!HalfRestoreNeverOpens
      BY DEF RestoreInv, Files!HalfRestoreNeverOpens, Files!WouldOpen
<1>7. Files!RestoredIsVerified
      BY DEF BackupInv, RestoreInv, Snapshot, Files!RestoredIsVerified
<1> QED  BY <1>2, <1>3, <1>4, <1>5, <1>6, <1>7

-----------------------------------------------------------------------------
(* The table of manual locks: the inductive invariant.                     *)

Times == {t \in Seq(Nat) : Len(t) <= 1}
Rows  == [target : Pair, path : Paths, created : Nat, expires : Times, revoked : Times]

\* A command commits what it wanted at the time it has read, into a schema it
\* has completed itself.
Command(c) ==
    /\ pc[c] = "new" \/ cmd[c] \in Locks!Wants
    /\ stmt[c] \in 0 .. schema
    /\ pc[c] = "new" => stmt[c] = 0
    /\ pc[c] = "opening" => stmt[c] < 4
    /\ pc[c] \in {"opened", "committing"} => stmt[c] = 4
    /\ pc[c] = "committing" => cmd[c].op = "revoke"

Places == {"new", "opening", "opened", "committing", "done", "not found", "refused", "over"}

LockTypes ==
    /\ wall \in 0 .. MaxClock /\ schema \in 0 .. 4 /\ setBacks \in 0 .. MaxSetBacks
    /\ pc \in [Trio -> Places]
    /\ cmd = [c \in Trio |-> cmd[c]] /\ stmt \in [Trio -> 0 .. 4]

\* Of the rules of a target only the last can be active.
OnlyTheLast(table) ==
    \A i, j \in DOMAIN table :
        i < j /\ table[i].target = table[j].target => ~Locks!Active(table[i])

LocksInv ==
    /\ LockTypes /\ rules \in Seq(Rows) /\ \A c \in Trio : Command(c)
    /\ Locks!Constrained(rules) /\ OnlyTheLast(rules)

LEMMA LockBounds == MaxClock \in Nat /\ MaxSetBacks \in Nat /\ TicksPerMs \in Nat \ {0} /\ Ttls \subseteq Nat
<1>1. MaxClock \in Nat  BY EvidenceAssumption
<1>2. MaxSetBacks \in Nat /\ TicksPerMs \in Nat \ {0} /\ Ttls \subseteq Nat  BY StorageAssumption
<1> QED  BY <1>1, <1>2

\* Rounding to milliseconds loses no lock that is a millisecond long.
LEMMA Rounding ==
    /\ \A t \in Nat : Locks!Ms(t) \in Nat
    /\ \A t, d \in Nat : d >= TicksPerMs => Locks!Ms(t + d) > Locks!Ms(t)
BY LockBounds DEF Locks!Ms

LEMMA SingleTime == \A t \in Nat : <<t>> \in Times /\ <<t>>[1] = t /\ <<t>> # <<>>
BY DEF Times

LEMMA NoTime == <<>> \in Times
BY DEF Times

\* The rule a command wants to add.
LEMMA NewRule ==
    ASSUME NEW t \in 0 .. MaxClock, NEW w \in Locks!Lockings(t)
    PROVE  /\ w \in Locks!Wants /\ w.op = "lock" /\ w.target \in Pair /\ w.at = t /\ w.ttl \in Nat
           /\ Locks!Rule(w) \in Rows /\ Locks!Rule(w).target = w.target
           /\ Locks!Rule(w).created = Locks!Ms(t) /\ Locks!Active(Locks!Rule(w))
           /\ ~Locks!ExpiryFits(Locks!Rule(w)) => w.ttl \in 1 .. TicksPerMs - 1
           /\ Locks!RevocationFits(Locks!Rule(w))
<1>1. w \in Locks!Wants /\ w.op = "lock" /\ w.target \in Pair /\ w.path \in Paths /\ w.at = t /\ w.ttl \in Nat
      BY LockBounds DEF Locks!Lockings, Locks!Wants
<1>2. t \in Nat /\ t + w.ttl \in Nat  BY <1>1, LockBounds
<1>3. Locks!Rule(w) = [target |-> w.target, path |-> w.path, created |-> Locks!Ms(t),
                       expires |-> IF w.ttl = 0 THEN <<>> ELSE <<Locks!Ms(t + w.ttl)>>,
                       revoked |-> <<>>]
      BY <1>1 DEF Locks!Rule
<1>4. Locks!Ms(t) \in Nat /\ Locks!Ms(t + w.ttl) \in Nat  BY <1>2, Rounding
<1>5. Locks!Rule(w) \in Rows  BY <1>1, <1>3, <1>4, SingleTime, NoTime DEF Rows
<1>6. ASSUME ~Locks!ExpiryFits(Locks!Rule(w)) PROVE w.ttl \in 1 .. TicksPerMs - 1
  <2>1. w.ttl # 0 /\ ~(Locks!Ms(t + w.ttl) > Locks!Ms(t))
        BY <1>3, <1>4, <1>6, SingleTime DEF Locks!ExpiryFits
  <2>2. ~(w.ttl >= TicksPerMs)  BY <1>1, <1>2, <2>1, Rounding
  <2> QED  BY <1>1, <2>1, <2>2, LockBounds
<1> QED  BY <1>1, <1>3, <1>5, <1>6 DEF Locks!Active, Locks!RevocationFits

\* What superseding does to a table: the active rules of the target are
\* revoked, at the time of the new rule, and nothing else changes.
OnlyRevokes(table, r, new) ==
    /\ new \in Seq(Rows) /\ Len(new) = Len(table) /\ DOMAIN new = DOMAIN table
    /\ \A i \in DOMAIN table :
          /\ new[i] \in Rows /\ new[i].target = table[i].target
          /\ [new[i] EXCEPT !.revoked = <<>>] = [table[i] EXCEPT !.revoked = <<>>]
          /\ ~Locks!Superseded(table[i], r) => new[i] = table[i]
          /\ Locks!Superseded(table[i], r) =>
                /\ new[i].revoked = <<r.created>> /\ new[i].created = table[i].created
                /\ new[i].expires = table[i].expires

LEMMA Superseding ==
    ASSUME NEW table \in Seq(Rows), NEW r \in Rows, NEW new, new = Locks!Supersede(table, r)
    PROVE  OnlyRevokes(table, r, new)
<1> DEFINE n == Len(table)
<1>1. n \in Nat /\ DOMAIN table = 1 .. n /\ \A i \in 1 .. n : table[i] \in Rows  OBVIOUS
<1>2. new = [i \in 1 .. n |-> IF Locks!Superseded(table[i], r)
                              THEN [table[i] EXCEPT !.revoked = <<r.created>>] ELSE table[i]]
      BY <1>1 DEF Locks!Supersede
<1>3. <<r.created>> \in Times  BY SingleTime DEF Rows
<1>4. ASSUME NEW i \in 1 .. n
      PROVE  /\ new[i] \in Rows /\ new[i].target = table[i].target
             /\ [new[i] EXCEPT !.revoked = <<>>] = [table[i] EXCEPT !.revoked = <<>>]
             /\ ~Locks!Superseded(table[i], r) => new[i] = table[i]
             /\ Locks!Superseded(table[i], r) =>
                   /\ new[i].revoked = <<r.created>> /\ new[i].created = table[i].created
                   /\ new[i].expires = table[i].expires
  <2>1. table[i] \in Rows  BY <1>1
  <2>2. CASE Locks!Superseded(table[i], r)
    <3>1. new[i] = [table[i] EXCEPT !.revoked = <<r.created>>]  BY <1>2, <2>2
    <3> QED  BY <1>3, <2>1, <2>2, <3>1 DEF Rows
  <2>3. CASE ~Locks!Superseded(table[i], r)
    <3>1. new[i] = table[i]  BY <1>2, <2>3
    <3> QED  BY <2>1, <2>3, <3>1
  <2> QED  BY <2>2, <2>3
<1>5. DOMAIN new = 1 .. n /\ new \in [1 .. n -> Rows]  BY <1>2, <1>4
<1>6. new \in Seq(Rows) /\ Len(new) = n  BY <1>1, <1>5
<1> QED  BY <1>1, <1>4, <1>5, <1>6 DEF OnlyRevokes

\* The table with a rule added: the only active one of its target; and the two
\* reasons there are to refuse it.
LEMMA Adding ==
    ASSUME LocksInv, NEW r \in Rows, Locks!Active(r), Locks!RevocationFits(r)
    PROVE  LET table == Append(Locks!Supersede(rules, r), r) IN
           /\ table \in Seq(Rows) /\ OnlyTheLast(table)
           /\ \A i \in DOMAIN rules :
                 /\ i \in DOMAIN table
                 /\ [table[i] EXCEPT !.revoked = <<>>] = [rules[i] EXCEPT !.revoked = <<>>]
                 /\ ~Locks!Active(rules[i]) => table[i] = rules[i]
           /\ \/ Locks!Constrained(table)
              \/ ~Locks!ExpiryFits(r)
              \/ \E i \in DOMAIN rules : /\ rules[i].target = r.target /\ Locks!Active(rules[i])
                                         /\ rules[i].created > r.created
<1> DEFINE new == Locks!Supersede(rules, r)
           table == Append(new, r)
           n == Len(rules)
<1>1. rules \in Seq(Rows) /\ n \in Nat /\ DOMAIN rules = 1 .. n
      /\ \A i \in 1 .. n : rules[i] \in Rows
  <2>1. rules \in Seq(Rows)  BY DEF LocksInv
  <2> QED  BY <2>1
<1>2. /\ new \in Seq(Rows) /\ Len(new) = n /\ DOMAIN new = 1 .. n
      /\ \A i \in 1 .. n :
            /\ new[i] \in Rows /\ rules[i] \in Rows /\ new[i].target = rules[i].target
            /\ [new[i] EXCEPT !.revoked = <<>>] = [rules[i] EXCEPT !.revoked = <<>>]
            /\ ~Locks!Superseded(rules[i], r) => new[i] = rules[i]
            /\ Locks!Superseded(rules[i], r) =>
                  /\ new[i].revoked = <<r.created>> /\ new[i].created = rules[i].created
                  /\ new[i].expires = rules[i].expires
  <2>1. OnlyRevokes(rules, r, new)  BY <1>1, Superseding
  <2> HIDE DEF new
  <2> QED  BY <1>1, <2>1 DEF OnlyRevokes
<1> HIDE DEF new
<1>3. /\ table \in Seq(Rows) /\ Len(table) = n + 1 /\ DOMAIN table = 1 .. n + 1
      /\ table[n + 1] = r /\ \A i \in 1 .. n : table[i] = new[i]
      BY <1>1, <1>2
<1> HIDE DEF table
<1>4. ASSUME NEW i \in 1 .. n, Locks!Active(table[i])
      PROVE  rules[i] = table[i] /\ Locks!Active(rules[i]) /\ rules[i].target # r.target
  <2>1. r.created \in Nat  BY DEF Rows
  <2>2. ~Locks!Superseded(rules[i], r)
    <3> SUFFICES ASSUME Locks!Superseded(rules[i], r) PROVE FALSE  OBVIOUS
    <3>1. table[i].revoked = <<r.created>>  BY <1>2, <1>3
    <3>2. table[i].revoked = <<>>  BY <1>4 DEF Locks!Active
    <3>3. <<r.created>> # <<>>  BY <2>1, SingleTime
    <3> QED  BY <3>1, <3>2, <3>3
  <2>3. table[i] = rules[i]  BY <1>2, <1>3, <2>2
  <2> QED  BY <1>4, <2>2, <2>3 DEF Locks!Superseded, Locks!SameTarget
<1>5. OnlyTheLast(table)
  <2> SUFFICES ASSUME NEW i \in 1 .. n + 1, NEW j \in 1 .. n + 1, i < j,
                      table[i].target = table[j].target, Locks!Active(table[i])
               PROVE  FALSE
      BY <1>3 DEF OnlyTheLast
  <2>1. i \in 1 .. n /\ (j = n + 1 \/ j \in 1 .. n)  BY <1>1
  <2>2. rules[i] = table[i] /\ Locks!Active(rules[i]) /\ rules[i].target # r.target
        BY <1>4, <2>1
  <2>3. j # n + 1  BY <1>3, <2>2
  <2>4. rules[j].target = table[j].target  BY <1>2, <1>3, <2>1, <2>3
  <2> QED  BY <1>1, <2>1, <2>2, <2>3, <2>4 DEF LocksInv, OnlyTheLast
<1>6. ASSUME NEW i \in DOMAIN rules
      PROVE  /\ i \in DOMAIN table
             /\ [table[i] EXCEPT !.revoked = <<>>] = [rules[i] EXCEPT !.revoked = <<>>]
             /\ ~Locks!Active(rules[i]) => table[i] = rules[i]
  <2>1. i \in 1 .. n /\ i \in 1 .. n + 1  BY <1>1
  <2>2. ~Locks!Active(rules[i]) => ~Locks!Superseded(rules[i], r)  BY DEF Locks!Superseded
  <2> QED  BY <1>2, <1>3, <2>1, <2>2
<1>7. ASSUME Locks!ExpiryFits(r),
             ~ \E i \in DOMAIN rules : /\ rules[i].target = r.target /\ Locks!Active(rules[i])
                                       /\ rules[i].created > r.created
      PROVE  Locks!Constrained(table)
  <2>1. ASSUME NEW i \in 1 .. n + 1
        PROVE  Locks!ExpiryFits(table[i]) /\ Locks!RevocationFits(table[i])
    <3>1. CASE i = n + 1  BY <1>3, <1>7, <3>1
    <3>2. CASE i \in 1 .. n
      <4>1. Locks!ExpiryFits(rules[i]) /\ Locks!RevocationFits(rules[i])
            BY <1>1, <3>2 DEF LocksInv, Locks!Constrained
      <4>2. CASE ~Locks!Superseded(rules[i], r)  BY <1>2, <1>3, <3>2, <4>1, <4>2
      <4>3. CASE Locks!Superseded(rules[i], r)
        <5>1. rules[i].created \in Nat /\ r.created \in Nat  BY <1>2, <3>2 DEF Rows
        <5>2. r.created >= rules[i].created
              BY <1>1, <1>7, <3>2, <4>3, <5>1 DEF Locks!Superseded, Locks!SameTarget
        <5>3. /\ table[i].revoked = <<r.created>> /\ table[i].created = rules[i].created
              /\ table[i].expires = rules[i].expires
              BY <1>2, <1>3, <3>2, <4>3
        <5> QED  BY <4>1, <5>1, <5>2, <5>3 DEF Locks!ExpiryFits, Locks!RevocationFits
      <4> QED  BY <4>2, <4>3
    <3> QED  BY <1>1, <3>1, <3>2
  <2>2. ASSUME NEW i \in 1 .. n + 1, NEW j \in 1 .. n + 1, i # j,
               Locks!Active(table[i]), Locks!Active(table[j])
        PROVE  ~Locks!SameTarget(table[i], table[j])
    <3>1. i < j \/ j < i  BY <1>1, <2>2
    <3> QED  BY <1>3, <1>5, <2>2, <3>1 DEF OnlyTheLast, Locks!SameTarget
  <2> QED  BY <1>3, <2>1, <2>2 DEF Locks!Constrained
<1>8. table \in Seq(Rows)  BY <1>3
<1> QED  BY <1>5, <1>6, <1>7, <1>8 DEF table, new

\* The table with a rule revoked.
LEMMA Revoking ==
    ASSUME LocksInv, NEW id \in DOMAIN rules, NEW t \in Nat, Locks!Active(rules[id])
    PROVE  LET table == [rules EXCEPT ![id].revoked = <<t>>] IN
           /\ table \in Seq(Rows) /\ OnlyTheLast(table)
           /\ \A i \in DOMAIN rules :
                 /\ i \in DOMAIN table
                 /\ [table[i] EXCEPT !.revoked = <<>>] = [rules[i] EXCEPT !.revoked = <<>>]
                 /\ ~Locks!Active(rules[i]) => table[i] = rules[i]
<1> DEFINE table == [rules EXCEPT ![id].revoked = <<t>>]
           n == Len(rules)
<1>1. rules \in Seq(Rows) /\ n \in Nat /\ DOMAIN rules = 1 .. n /\ id \in 1 .. n
      /\ \A i \in 1 .. n : rules[i] \in Rows
  <2>1. rules \in Seq(Rows)  BY DEF LocksInv
  <2> QED  BY <2>1
<1>2. <<t>> \in Times /\ <<t>> # <<>>  BY SingleTime
<1>3. /\ [rules[id] EXCEPT !.revoked = <<t>>] \in Rows
      /\ [rules[id] EXCEPT !.revoked = <<t>>].target = rules[id].target
      /\ [rules[id] EXCEPT !.revoked = <<t>>].revoked = <<t>>
      /\ [[rules[id] EXCEPT !.revoked = <<t>>] EXCEPT !.revoked = <<>>]
            = [rules[id] EXCEPT !.revoked = <<>>]
      BY <1>1, <1>2 DEF Rows
<1>4. /\ table \in [1 .. n -> Rows] /\ table[id] = [rules[id] EXCEPT !.revoked = <<t>>]
      /\ \A i \in 1 .. n : i # id => table[i] = rules[i]
      BY <1>1, <1>3
<1> HIDE DEF table
<1>5. table \in Seq(Rows) /\ DOMAIN table = 1 .. n  BY <1>1, <1>4
<1>6. OnlyTheLast(table)
  <2> SUFFICES ASSUME NEW i \in 1 .. n, NEW j \in 1 .. n, i < j,
                      table[i].target = table[j].target, Locks!Active(table[i])
               PROVE  FALSE
      BY <1>5 DEF OnlyTheLast
  <2>1. i # id  BY <1>2, <1>3, <1>4 DEF Locks!Active
  <2>2. table[j].target = rules[j].target  BY <1>3, <1>4
  <2>3. table[i] = rules[i]  BY <1>4, <2>1
  <2> QED  BY <1>1, <2>2, <2>3 DEF LocksInv, OnlyTheLast
<1>7. ASSUME NEW i \in DOMAIN rules
      PROVE  /\ i \in DOMAIN table
             /\ [table[i] EXCEPT !.revoked = <<>>] = [rules[i] EXCEPT !.revoked = <<>>]
             /\ ~Locks!Active(rules[i]) => table[i] = rules[i]
      BY <1>1, <1>3, <1>4, <1>5
<1> QED  BY <1>5, <1>6, <1>7 DEF table

LEMMA LocksInit == Locks!Init => LocksInv
<1> SUFFICES ASSUME Locks!Init PROVE LocksInv  OBVIOUS
<1> USE LockBounds DEF Locks!Init
<1>1. LockTypes /\ rules \in Seq(Rows)  BY DEF LockTypes, Places
<1>2. \A c \in Trio : Command(c)  BY DEF Command
<1>3. Locks!Constrained(rules) /\ OnlyTheLast(rules)  BY DEF Locks!Constrained, OnlyTheLast
<1> QED  BY <1>1, <1>2, <1>3 DEF LocksInv


\* One command moves on: to the place v, with the wish w, after n statements.
MovesTo(c, v, w, n) ==
    /\ pc' = [pc EXCEPT ![c] = v] /\ cmd' = [cmd EXCEPT ![c] = w] /\ stmt' = [stmt EXCEPT ![c] = n]
    /\ wall' = wall /\ setBacks' = setBacks /\ schema' \in 0 .. 4 /\ schema <= schema'
    /\ v \in Places \ {"new"} /\ w \in Locks!Wants /\ n \in 0 .. 4 /\ n <= schema'
    /\ v = "opening" => n < 4
    /\ v \in {"opened", "committing"} => n = 4
    /\ v = "committing" => w.op = "revoke"

LEMMA CommandMoves ==
    ASSUME LocksInv, NEW c \in Trio, NEW v, NEW w, NEW n, MovesTo(c, v, w, n)
    PROVE  LockTypes' /\ \A x \in Trio : Command(x)'
<1> USE DEF MovesTo
<1>1. LockTypes  BY DEF LocksInv
<1>2. LockTypes'
  <2>1. pc' \in [Trio -> Places] /\ stmt' \in [Trio -> 0 .. 4]  BY <1>1 DEF LockTypes
  <2>2. cmd' = [x \in Trio |-> cmd'[x]]  BY <1>1 DEF LockTypes
  <2> QED  BY <1>1, <2>1, <2>2 DEF LockTypes
<1>3. ASSUME NEW x \in Trio PROVE Command(x)'
  <2>1. CASE x = c
    <3>1. pc'[c] = v /\ stmt'[c] = n /\ cmd'[c] = w  BY <1>1 DEF LockTypes
    <3> QED  BY <2>1, <3>1 DEF Command
  <2>2. CASE x # c
    <3>1. pc'[x] = pc[x] /\ stmt'[x] = stmt[x] /\ cmd'[x] = cmd[x]  BY <1>1, <2>2 DEF LockTypes
    <3>2. Command(x)  BY DEF LocksInv
    <3>3. stmt[x] \in 0 .. schema /\ schema \in 0 .. 4  BY <1>1, <3>2 DEF Command, LockTypes
    <3>4. stmt[x] \in 0 .. schema'  BY <3>3
    <3> QED  BY <3>1, <3>2, <3>4 DEF Command
  <2> QED  BY <2>1, <2>2
<1> QED  BY <1>2, <1>3

\* A command that leaves the table alone and is not refused.
LEMMA TableSame ==
    ASSUME LocksInv, rules' = rules, LockTypes' /\ \A x \in Trio : Command(x)',
           \A x \in Trio : pc'[x] # pc[x] => pc'[x] # "refused"
    PROVE  LocksInv' /\ Locks!RefusedForItsTime /\ Locks!KeepsHistory
<1>1. LocksInv'  BY DEF LocksInv, Locks!Constrained, OnlyTheLast
<1>2. Locks!RefusedForItsTime  BY DEF Locks!RefusedForItsTime
<1>3. Locks!KeepsHistory  BY DEF Locks!KeepsHistory
<1> QED  BY <1>1, <1>2, <1>3

\* A step of a command.
LEMMA CommandStep ==
    ASSUME LocksInv, NEW c \in Trio,
           \/ Locks!StartLock(c) \/ Locks!StartRevoke(c) \/ Locks!Initialize(c)
           \/ Locks!ReadClock(c) \/ Locks!Lock(c) \/ Locks!Revoke(c) \/ Locks!Ends(c)
    PROVE  LocksInv' /\ Locks!RefusedForItsTime /\ Locks!KeepsHistory
<1> USE DEF Locks!Goes
<1>1. LockTypes /\ Command(c) /\ rules \in Seq(Rows)  BY DEF LocksInv
<1>2. /\ schema \in 0 .. 4 /\ stmt[c] \in 0 .. 4 /\ stmt[c] <= schema
      /\ wall \in 0 .. MaxClock /\ MaxClock \in Nat
      /\ pc \in [Trio -> Places] /\ stmt = [stmt EXCEPT ![c] = stmt[c]]
      /\ cmd = [cmd EXCEPT ![c] = cmd[c]]
      BY <1>1, LockBounds DEF LockTypes, Command
<1>same. schema' = schema /\ stmt' = stmt =>
         /\ schema' \in 0 .. 4 /\ schema <= schema' /\ stmt[c] <= schema'
         /\ stmt' = [stmt EXCEPT ![c] = stmt[c]]
       BY <1>2
<1>3. CASE Locks!StartLock(c)
  <2>1. [op |-> "lock", at |-> wall] \in Locks!Wants  BY <1>2 DEF Locks!Wants
  <2>2. /\ pc' = [pc EXCEPT ![c] = "opening"] /\ UNCHANGED <<wall, schema, rules, stmt, setBacks>>
        /\ cmd' = [cmd EXCEPT ![c] = [op |-> "lock", at |-> wall]] /\ stmt[c] = 0
        BY <1>1, <1>3 DEF Locks!StartLock, Command
  <2>3. LockTypes' /\ \A x \in Trio : Command(x)'
    <3>1. MovesTo(c, "opening", [op |-> "lock", at |-> wall], stmt[c])
      <4>1. stmt' = [stmt EXCEPT ![c] = stmt[c]] /\ schema' \in 0 .. 4 /\ schema <= schema'
            /\ stmt[c] \in 0 .. 4 /\ stmt[c] <= schema' /\ stmt[c] < 4
            BY <1>2, <1>same, <2>2
      <4>2. "opening" \in Places \ {"new"}  BY DEF Places
      <4> QED  BY <2>1, <2>2, <4>1, <4>2 DEF MovesTo
    <3> QED  BY <3>1, CommandMoves
  <2> QED  BY <1>2, <2>2, <2>3, TableSame
<1>4. CASE Locks!StartRevoke(c)
  <2> DEFINE v == IF schema = 0 THEN "not found" ELSE "opening"
  <2>1. PICK id \in DOMAIN rules \cup {0} :
            cmd' = [cmd EXCEPT ![c] = [op |-> "revoke", id |-> id, at |-> 0]]
        BY <1>4 DEF Locks!StartRevoke
  <2>2. id \in Nat
    <3>1. \A i \in DOMAIN rules : i \in Nat  BY <1>1
    <3> QED  BY <2>1, <3>1
  <2>3. [op |-> "revoke", id |-> id, at |-> 0] \in Locks!Wants  BY <1>2, <2>2 DEF Locks!Wants
  <2>4. /\ pc' = [pc EXCEPT ![c] = v] /\ UNCHANGED <<wall, schema, rules, stmt, setBacks>>
        /\ stmt[c] = 0
        BY <1>1, <1>4 DEF Locks!StartRevoke, Command
  <2>5. v \in {"not found", "opening"}  OBVIOUS
  <2> HIDE DEF v
  <2>6. LockTypes' /\ \A x \in Trio : Command(x)'
    <3>1. MovesTo(c, v, [op |-> "revoke", id |-> id, at |-> 0], stmt[c])
      <4>1. stmt' = [stmt EXCEPT ![c] = stmt[c]] /\ schema' \in 0 .. 4 /\ schema <= schema'
            /\ stmt[c] \in 0 .. 4 /\ stmt[c] <= schema' /\ stmt[c] < 4
            BY <1>2, <1>same, <2>4
      <4>2. v \in Places \ {"new"} /\ v \notin {"opened", "committing"}  BY <2>5 DEF Places
      <4> QED  BY <2>1, <2>3, <2>4, <4>1, <4>2 DEF MovesTo
    <3> QED  BY <3>1, CommandMoves
  <2> QED  BY <1>2, <2>4, <2>5, <2>6, TableSame
<1>5. CASE Locks!Initialize(c)
  <2> DEFINE n == stmt[c] + 1
             v == IF n = 4 THEN "opened" ELSE pc[c]
  <2>1. /\ pc[c] = "opening" /\ pc' = [pc EXCEPT ![c] = v] /\ stmt' = [stmt EXCEPT ![c] = n]
        /\ schema' = (IF n > schema THEN n ELSE schema) /\ UNCHANGED <<wall, rules, cmd, setBacks>>
        BY <1>5 DEF Locks!Initialize, Locks!Complete
  <2>2. n \in 0 .. 4 /\ schema' \in 0 .. 4 /\ schema <= schema' /\ n <= schema'
        BY <1>1, <1>2, <2>1 DEF Command
  <2>3. v = IF n = 4 THEN "opened" ELSE "opening"  BY <2>1
  <2>4. cmd[c] \in Locks!Wants  BY <1>1, <2>1 DEF Command
  <2>5. n # 4 => n < 4  BY <2>2
  <2> HIDE DEF v, n
  <2>6. LockTypes' /\ \A x \in Trio : Command(x)'
    <3>1. MovesTo(c, v, cmd[c], n)
          BY <1>2, <2>1, <2>2, <2>3, <2>4, <2>5 DEF MovesTo, Places
    <3> QED  BY <3>1, CommandMoves
  <2> QED  BY <1>2, <2>1, <2>3, <2>6, TableSame
<1>6. CASE Locks!ReadClock(c)
  <2> DEFINE w == [cmd[c] EXCEPT !.at = wall]
  <2>1. /\ pc[c] = "opened" /\ pc' = [pc EXCEPT ![c] = "committing"] /\ cmd[c].op = "revoke"
        /\ cmd' = [cmd EXCEPT ![c] = w] /\ UNCHANGED <<wall, schema, rules, stmt, setBacks>>
        BY <1>6 DEF Locks!ReadClock
  <2>2. cmd[c] \in [op : {"revoke"}, id : Nat, at : 0 .. MaxClock]
        BY <1>1, <2>1 DEF Command, Locks!Wants
  <2>3. w \in [op : {"revoke"}, id : Nat, at : 0 .. MaxClock]  BY <1>2, <2>2
  <2>4. w \in Locks!Wants /\ w.op = "revoke"  BY <2>3 DEF Locks!Wants
  <2>5. stmt[c] = 4  BY <1>1, <2>1 DEF Command
  <2> HIDE DEF w
  <2>6. LockTypes' /\ \A x \in Trio : Command(x)'
    <3>1. MovesTo(c, "committing", w, stmt[c])  BY <1>2, <1>same, <2>1, <2>4, <2>5 DEF MovesTo, Places
    <3> QED  BY <3>1, CommandMoves
  <2> QED  BY <1>2, <2>1, <2>6, TableSame
<1>7. CASE Locks!Ends(c)
  <2>1. /\ pc[c] \in {"opening", "opened", "committing"} /\ pc' = [pc EXCEPT ![c] = "over"]
        /\ UNCHANGED <<wall, schema, rules, cmd, stmt, setBacks>>
        BY <1>7 DEF Locks!Ends
  <2>2. cmd[c] \in Locks!Wants  BY <1>1, <2>1 DEF Command
  <2>3. LockTypes' /\ \A x \in Trio : Command(x)'
    <3>1. MovesTo(c, "over", cmd[c], stmt[c])  BY <1>2, <1>same, <2>1, <2>2 DEF MovesTo, Places
    <3> QED  BY <3>1, CommandMoves
  <2> QED  BY <1>2, <2>1, <2>3, TableSame
<1>8. CASE Locks!Lock(c)
  <2>1. PICK w \in Locks!Lockings(cmd[c].at) :
            /\ cmd' = [cmd EXCEPT ![c] = w]
            /\ LET table == Append(Locks!Supersede(rules, Locks!Rule(w)), Locks!Rule(w)) IN
               IF schema = Locks!Complete /\ Locks!Constrained(table)
               THEN rules' = table /\ pc[c] = "opened" /\ pc' = [pc EXCEPT ![c] = "done"]
               ELSE pc[c] = "opened" /\ pc' = [pc EXCEPT ![c] = "refused"] /\ UNCHANGED rules
        BY <1>8 DEF Locks!Lock
  <2> DEFINE r == Locks!Rule(w)
             table == Append(Locks!Supersede(rules, r), r)
             t == cmd[c].at
  <2>2. /\ pc[c] = "opened" /\ UNCHANGED <<wall, schema, stmt, setBacks>>
        BY <1>8 DEF Locks!Lock
  <2>3. t \in 0 .. MaxClock /\ stmt[c] = 4
    <3>1. cmd[c] \in Locks!Wants /\ stmt[c] = 4  BY <1>1, <2>2 DEF Command
    <3> QED  BY <3>1 DEF Locks!Wants
  <2>4. schema = Locks!Complete  BY <1>2, <2>3 DEF Locks!Complete
  <2>5. /\ w \in Locks!Wants /\ w.op = "lock" /\ w.target \in Pair /\ w.at = t /\ w.ttl \in Nat
        /\ r \in Rows /\ r.target = w.target /\ r.created = Locks!Ms(t) /\ Locks!Active(r)
        /\ ~Locks!ExpiryFits(r) => w.ttl \in 1 .. TicksPerMs - 1
        /\ Locks!RevocationFits(r)
        BY <2>1, <2>3, NewRule
  <2>6. cmd'[c] = w  BY <1>1, <2>1 DEF LockTypes
  <2> HIDE DEF r
  <2>7. /\ table \in Seq(Rows) /\ OnlyTheLast(table)
        /\ \A i \in DOMAIN rules :
              /\ i \in DOMAIN table
              /\ [table[i] EXCEPT !.revoked = <<>>] = [rules[i] EXCEPT !.revoked = <<>>]
              /\ ~Locks!Active(rules[i]) => table[i] = rules[i]
        /\ \/ Locks!Constrained(table)
           \/ ~Locks!ExpiryFits(r)
           \/ \E i \in DOMAIN rules : /\ rules[i].target = r.target /\ Locks!Active(rules[i])
                                      /\ rules[i].created > r.created
        BY <2>5, Adding
  <2>8. CASE Locks!Constrained(table)
    <3>1. rules' = table /\ pc' = [pc EXCEPT ![c] = "done"]  BY <2>1, <2>4, <2>8 DEF r
    <3> HIDE DEF table
    <3>2. LockTypes' /\ \A x \in Trio : Command(x)'
      <4>1. MovesTo(c, "done", w, stmt[c])  BY <1>2, <1>same, <2>1, <2>2, <2>5, <3>1 DEF MovesTo, Places
      <4> QED  BY <4>1, CommandMoves
    <3>3. Locks!Constrained(rules)' /\ OnlyTheLast(rules)'
          BY <2>7, <2>8, <3>1 DEF Locks!Constrained, OnlyTheLast
    <3>4. LocksInv'  BY <2>7, <3>1, <3>2, <3>3 DEF LocksInv
    <3>5. Locks!RefusedForItsTime  BY <1>2, <3>1 DEF Locks!RefusedForItsTime
    <3>6. Locks!KeepsHistory
      <4>1. pc[c] # "done" /\ pc'[c] = "done"  BY <1>2, <2>2, <3>1
      <4> QED  BY <2>7, <3>1, <4>1 DEF Locks!KeepsHistory
    <3> QED  BY <3>4, <3>5, <3>6
  <2>9. CASE ~Locks!Constrained(table)
    <3>1. rules' = rules /\ pc' = [pc EXCEPT ![c] = "refused"]  BY <2>1, <2>9 DEF r
    <3>2. \/ \E i \in DOMAIN rules : /\ rules[i].target = cmd'[c].target /\ Locks!Active(rules[i])
                                     /\ rules[i].created > Locks!Ms(cmd[c].at)
          \/ cmd'[c].ttl \in 1 .. TicksPerMs - 1
          BY <2>5, <2>6, <2>7, <2>9
    <3> HIDE DEF table
    <3>3. LockTypes' /\ \A x \in Trio : Command(x)'
      <4>1. MovesTo(c, "refused", w, stmt[c])  BY <1>2, <1>same, <2>1, <2>2, <2>5, <3>1 DEF MovesTo, Places
      <4> QED  BY <4>1, CommandMoves
    <3>4. LocksInv'  BY <3>1, <3>3 DEF LocksInv, Locks!Constrained, OnlyTheLast
    <3>5. Locks!RefusedForItsTime
      <4>1. \A x \in Trio \ {c} : pc'[x] = pc[x]  BY <1>2, <3>1
      <4> QED  BY <3>2, <4>1 DEF Locks!RefusedForItsTime
    <3>6. Locks!KeepsHistory  BY <3>1 DEF Locks!KeepsHistory
    <3> QED  BY <3>4, <3>5, <3>6
  <2> QED  BY <2>8, <2>9
<1>9. CASE Locks!Revoke(c)
  <2> DEFINE w == cmd[c]
             t == Locks!Ms(w.at)
             table == [rules EXCEPT ![w.id].revoked = <<t>>]
  <2>1. /\ pc[c] = "committing" /\ UNCHANGED <<wall, schema, cmd, stmt, setBacks>>
        /\ \/ pc' = [pc EXCEPT ![c] = "not found"] /\ rules' = rules
           \/ pc' = [pc EXCEPT ![c] = "refused"] /\ rules' = rules
           \/ /\ Locks!Revocable(w.id) /\ Locks!Constrained(table)
              /\ pc' = [pc EXCEPT ![c] = "done"] /\ rules' = table
        BY <1>9 DEF Locks!Revoke
  <2>2. w \in Locks!Wants /\ stmt[c] = 4  BY <1>1, <2>1 DEF Command
  <2>3. w.at \in Nat  BY <1>2, <2>2 DEF Locks!Wants
  <2>4. t \in Nat  BY <2>3, Rounding
  <2> HIDE DEF w, t
  <2>5. CASE rules' = rules
    <3>1. PICK v \in {"not found", "refused", "done"} : pc' = [pc EXCEPT ![c] = v]  BY <2>1
    <3>2. LockTypes' /\ \A x \in Trio : Command(x)'
      <4>1. MovesTo(c, v, cmd[c], stmt[c])  BY <1>2, <1>same, <2>1, <2>2, <3>1 DEF MovesTo, Places, w
      <4> QED  BY <4>1, CommandMoves
    <3>3. LocksInv'  BY <2>5, <3>2 DEF LocksInv, Locks!Constrained, OnlyTheLast
    <3>4. Locks!RefusedForItsTime  BY <1>2, <2>1, <3>1 DEF Locks!RefusedForItsTime
    <3>5. Locks!KeepsHistory  BY <2>5 DEF Locks!KeepsHistory
    <3> QED  BY <3>3, <3>4, <3>5
  <2>6. CASE /\ Locks!Revocable(w.id) /\ Locks!Constrained(table)
             /\ pc' = [pc EXCEPT ![c] = "done"] /\ rules' = table
    <3>1. w.id \in DOMAIN rules /\ Locks!Active(rules[w.id])  BY <2>6 DEF Locks!Revocable
    <3>2. /\ table \in Seq(Rows) /\ OnlyTheLast(table)
          /\ \A i \in DOMAIN rules :
                /\ i \in DOMAIN table
                /\ [table[i] EXCEPT !.revoked = <<>>] = [rules[i] EXCEPT !.revoked = <<>>]
                /\ ~Locks!Active(rules[i]) => table[i] = rules[i]
          BY <2>4, <3>1, Revoking
    <3> HIDE DEF table
    <3>3. LockTypes' /\ \A x \in Trio : Command(x)'
      <4>1. MovesTo(c, "done", cmd[c], stmt[c])  BY <1>2, <1>same, <2>1, <2>2, <2>6 DEF MovesTo, Places, w
      <4> QED  BY <4>1, CommandMoves
    <3>4. LocksInv'
          BY <2>6, <3>2, <3>3 DEF LocksInv, Locks!Constrained, OnlyTheLast
    <3>5. Locks!RefusedForItsTime  BY <1>2, <2>6 DEF Locks!RefusedForItsTime
    <3>6. Locks!KeepsHistory
      <4>1. pc[c] # "done" /\ pc'[c] = "done"  BY <1>2, <2>1, <2>6
      <4> QED  BY <2>6, <3>2, <4>1 DEF Locks!KeepsHistory
    <3> QED  BY <3>4, <3>5, <3>6
  <2> QED  BY <2>1, <2>5, <2>6
<1> QED  BY <1>3, <1>4, <1>5, <1>6, <1>7, <1>8, <1>9

LEMMA LocksNext ==
    LocksInv /\ (Locks!Next \/ UNCHANGED lockVars) =>
        LocksInv' /\ Locks!RefusedForItsTime /\ Locks!KeepsHistory
<1> SUFFICES ASSUME LocksInv, Locks!Next \/ UNCHANGED lockVars
             PROVE  LocksInv' /\ Locks!RefusedForItsTime /\ Locks!KeepsHistory
    OBVIOUS
<1>1. CASE Locks!Tick \/ Locks!SetBack \/ UNCHANGED lockVars
  <2>1. UNCHANGED <<schema, rules, pc, cmd, stmt>>
        BY <1>1 DEF Locks!Tick, Locks!SetBack, lockVars
  <2>2. wall' \in 0 .. MaxClock /\ setBacks' \in 0 .. MaxSetBacks
        BY <1>1, LockBounds DEF Locks!Tick, Locks!SetBack, lockVars, LocksInv, LockTypes
  <2>3. LockTypes' /\ \A x \in Trio : Command(x)'
        BY <2>1, <2>2 DEF LocksInv, LockTypes, Command
  <2> QED  BY <2>1, <2>3, TableSame
<1> QED  BY <1>1, CommandStep DEF Locks!Next

LEMMA LocksSafe == LocksInv => Locks!TypeOK /\ Locks!OneLockPerTarget /\ Locks!StoredIsReadable
<1> SUFFICES ASSUME LocksInv PROVE Locks!TypeOK /\ Locks!OneLockPerTarget /\ Locks!StoredIsReadable
    OBVIOUS
<1>1. \A i \in DOMAIN rules : rules[i] \in Rows
  <2>1. rules \in Seq(Rows)  BY DEF LocksInv
  <2> QED  BY <2>1
<1>2. Locks!TypeOK
  <2>1. \A i \in DOMAIN rules : /\ rules[i].target \in Pair /\ rules[i].path \in Paths
                                /\ Len(rules[i].expires) <= 1 /\ Len(rules[i].revoked) <= 1
        BY <1>1 DEF Rows, Times
  <2> QED  BY <2>1 DEF LocksInv, LockTypes, Command, Places, Locks!TypeOK, Locks!Complete
<1>3. Locks!OneLockPerTarget
      BY DEF LocksInv, OnlyTheLast, Locks!Constrained, Locks!OneLockPerTarget, Locks!Listed,
         Locks!SameTarget
<1>4. Locks!StoredIsReadable
      BY DEF LocksInv, Locks!Constrained, Locks!ExpiryFits, Locks!RevocationFits,
         Locks!StoredIsReadable, Locks!Readable
<1> QED  BY <1>2, <1>3, <1>4

-----------------------------------------------------------------------------
(* The recorder's directory: the inductive invariant.                      *)

FileRows == [place : {"linked", "cleared", "pruned"}, mod : Nat, rows : 0 .. RowsPerFile]

RecordTypes ==
    /\ clock \in 0 .. MaxTime /\ at \in 0 .. clock /\ openedAt \in 0 .. clock
    /\ paused \in BOOLEAN /\ up \in BOOLEAN
    /\ files \in Seq(FileRows) /\ \A f \in DOMAIN files : files[f].mod <= clock
    /\ record \in {"idle", "checked", "created", "listed", "pruning"}
    /\ file \in {0} \cup DOMAIN files /\ (~up => file = 0 /\ record = "idle")
    /\ names \subseteq DOMAIN files /\ todo \subseteq DOMAIN files
    /\ clear \in {"idle", "allowed", "removing"} /\ crashes \in 0 .. MaxCrashes
    /\ unpruned \in 0 .. Len(files) /\ quiet \in 0 .. 1

\* An event on its way was checked before the marker was there; the file a
\* rotation has opened stays empty until its pruning is over; and what a
\* pruning has listed is all there is.
RecInv ==
    /\ RecordTypes
    /\ (~paused \/ record # "idle") => quiet = 0
    /\ record \in {"created", "listed", "pruning"} => file # 0 /\ files[file].rows = 0
    /\ record \in {"listed", "pruning"} => Recorded!Linked \subseteq names
    /\ Recorded!BoundedDisk /\ Recorded!OpenFileNotPruned

LEMMA RecordBounds ==
    /\ MaxTime \in Nat /\ MaxCreated \in Nat /\ MaxCrashes \in Nat
    /\ MaxFiles \in Nat \ {0} /\ RowsPerFile \in Nat \ {0} /\ Retention \in Nat \ {0}
<1>1. MaxTime \in Nat /\ MaxCreated \in Nat /\ MaxCrashes \in Nat  BY StorageAssumption
<1>2. MaxFiles \in Nat \ {0} /\ RowsPerFile \in Nat \ {0}  BY StorageAssumption
<1>3. Retention \in Nat \ {0}  BY EvidenceAssumption
<1> QED  BY <1>1, <1>2, <1>3

\* The module of the recorder counts as this one does.
LEMMA RecordedCounts == \A S : Recorded!Cardinality(S) = Cardinality(S)
BY DEF Recorded!Cardinality, Cardinality

\* What a file and its place are, and how many files there are.
LEMMA FilesListed ==
    ASSUME RecordTypes
    PROVE  /\ files \in Seq(FileRows) /\ Len(files) \in Nat /\ DOMAIN files = 1 .. Len(files)
           /\ \A f \in DOMAIN files : files[f] \in FileRows /\ files[f].mod \in Nat
           /\ IsFiniteSet(DOMAIN files) /\ Recorded!Linked \subseteq DOMAIN files
           /\ \A S : S \subseteq DOMAIN files => IsFiniteSet(S) /\ Cardinality(S) \in Nat
<1>1. files \in Seq(FileRows)  BY DEF RecordTypes
<1>2. Len(files) \in Nat /\ DOMAIN files = 1 .. Len(files)  BY <1>1
<1>3. \A f \in DOMAIN files : files[f] \in FileRows  BY <1>1
<1>4. IsFiniteSet(DOMAIN files)  BY <1>2, FS_Interval
<1>5. \A S : S \subseteq DOMAIN files => IsFiniteSet(S) /\ Cardinality(S) \in Nat
      BY <1>4, FS_Subset, FS_CardinalityType
<1> QED  BY <1>1, <1>2, <1>3, <1>4, <1>5 DEF FileRows, Recorded!Linked

\* There is an oldest among any files there are.
LEMMA SomeOldest ==
    ASSUME RecordTypes, NEW S, S \subseteq DOMAIN files, S # {}
    PROVE  \E f \in S : \A g \in S : files[f].mod <= files[g].mod
<1> DEFINE Mods == {files[f].mod : f \in S}
<1>1. Mods \subseteq Nat /\ Mods # {}  BY FilesListed
<1>2. PICK m \in Mods : \A y \in Mods : m =< y
  <2> HIDE DEF Mods
  <2> QED  BY <1>1, SmallestNumber
<1>3. PICK f \in S : m = files[f].mod  OBVIOUS
<1>4. \A g \in S : files[g].mod \in Mods  OBVIOUS
<1> QED  BY <1>2, <1>3, <1>4

\* Fewer files linked is no more than before.
LEMMA FewerLinked ==
    ASSUME RecordTypes, Recorded!BoundedDisk, NEW S, S \subseteq Recorded!Linked
    PROVE  Cardinality(S) <= MaxFiles + unpruned
<1>1. IsFiniteSet(Recorded!Linked) /\ Cardinality(Recorded!Linked) \in Nat  BY FilesListed
<1>2. Cardinality(S) <= Cardinality(Recorded!Linked) /\ IsFiniteSet(S)  BY <1>1, FS_Subset
<1>3. Cardinality(S) \in Nat  BY <1>2, FS_CardinalityType
<1>4. unpruned \in Nat /\ MaxFiles \in Nat  BY RecordBounds, FilesListed DEF RecordTypes
<1>5. Cardinality(Recorded!Linked) <= MaxFiles + unpruned
      BY RecordedCounts DEF Recorded!BoundedDisk
<1> QED  BY <1>1, <1>2, <1>3, <1>4, <1>5

LEMMA RecordInit == Recorded!Init => RecInv
<1> SUFFICES ASSUME Recorded!Init PROVE RecInv  OBVIOUS
<1> USE DEF Recorded!Init
<1>1. RecordTypes
  <2>1. files \in Seq(FileRows) /\ DOMAIN files = {} /\ Len(files) = 0  OBVIOUS
  <2>2. clock \in 0 .. MaxTime /\ crashes \in 0 .. MaxCrashes  BY RecordBounds
  <2>3. at \in 0 .. clock /\ openedAt \in 0 .. clock /\ quiet \in 0 .. 1  OBVIOUS
  <2>4. unpruned \in 0 .. Len(files)  BY <2>1
  <2>5. up = FALSE /\ up \in BOOLEAN /\ paused \in BOOLEAN /\ file = 0 /\ record = "idle" /\ clear = "idle"
        /\ names = {} /\ todo = {}
        OBVIOUS
  <2> HIDE DEF Recorded!Init
  <2> QED  BY <2>1, <2>2, <2>3, <2>4, <2>5 DEF RecordTypes
<1>2. Recorded!Linked = {}  BY DEF Recorded!Linked
<1>3. Cardinality(Recorded!Linked) = 0  BY <1>2, FS_EmptySet
<1>4. Recorded!BoundedDisk  BY <1>3, RecordBounds, RecordedCounts DEF Recorded!BoundedDisk
<1> QED  BY <1>1, <1>4 DEF RecInv, Recorded!OpenFileNotPruned

\* A step that creates no file and writes none.
LEMMA SameFiles ==
    ASSUME RecInv, UNCHANGED <<files, unpruned>>, RecordTypes',
           (~paused' \/ record' # "idle") => quiet' = 0,
           record' \in {"created", "listed", "pruning"} => file' # 0 /\ files[file'].rows = 0,
           record' \in {"listed", "pruning"} => Recorded!Linked \subseteq names',
           file' # 0 => file' = file
    PROVE  RecInv' /\ Recorded!PrunesTheOldest
<1>1. Recorded!Linked' = Recorded!Linked  BY DEF Recorded!Linked
<1>2. Recorded!BoundedDisk' /\ Recorded!OpenFileNotPruned'
      BY <1>1 DEF RecInv, Recorded!BoundedDisk, Recorded!OpenFileNotPruned
<1>3. Recorded!PrunesTheOldest
  <2>1. \A f \in Recorded!Linked : files'[f].place = "linked"  BY DEF Recorded!Linked
  <2>2. ~(unpruned' < unpruned)  BY FilesListed DEF RecInv, RecordTypes
  <2> QED  BY <2>1, <2>2 DEF Recorded!PrunesTheOldest
<1> QED  BY <1>1, <1>2, <1>3 DEF RecInv

\* What the mutex of Record protects: none of these steps touches a file.
LEMMA QuietStep ==
    ASSUME RecInv,
           \/ Recorded!Tick \/ Recorded!Start \/ Recorded!Close \/ Recorded!Crash
           \/ Recorded!CheckPause \/ Recorded!RotateFails \/ Recorded!List \/ Recorded!Inspected
           \/ Recorded!InspectFails \/ Recorded!CloseFails \/ Recorded!PruneFails
           \/ Recorded!Pause \/ Recorded!Resume
           \/ Recorded!ClearAllowed \/ Recorded!ClearLists \/ Recorded!ClearDone
           \/ UNCHANGED recordVars
    PROVE  RecInv' /\ Recorded!PrunesTheOldest
<1> USE DEF Recorded!recordVars, Recorded!clearVars, Recorded!Goes
<1> DEFINE Kept ==
      /\ UNCHANGED <<files, unpruned>> /\ RecordTypes'
      /\ (~paused' \/ record' # "idle") => quiet' = 0
      /\ record' \in {"created", "listed", "pruning"} => file' # 0 /\ files[file'].rows = 0
      /\ record' \in {"listed", "pruning"} => Recorded!Linked \subseteq names'
      /\ file' # 0 => file' = file
<1> SUFFICES Kept  BY SameFiles
<1>1. RecordTypes /\ Recorded!Linked \subseteq DOMAIN files
  <2>1. RecordTypes  BY DEF RecInv
  <2> QED  BY <2>1, FilesListed
<1>2. /\ (~paused \/ record # "idle") => quiet = 0
      /\ record \in {"created", "listed", "pruning"} => file # 0 /\ files[file].rows = 0
      /\ record \in {"listed", "pruning"} => Recorded!Linked \subseteq names
      BY DEF RecInv
<1>3. CASE Recorded!Tick
  <2>1. /\ clock' \in 0 .. MaxTime /\ at \in 0 .. clock' /\ openedAt \in 0 .. clock'
        BY <1>1, <1>3, RecordBounds DEF Recorded!Tick, RecordTypes
  <2>2. \A f \in DOMAIN files : files[f].mod <= clock'
        BY <1>1, <1>3, RecordBounds, FilesListed DEF Recorded!Tick, RecordTypes
  <2>3. UNCHANGED <<paused, files, up, record, at, file, openedAt, names, clear, todo, crashes,
                    unpruned, quiet>>
        BY <1>3 DEF Recorded!Tick
  <2>4. RecordTypes'  BY <1>1, <2>1, <2>2, <2>3 DEF RecordTypes
  <2> QED  BY <1>2, <2>3, <2>4
<1>4. CASE Recorded!Start
  <2>1. RecordTypes'  BY <1>1, <1>4 DEF Recorded!Start, RecordTypes
  <2> QED  BY <1>2, <1>4, <2>1 DEF Recorded!Start
<1>5. CASE Recorded!Close \/ Recorded!Crash
  <2>1. /\ up' = FALSE /\ record' = "idle" /\ file' = 0 /\ names' = {}
        /\ UNCHANGED <<clock, paused, files, at, openedAt, clear, todo, unpruned, quiet>>
        /\ crashes' \in 0 .. MaxCrashes
        BY <1>1, <1>5, RecordBounds
        DEF Recorded!Close, Recorded!Crash, Recorded!Ends, RecordTypes
  <2>2. RecordTypes'  BY <1>1, <2>1 DEF RecordTypes
  <2> QED  BY <1>2, <2>1, <2>2
<1>6. CASE Recorded!CheckPause
  <2>1. RecordTypes'  BY <1>1, <1>6, RecordBounds DEF Recorded!CheckPause, RecordTypes
  <2> QED  BY <1>2, <1>6, <2>1 DEF Recorded!CheckPause
<1>7. CASE Recorded!RotateFails \/ Recorded!CloseFails
  <2>1. RecordTypes'  BY <1>1, <1>7 DEF Recorded!RotateFails, Recorded!CloseFails, RecordTypes
  <2> QED  BY <1>2, <1>7, <2>1 DEF Recorded!RotateFails, Recorded!CloseFails
<1>12. CASE Recorded!PruneFails
  <2>1. /\ up /\ record # "idle" /\ record' = "idle" /\ names' = {} /\ crashes' \in 0 .. MaxCrashes
        /\ UNCHANGED <<clock, paused, files, up, at, file, openedAt, clear, todo, unpruned, quiet>>
        BY <1>1, <1>12, RecordBounds DEF Recorded!PruneFails, RecordTypes
  <2>2. RecordTypes'  BY <1>1, <2>1 DEF RecordTypes
  <2> QED  BY <1>2, <2>1, <2>2
<1>8. CASE Recorded!List \/ Recorded!Inspected \/ Recorded!InspectFails
  <2>1. RecordTypes'
        BY <1>1, <1>8 DEF Recorded!List, Recorded!Inspected, Recorded!InspectFails, RecordTypes
  <2> QED  BY <1>2, <1>8, <2>1 DEF Recorded!List, Recorded!Inspected, Recorded!InspectFails
<1>9. CASE Recorded!Pause \/ Recorded!Resume
  <2>1. /\ paused' \in BOOLEAN /\ quiet' = 0
        /\ UNCHANGED <<clock, files, up, record, at, file, openedAt, names, clear, todo, crashes, unpruned>>
        BY <1>9 DEF Recorded!Pause, Recorded!Resume
  <2>2. RecordTypes'  BY <1>1, <2>1 DEF RecordTypes
  <2> QED  BY <1>2, <2>1, <2>2
<1>10. CASE Recorded!ClearAllowed \/ Recorded!ClearLists \/ Recorded!ClearDone
  <2>1. RecordTypes'
        BY <1>1, <1>10
        DEF Recorded!ClearAllowed, Recorded!ClearLists, Recorded!ClearDone, RecordTypes
  <2> QED  BY <1>2, <1>10, <2>1
           DEF Recorded!ClearAllowed, Recorded!ClearLists, Recorded!ClearDone
<1>11. CASE UNCHANGED recordVars
  <2>1. RecordTypes'  BY <1>1, <1>11 DEF recordVars, RecordTypes
  <2> QED  BY <1>2, <1>11, <2>1 DEF recordVars
<1> QED  BY <1>3, <1>4, <1>5, <1>6, <1>7, <1>8, <1>9, <1>10, <1>11, <1>12

\* rotate creates a file, which is linked and owed a pruning.
LEMMA RotateStep ==
    ASSUME RecInv, Recorded!Rotate
    PROVE  RecInv' /\ Recorded!PrunesTheOldest
<1> DEFINE n == Len(files)
           new == [place |-> "linked", mod |-> clock, rows |-> 0]
<1>1. /\ RecordTypes /\ files \in Seq(FileRows) /\ n \in Nat /\ DOMAIN files = 1 .. n
      /\ Recorded!Linked \subseteq 1 .. n /\ IsFiniteSet(Recorded!Linked)
      /\ Cardinality(Recorded!Linked) \in Nat
  <2>1. RecordTypes  BY DEF RecInv
  <2> QED  BY <2>1, FilesListed
<1>2. /\ record = "checked" /\ record' = "created" /\ up
      /\ files' = Append(files, new) /\ file' = n + 1 /\ openedAt' = at /\ unpruned' = unpruned + 1
      /\ UNCHANGED <<clock, paused, up, at, names, clear, todo, crashes, quiet>>
      BY DEF Recorded!Rotate, Recorded!Goes, Recorded!clearVars
<1>3. clock \in Nat /\ unpruned \in 0 .. n /\ quiet = 0
      BY <1>1, <1>2, RecordBounds DEF RecordTypes, RecInv
<1>4. new \in FileRows  BY <1>3, RecordBounds DEF FileRows
<1>5. /\ files' \in Seq(FileRows) /\ Len(files') = n + 1 /\ DOMAIN files' = 1 .. n + 1
      /\ files'[n + 1] = new /\ \A f \in 1 .. n : files'[f] = files[f]
  <2> HIDE DEF new
  <2> QED  BY <1>1, <1>2, <1>4
<1>6. RecordTypes'
  <2>1. /\ \A f \in DOMAIN files' : files'[f].mod <= clock'
        /\ file' \in {0} \cup DOMAIN files' /\ names' \subseteq DOMAIN files'
        /\ todo' \subseteq DOMAIN files'
    <3>1. names \subseteq 1 .. n /\ todo \subseteq 1 .. n /\ \A f \in 1 .. n : files[f].mod <= clock
          BY <1>1 DEF RecordTypes
    <3>2. clock <= clock /\ files'[n + 1].mod = clock  BY <1>3, <1>5
    <3> QED  BY <1>1, <1>2, <1>5, <3>1, <3>2
  <2>2. unpruned' \in 0 .. Len(files')  BY <1>1, <1>2, <1>3, <1>5
  <2> QED  BY <1>1, <1>2, <1>5, <2>1, <2>2 DEF RecordTypes
<1>7. Recorded!Linked' = Recorded!Linked \cup {n + 1}
      BY <1>1, <1>5 DEF Recorded!Linked
<1>8. Recorded!BoundedDisk'
  <2>1. n + 1 \notin Recorded!Linked  BY <1>1
  <2>2. Cardinality(Recorded!Linked') = Cardinality(Recorded!Linked) + 1
        BY <1>1, <1>7, <2>1, FS_AddElement
  <2>3. Cardinality(Recorded!Linked) <= MaxFiles + unpruned
        BY RecordedCounts DEF RecInv, Recorded!BoundedDisk
  <2>4. Cardinality(Recorded!Linked') <= MaxFiles + unpruned'
        BY <1>1, <1>2, <1>3, <2>2, <2>3, RecordBounds
  <2> QED  BY <2>4, RecordedCounts DEF Recorded!BoundedDisk
<1>9. Recorded!OpenFileNotPruned'  BY <1>2, <1>5 DEF Recorded!OpenFileNotPruned
<1>10. file' # 0 /\ files'[file'].rows = 0  BY <1>1, <1>2, <1>5
<1>11. Recorded!PrunesTheOldest
  <2>1. \A f \in Recorded!Linked : files'[f].place = "linked"
        BY <1>1, <1>5 DEF Recorded!Linked
  <2> QED  BY <1>2, <2>1 DEF Recorded!PrunesTheOldest
<1> QED  BY <1>2, <1>3, <1>6, <1>8, <1>9, <1>10, <1>11 DEF RecInv

\* A step that takes one file out of the directory, or drops it from a list.
LEMMA RemovalStep ==
    ASSUME RecInv, NEW f \in DOMAIN files, NEW place \in {"cleared", "pruned"},
           files' = [files EXCEPT ![f].place = place] \/ (f \notin Recorded!Linked /\ files' = files),
           names' \subseteq names, todo' \subseteq todo, clear' \in {"idle", "allowed", "removing"},
           Recorded!Linked \ {f} \subseteq names' \/ names' = names,
           place = "pruned" => f # file,
           UNCHANGED <<clock, paused, up, record, at, file, openedAt, crashes, unpruned, quiet>>
    PROVE  RecInv'
<1>1. /\ RecordTypes /\ files \in Seq(FileRows) /\ Len(files) \in Nat
      /\ DOMAIN files = 1 .. Len(files) /\ \A g \in DOMAIN files : files[g] \in FileRows
      /\ Recorded!Linked \subseteq DOMAIN files
  <2>1. RecordTypes  BY DEF RecInv
  <2> QED  BY <2>1, FilesListed
<1>2. /\ files' \in Seq(FileRows) /\ DOMAIN files' = DOMAIN files /\ Len(files') = Len(files)
      /\ \A g \in DOMAIN files : /\ files'[g].mod = files[g].mod /\ files'[g].rows = files[g].rows
                                 /\ files'[g].place = files[g].place \/ (g = f /\ files'[g].place = place)
      /\ f \notin Recorded!Linked'
  <2>1. CASE f \notin Recorded!Linked /\ files' = files  BY <1>1, <2>1 DEF Recorded!Linked
  <2>2. CASE files' = [files EXCEPT ![f].place = place]
    <3>1. [files[f] EXCEPT !.place = place] \in FileRows  BY <1>1 DEF FileRows
    <3>2. /\ [files[f] EXCEPT !.place = place].mod = files[f].mod
          /\ [files[f] EXCEPT !.place = place].rows = files[f].rows
          /\ [files[f] EXCEPT !.place = place].place = place
          BY <1>1 DEF FileRows
    <3>3. /\ files' = [files EXCEPT ![f] = [files[f] EXCEPT !.place = place]]
          /\ files' \in [1 .. Len(files) -> FileRows]
          BY <1>1, <2>2, <3>1
    <3>4. files' \in Seq(FileRows) /\ DOMAIN files' = DOMAIN files /\ Len(files') = Len(files)
          BY <1>1, <3>3
    <3>5. files'[f] = [files[f] EXCEPT !.place = place]  BY <3>3
    <3>6. \A g \in DOMAIN files : g # f => files'[g] = files[g]  BY <3>3
    <3>7. f \notin Recorded!Linked'  BY <3>2, <3>5 DEF Recorded!Linked
    <3> QED  BY <3>2, <3>4, <3>5, <3>6, <3>7
  <2> QED  BY <2>1, <2>2
<1>3. Recorded!Linked' \subseteq Recorded!Linked \ {f}
  <2>1. \A g \in DOMAIN files : g # f => files'[g].place = files[g].place  BY <1>2
  <2> QED  BY <1>2, <2>1 DEF Recorded!Linked
<1>4. RecordTypes'
  <2>1. \A g \in DOMAIN files' : files'[g].mod <= clock'  BY <1>1, <1>2 DEF RecordTypes
  <2> QED  BY <1>1, <1>2, <2>1 DEF RecordTypes
<1>5. Recorded!BoundedDisk'
  <2>1. Cardinality(Recorded!Linked') <= MaxFiles + unpruned
        BY <1>1, <1>3, FewerLinked DEF RecInv
  <2> QED  BY <2>1, RecordedCounts DEF Recorded!BoundedDisk
<1>6. Recorded!OpenFileNotPruned'
      BY <1>1, <1>2 DEF RecInv, RecordTypes, Recorded!OpenFileNotPruned
<1>7. record \in {"created", "listed", "pruning"} => file # 0 /\ files'[file].rows = 0
      BY <1>1, <1>2 DEF RecInv, RecordTypes
<1>8. record \in {"listed", "pruning"} => Recorded!Linked' \subseteq names'
      BY <1>3 DEF RecInv
<1> QED  BY <1>4, <1>5, <1>6, <1>7, <1>8 DEF RecInv

\* Pruning takes an oldest of the files that are not open, for a reason.
LEMMA PruneStep ==
    ASSUME RecInv, Recorded!PruneOne
    PROVE  RecInv' /\ Recorded!PrunesTheOldest
<1>1. PICK f \in Recorded!Oldest :
         /\ Recorded!Excess(f) /\ names' = names \ {f}
         /\ files' = IF f \in Recorded!Linked THEN [files EXCEPT ![f].place = "pruned"] ELSE files
      BY DEF Recorded!PruneOne
<1>2. /\ record = "pruning" /\ record' = "pruning"
      /\ UNCHANGED <<clock, paused, up, record, at, file, openedAt, clear, todo, crashes, unpruned, quiet>>
      BY DEF Recorded!PruneOne, Recorded!Goes, Recorded!clearVars
<1>3. /\ f \in names /\ f # file /\ \A g \in names \ {file} : files[f].mod <= files[g].mod
      BY DEF Recorded!Oldest
<1>4. RecordTypes /\ Recorded!Linked \subseteq names  BY <1>2 DEF RecInv
<1>5. /\ f \in DOMAIN files /\ names \subseteq DOMAIN files
      /\ clear' \in {"idle", "allowed", "removing"}
      BY <1>2, <1>3, <1>4 DEF RecordTypes
<1>6. RecInv'  BY <1>1, <1>2, <1>3, <1>4, <1>5, RemovalStep
<1>7. ASSUME NEW g \in DOMAIN files, g \in Recorded!Linked, files'[g].place = "pruned"
      PROVE  \/ files[g].mod < at - Retention
             \/ /\ Cardinality(names \ {g}) >= MaxFiles
                /\ \A h \in names \ {g, file} : files[h].mod >= files[g].mod
  <2>1. g = f
    <3>1. g # f => files'[g] = files[g]  BY <1>1
    <3> QED  BY <1>7, <3>1 DEF Recorded!Linked
  <2>2. CASE Cardinality(names) > MaxFiles
    <3>1. IsFiniteSet(names) /\ Cardinality(names) \in Nat  BY <1>4, <1>5, FilesListed
    <3>2. Cardinality(names \ {f}) = Cardinality(names) - 1
          BY <1>3, <3>1, FS_RemoveElement
    <3>3. Cardinality(names \ {f}) >= MaxFiles  BY <2>2, <3>1, <3>2, RecordBounds
    <3>4. \A h \in names \ {f, file} : files[h].mod >= files[f].mod
      <4>1. \A h \in names : files[h].mod \in Nat /\ files[f].mod \in Nat
            BY <1>4, <1>5, FilesListed
      <4> QED  BY <1>3, <4>1
    <3> QED  BY <2>1, <3>3, <3>4
  <2>3. CASE files[f].mod < at - Retention  BY <2>1, <2>3
  <2> QED  BY <1>1, <2>2, <2>3, RecordedCounts DEF Recorded!Excess
<1>8. ~(unpruned' < unpruned)  BY <1>2, <1>4 DEF RecordTypes
<1>9. Recorded!PrunesTheOldest
      BY <1>2, <1>7, <1>8, RecordedCounts DEF Recorded!PrunesTheOldest
<1> QED  BY <1>6, <1>9

\* clear removes what it listed; a file that is gone ends it.
LEMMA ClearStep ==
    ASSUME RecInv, Recorded!ClearRemoves
    PROVE  RecInv' /\ Recorded!PrunesTheOldest
<1> DEFINE f == CHOOSE g \in todo : \A h \in todo : g <= h
<1>1. /\ clear = "removing" /\ todo # {}
      /\ UNCHANGED <<clock, paused, up, record, at, file, openedAt, names, crashes, unpruned, quiet>>
      /\ IF f \in Recorded!Linked
         THEN /\ files' = [files EXCEPT ![f].place = "cleared"]
              /\ todo' = todo \ {f} /\ UNCHANGED clear
         ELSE todo' = {} /\ clear' = "idle" /\ UNCHANGED files
      BY DEF Recorded!ClearRemoves, Recorded!recordVars
<1> HIDE DEF f
<1>2. /\ RecordTypes /\ todo \subseteq DOMAIN files /\ Recorded!Linked \subseteq DOMAIN files
      /\ clear \in {"idle", "allowed", "removing"}
  <2>1. RecordTypes  BY DEF RecInv
  <2> QED  BY <2>1, FilesListed DEF RecordTypes
<1>3. PICK g \in DOMAIN files :
         /\ files' = [files EXCEPT ![g].place = "cleared"] \/ (g \notin Recorded!Linked /\ files' = files)
         /\ todo' \subseteq todo /\ clear' \in {"idle", "allowed", "removing"}
  <2>1. CASE f \in Recorded!Linked  BY <1>1, <1>2, <2>1
  <2>2. CASE f \notin Recorded!Linked /\ \E x \in DOMAIN files : x \notin Recorded!Linked
        BY <1>1, <1>2, <2>2
  <2>3. CASE f \notin Recorded!Linked /\ ~ \E x \in DOMAIN files : x \notin Recorded!Linked
    <3>1. f \in todo
      <4>1. todo \subseteq Nat  BY <1>2, FilesListed
      <4>2. \E g \in todo : \A h \in todo : g <= h  BY <1>1, <4>1, SmallestNumber
      <4> QED  BY <4>2 DEF f
    <3> QED  BY <1>2, <2>3, <3>1
  <2> QED  BY <2>1, <2>2, <2>3
<1>4. names' \subseteq names /\ names' = names  BY <1>1
<1>5. RecInv'  BY <1>1, <1>3, <1>4, RemovalStep
<1>6. Recorded!PrunesTheOldest
  <2>1. ASSUME NEW x \in DOMAIN files, x \in Recorded!Linked PROVE files'[x].place # "pruned"
    <3>1. files[x].place = "linked" /\ files[x] \in FileRows
          BY <1>2, <2>1, FilesListed DEF Recorded!Linked
    <3>2. CASE files' = files  BY <3>1, <3>2
    <3>3. CASE files' = [files EXCEPT ![g].place = "cleared"]
      <4>1. CASE x = g
        <5>1. files'[x] = [files[x] EXCEPT !.place = "cleared"]  BY <3>3, <4>1
        <5> QED  BY <3>1, <5>1 DEF FileRows
      <4>2. CASE x # g  BY <3>1, <3>3, <4>2
      <4> QED  BY <4>1, <4>2
    <3> QED  BY <1>3, <3>2, <3>3
  <2>2. ~(unpruned' < unpruned)  BY <1>1, RecordBounds, FilesListed DEF RecInv, RecordTypes
  <2> QED  BY <1>1, <2>1, <2>2 DEF Recorded!PrunesTheOldest
<1> QED  BY <1>5, <1>6

\* When pruning is over, what it listed fits, and nothing of it is too old but
\* perhaps the open file.
LEMMA AfterPruning ==
    ASSUME RecInv, Recorded!PruningDone
    PROVE  /\ Cardinality(Recorded!Linked) <= MaxFiles
           /\ \A f \in Recorded!Linked \ {file} : files[f].mod >= at - Retention
<1>1. /\ record = "pruning" /\ RecordTypes /\ Recorded!Linked \subseteq names
      /\ names \subseteq DOMAIN files
      BY DEF RecInv, RecordTypes, Recorded!PruningDone
<1>2. /\ IsFiniteSet(names) /\ Cardinality(names) \in Nat
      /\ Cardinality(Recorded!Linked) \in Nat
      /\ \A f \in names : files[f].mod \in Nat
      BY <1>1, FilesListed
<1>3. Cardinality(Recorded!Linked) <= Cardinality(names)  BY <1>1, <1>2, FS_Subset
<1>4. at \in Int /\ Retention \in Int /\ MaxFiles \in Nat \ {0}  BY <1>1, RecordBounds DEF RecordTypes
<1>5. CASE Recorded!Oldest = {}
  <2>1. names \ {file} = {}
    <3> SUFFICES ASSUME names \ {file} # {} PROVE FALSE  OBVIOUS
    <3>1. \E f \in names \ {file} : \A g \in names \ {file} : files[f].mod <= files[g].mod
          BY <1>1, SomeOldest
    <3> QED  BY <1>5, <3>1 DEF Recorded!Oldest
  <2>2. Recorded!Linked \subseteq {file}  BY <1>1, <2>1
  <2>3. Cardinality(Recorded!Linked) <= Cardinality({file}) /\ Cardinality({file}) = 1
        BY <2>2, FS_Singleton, FS_Subset
  <2> QED  BY <1>2, <1>4, <2>2, <2>3
<1>6. CASE \E f \in Recorded!Oldest : ~Recorded!Excess(f)
  <2>1. PICK f \in Recorded!Oldest : ~Recorded!Excess(f)  BY <1>6
  <2>2. /\ f \in names /\ \A g \in names \ {file} : files[f].mod <= files[g].mod
        BY DEF Recorded!Oldest
  <2>3. ~(files[f].mod < at - Retention) /\ ~(Cardinality(names) > MaxFiles)
        BY <2>1, RecordedCounts DEF Recorded!Excess
  <2>4. ASSUME NEW g \in Recorded!Linked \ {file} PROVE files[g].mod >= at - Retention
    <3>1. g \in names \ {file} /\ files[g].mod \in Nat /\ files[f].mod \in Nat  BY <1>1, <1>2, <2>2
    <3> QED  BY <1>4, <2>2, <2>3, <3>1
  <2> QED  BY <1>2, <1>3, <1>4, <2>3, <2>4
<1> QED  BY <1>5, <1>6 DEF Recorded!PruningDone

\* The row is written.
LEMMA WriteStep ==
    ASSUME RecInv, Recorded!Write
    PROVE  RecInv' /\ Recorded!PrunesTheOldest
<1>1. /\ RecordTypes /\ files \in Seq(FileRows) /\ Len(files) \in Nat
      /\ DOMAIN files = 1 .. Len(files) /\ \A g \in DOMAIN files : files[g] \in FileRows
      /\ Recorded!Linked \subseteq DOMAIN files
  <2>1. RecordTypes  BY DEF RecInv
  <2> QED  BY <2>1, FilesListed
<1>2. /\ record' = "idle" /\ names' = {} /\ up
      /\ (record = "checked" /\ ~Recorded!MustRotate) \/ Recorded!PruningDone
      /\ files' = [files EXCEPT ![file].rows = @ + 1, ![file].mod = clock]
      /\ quiet' = (IF paused THEN quiet + 1 ELSE quiet)
      /\ unpruned' = (IF record = "pruning" THEN 0 ELSE unpruned)
      /\ UNCHANGED <<clock, paused, up, at, file, openedAt, clear, todo, crashes>>
      BY DEF Recorded!Write, Recorded!clearVars
<1>3. record # "idle" /\ quiet = 0  BY <1>2 DEF Recorded!PruningDone, RecInv
<1>4. file \in DOMAIN files /\ file # 0 /\ files[file].rows < RowsPerFile
  <2>1. CASE record = "checked" /\ ~Recorded!MustRotate
    <3>1. file # 0 /\ ~(files[file].rows >= RowsPerFile)  BY <2>1 DEF Recorded!MustRotate
    <3>2. file \in DOMAIN files  BY <1>1, <3>1 DEF RecordTypes
    <3>3. files[file].rows \in Nat  BY <1>1, <3>2, RecordBounds DEF FileRows
    <3> QED  BY <3>1, <3>2, <3>3, RecordBounds
  <2>2. CASE Recorded!PruningDone
    <3>1. file # 0 /\ files[file].rows = 0  BY <2>2 DEF Recorded!PruningDone, RecInv
    <3>2. file \in DOMAIN files  BY <1>1, <3>1 DEF RecordTypes
    <3> QED  BY <3>1, <3>2, RecordBounds
  <2> QED  BY <1>2, <2>1, <2>2
<1> DEFINE row == [files[file] EXCEPT !.rows = @ + 1, !.mod = clock]
<1>5. row \in FileRows /\ row.place = files[file].place /\ row.mod = clock
  <2>1. files[file] \in FileRows /\ clock \in Nat  BY <1>1, <1>4, RecordBounds DEF RecordTypes
  <2>2. files[file].rows + 1 \in 0 .. RowsPerFile  BY <1>4, <2>1, RecordBounds DEF FileRows
  <2> QED  BY <2>1, <2>2 DEF FileRows
<1>6. files' = [files EXCEPT ![file] = row]  BY <1>1, <1>2, <1>4
<1> HIDE DEF row
<1>7. /\ files' \in Seq(FileRows) /\ DOMAIN files' = DOMAIN files /\ Len(files') = Len(files)
      /\ \A g \in DOMAIN files : files'[g].place = files[g].place
      /\ \A g \in DOMAIN files : files'[g].mod = files[g].mod \/ files'[g].mod = clock
  <2>1. files' \in [1 .. Len(files) -> FileRows]  BY <1>1, <1>5, <1>6
  <2>2. files'[file] = row /\ \A g \in DOMAIN files : g # file => files'[g] = files[g]
        BY <1>1, <1>4, <1>6
  <2>3. files' \in Seq(FileRows) /\ DOMAIN files' = DOMAIN files /\ Len(files') = Len(files)
        BY <1>1, <2>1
  <2> QED  BY <1>5, <2>2, <2>3
<1>8. Recorded!Linked' = Recorded!Linked  BY <1>7 DEF Recorded!Linked
<1>9. RecordTypes'
  <2>1. clock <= clock /\ unpruned' \in 0 .. Len(files) /\ quiet' \in 0 .. 1
        BY <1>1, <1>2, <1>3, RecordBounds DEF RecordTypes
  <2>2. \A g \in DOMAIN files' : files'[g].mod <= clock'
        BY <1>1, <1>2, <1>7, <2>1 DEF RecordTypes
  <2> QED  BY <1>1, <1>2, <1>7, <2>1, <2>2 DEF RecordTypes
<1>10. Recorded!BoundedDisk'
  <2>1. CASE record = "pruning"
    <3>1. Recorded!PruningDone  BY <1>2, <2>1
    <3>2. Cardinality(Recorded!Linked) <= MaxFiles  BY <3>1, AfterPruning
    <3>3. MaxFiles + unpruned' = MaxFiles  BY <1>2, <2>1, RecordBounds
    <3> QED  BY <1>8, <3>2, <3>3, RecordedCounts DEF Recorded!BoundedDisk
  <2>2. CASE record # "pruning"
        BY <1>2, <1>8, <2>2 DEF RecInv, Recorded!BoundedDisk
  <2> QED  BY <2>1, <2>2
<1>11. Recorded!OpenFileNotPruned'
       BY <1>2, <1>4, <1>7 DEF RecInv, Recorded!OpenFileNotPruned
<1>12. RecInv'
  <2>1. ~paused' => quiet' = 0  BY <1>2, <1>3
  <2> QED  BY <1>2, <1>9, <1>10, <1>11, <2>1 DEF RecInv
<1>13. Recorded!PrunesTheOldest
  <2>1. \A f \in Recorded!Linked : f \in DOMAIN files /\ files'[f].place # "pruned"
        BY <1>1, <1>7 DEF Recorded!Linked
  <2>2. record = "pruning" => \A f \in Recorded!Linked \ {file} : files[f].mod >= at - Retention
        BY <1>2, AfterPruning
  <2> QED  BY <2>1, <2>2 DEF Recorded!PrunesTheOldest
<1> QED  BY <1>12, <1>13

LEMMA RecordNext ==
    RecInv /\ (Recorded!Next \/ UNCHANGED recordVars) => RecInv' /\ Recorded!PrunesTheOldest
BY QuietStep, RotateStep, PruneStep, ClearStep, WriteStep DEF Recorded!Next

LEMMA RecordSafe ==
    RecInv => /\ Recorded!TypeOK /\ Recorded!BoundedDisk /\ Recorded!OpenFileNotPruned
              /\ Recorded!PausedIsQuiet
<1> SUFFICES ASSUME RecInv
             PROVE  /\ Recorded!TypeOK /\ Recorded!BoundedDisk /\ Recorded!OpenFileNotPruned
                    /\ Recorded!PausedIsQuiet
    OBVIOUS
<1>1. RecordTypes /\ \A f \in DOMAIN files : files[f] \in FileRows
  <2>1. RecordTypes  BY DEF RecInv
  <2> QED  BY <2>1, FilesListed
<1>2. quiet \in Nat /\ quiet <= 1  BY <1>1 DEF RecordTypes
<1>3. \A f \in DOMAIN files : /\ files[f].place \in {"linked", "cleared", "pruned"}
                              /\ files[f].mod \in 0 .. clock /\ files[f].rows \in 0 .. RowsPerFile
  <2>1. \A f \in DOMAIN files : files[f].mod \in Nat /\ files[f].mod <= clock /\ clock \in Nat
        BY <1>1, RecordBounds DEF RecordTypes, FileRows
  <2> QED  BY <1>1, <2>1 DEF FileRows
<1>4. Recorded!TypeOK  BY <1>1, <1>2, <1>3 DEF RecordTypes, Recorded!TypeOK
<1> QED  BY <1>2, <1>4 DEF RecInv, Recorded!PausedIsQuiet

-----------------------------------------------------------------------------
(* The evidence table two processes share: the proofs of EvidenceStore for *)
(* the instance that part runs.  Its definitions are those of the module.  *)

SP == INSTANCE EvidenceStore_proofs WITH
    Procs <- Pair, MaxRows <- 1, MayStepBack <- TRUE, MaxClock <- 1, MaxOffers <- 3, MaxFaults <- 0,
    MaxStarts <- 2

LEMMA SharedAssumptions ==
    /\ SP!IsFiniteSet(Pair) /\ SP!IsFiniteSet(Targets) /\ TRUE \in BOOLEAN
    /\ \A n \in {1, TrimEvery, QueueSize, Retention} : n \in Nat \ {0}
    /\ \A n \in {1, 2, 3, 0} : n \in Nat
    /\ WinsNeeded \in [SP!Paths -> Nat] /\ SessionsNeeded \in [SP!Paths -> Nat]
    /\ \A path \in SP!Paths : WinsNeeded[path] >= 2 /\ SessionsNeeded[path] >= 2
<1>1. SP!IsFiniteSet(Pair) /\ SP!IsFiniteSet(Targets)
      BY StorageAssumption, FiniteTargets DEF SP!IsFiniteSet, IsFiniteSet
<1>2. SP!Paths = Paths  BY DEF SP!Paths, Paths, SP!Direct, Direct, SP!Proxy, Proxy
<1>3. \A n \in {TrimEvery, QueueSize, Retention} : n \in Nat \ {0}  BY EvidenceBounds
<1> QED  BY <1>1, <1>2, <1>3, ThresholdAssumption

LEMMA SharedNames ==
    /\ Shared!tables = SP!tables /\ Shared!writer = SP!writer /\ Shared!vars = SP!vars
    /\ Shared!Requests = SP!Requests /\ Shared!NoRequest = SP!NoRequest
    /\ Shared!NoVerdict = SP!NoVerdict /\ Shared!Down = SP!Down /\ Shared!Opening = SP!Opening
    /\ Shared!Writing = SP!Writing /\ Shared!Alive = SP!Alive /\ Shared!Paths = SP!Paths
    /\ Shared!Verdicts = SP!Verdicts
    /\ \A S : Shared!Cardinality(S) = SP!Cardinality(S) /\ SP!Cardinality(S) = Cardinality(S)
    /\ \A r, s : Shared!Newer(r, s) = SP!Newer(r, s) /\ SP!Newer(r, s) = Newer(r, s)
BY DEF
   Shared!tables, SP!tables, Shared!writer, SP!writer, Shared!vars, SP!vars, Shared!Requests,
   SP!Requests, Shared!NoRequest, SP!NoRequest, Shared!NoVerdict, SP!NoVerdict, Shared!Down,
   SP!Down, Shared!Opening, SP!Opening, Shared!Writing, SP!Writing, Shared!Alive, SP!Alive,
   Shared!Paths, SP!Paths, Shared!Direct, SP!Direct, Shared!Proxy, SP!Proxy, Shared!Verdicts,
   SP!Verdicts, Shared!Cardinality, SP!Cardinality, Shared!Newer, SP!Newer, Cardinality, Newer

LEMMA SharedInit == Shared!Init => SP!EvidenceInv /\ SP!CeilingInv
<1>1. Shared!Init => SP!Init  BY SharedNames DEF Shared!Init, SP!Init
<1> QED  BY <1>1, SharedAssumptions, SP!EvidenceInit, SP!CeilingInit

LEMMA SharedTables ==
    /\ \A t : Shared!Trimmed(t) = SP!Trimmed(t)
    /\ \A t, c : Shared!Unexpired(t, c) = SP!Unexpired(t, c)
    /\ \A kept : Shared!Keep(kept) <=> SP!Keep(kept)
    /\ (Shared!Trim <=> SP!Trim) /\ (Shared!Fault <=> SP!Fault)
    /\ \A p, from, to : Shared!Moves(p, from, to) <=> SP!Moves(p, from, to)
    /\ \A p : (Shared!Take(p) <=> SP!Take(p)) /\ Shared!Written(p) = SP!Written(p)
                /\ (Shared!Gone(p) <=> SP!Gone(p))
<1>1. \A t : Shared!Trimmed(t) = SP!Trimmed(t)
      BY SharedNames DEF Shared!Trimmed, SP!Trimmed
<1>2. \A t, c : Shared!Unexpired(t, c) = SP!Unexpired(t, c)
      BY DEF Shared!Unexpired, SP!Unexpired
<1>3. \A kept : Shared!Keep(kept) <=> SP!Keep(kept)  BY DEF Shared!Keep, SP!Keep
<1>4. Shared!Fault <=> SP!Fault  BY DEF Shared!Fault, SP!Fault, Shared!tables, SP!tables
<1>5. Shared!Trim <=> SP!Trim  BY <1>1, <1>3 DEF Shared!Trim, SP!Trim
<1>6. \A p, from, to : Shared!Moves(p, from, to) <=> SP!Moves(p, from, to)
      BY DEF Shared!Moves, SP!Moves
<1>7. \A p : Shared!Take(p) <=> SP!Take(p)  BY SharedNames DEF Shared!Take, SP!Take
<1>8. \A p : Shared!Written(p) = SP!Written(p)  BY SharedNames DEF Shared!Written, SP!Written
<1>9. \A p : Shared!Gone(p) <=> SP!Gone(p)  BY SharedNames DEF Shared!Gone, SP!Gone
<1> QED  BY <1>1, <1>2, <1>3, <1>4, <1>5, <1>6, <1>7, <1>8, <1>9

LEMMA SharedAssessment ==
    \A t, target, c : Shared!Evaluate(Shared!Summarize(t, target, c))
                         = SP!Evaluate(SP!Summarize(t, target, c))
BY DEF Shared!Evaluate, SP!Evaluate, Shared!Summarize, SP!Summarize, Shared!Supported, SP!Supported,
       Shared!Paths, SP!Paths, Shared!Direct, SP!Direct, Shared!Proxy, SP!Proxy,
       Shared!Cardinality, SP!Cardinality

\* Each action is that of the module.
LEMMA SharedActions ==
    ASSUME NEW p \in Pair
    PROVE  /\ Shared!Start(p) => SP!Start(p)
           /\ Shared!Prune(p) => SP!Prune(p)
           /\ Shared!TrimAtStart(p) => SP!TrimAtStart(p)
           /\ Shared!StartSession(p) => SP!StartSession(p)
           /\ Shared!OpenFails(p) => SP!OpenFails(p)
           /\ \A t \in Targets, path \in SP!Paths : 
                 Shared!Enqueue(p, t, path) => SP!Enqueue(p, t, path)
           /\ Shared!AppendRow(p) => SP!AppendRow(p)
           /\ Shared!AppendFails(p) => SP!AppendFails(p)
           /\ Shared!Assess(p) => SP!Assess(p)
           /\ Shared!Count(p) => SP!Count(p)
           /\ Shared!Close(p) => SP!Close(p)
           /\ Shared!Drained(p) => SP!Drained(p)
           /\ Shared!Deadline(p) => SP!Deadline(p)
           /\ Shared!FinalTrim(p) => SP!FinalTrim(p)
           /\ Shared!Exit(p) => SP!Exit(p)
<1> USE SharedNames, SharedTables DEF Shared!tables, SP!tables, Shared!writer, SP!writer
<1>1. Shared!Start(p) => SP!Start(p)  BY DEF Shared!Start, SP!Start
<1>2. Shared!Prune(p) => SP!Prune(p)  BY DEF Shared!Prune, SP!Prune
<1>3. Shared!TrimAtStart(p) => SP!TrimAtStart(p)  BY DEF Shared!TrimAtStart, SP!TrimAtStart
<1>4. Shared!StartSession(p) => SP!StartSession(p)  BY DEF Shared!StartSession, SP!StartSession
<1>5. Shared!OpenFails(p) => SP!OpenFails(p)  BY DEF Shared!OpenFails, SP!OpenFails
<1>6. ASSUME NEW t \in Targets, NEW path \in SP!Paths
      PROVE  Shared!Enqueue(p, t, path) => SP!Enqueue(p, t, path)
      BY DEF Shared!Enqueue, SP!Enqueue
<1>7. Shared!AppendRow(p) => SP!AppendRow(p)  BY DEF Shared!AppendRow, SP!AppendRow
<1>8. Shared!AppendFails(p) => SP!AppendFails(p)  BY DEF Shared!AppendFails, SP!AppendFails
<1>9. Shared!Assess(p) => SP!Assess(p)
      BY SharedAssessment DEF Shared!Assess, SP!Assess, Shared!Cutoff, SP!Cutoff
<1>10. Shared!Count(p) => SP!Count(p)  BY DEF Shared!Count, SP!Count
<1>11. Shared!Close(p) => SP!Close(p)  BY DEF Shared!Close, SP!Close
<1>12. Shared!Drained(p) => SP!Drained(p)  BY DEF Shared!Drained, SP!Drained
<1>13. Shared!Deadline(p) => SP!Deadline(p)  BY DEF Shared!Deadline, SP!Deadline
<1>14. Shared!FinalTrim(p) => SP!FinalTrim(p)  BY DEF Shared!FinalTrim, SP!FinalTrim
<1>15. Shared!Exit(p) => SP!Exit(p)  BY DEF Shared!Exit, SP!Exit
<1> QED  BY <1>1, <1>2, <1>3, <1>4, <1>5, <1>6, <1>7, <1>8, <1>9, <1>10, <1>11, <1>12, <1>13, <1>14,
            <1>15

LEMMA SharedNext ==
    ASSUME SP!EvidenceInv, SP!CeilingInv, Shared!Next \/ UNCHANGED vars
    PROVE  SP!EvidenceInv' /\ SP!CeilingInv' /\ Shared!KeepsNewest
<1>1. Shared!Next => SP!Next
  <2>1. Shared!Clock => SP!Clock  
        BY DEF Shared!Clock, SP!Clock, Shared!tables, SP!tables, Shared!writer, SP!writer
  <2>2. Shared!Paths = SP!Paths  BY SharedNames
  <2> QED  BY <2>1, <2>2, SharedActions DEF Shared!Next, SP!Next
<1>2. UNCHANGED vars => UNCHANGED SP!vars
      BY DEF vars, tables, writer, SP!vars, SP!tables, SP!writer
<1>3. SP!EvidenceInv'  BY <1>1, <1>2, SharedAssumptions, SP!EvidenceNext
<1>6. SP!CeilingInv'  BY <1>1, <1>2, SharedAssumptions, SP!CeilingNext
<1>4. SP!KeepsNewest  BY <1>1, <1>2, SharedAssumptions, SP!StepKeepsNewest
<1>5. Shared!KeepsNewest  BY <1>4, SharedNames DEF Shared!KeepsNewest, SP!KeepsNewest
<1> QED  BY <1>3, <1>5, <1>6

LEMMA SharedSafe ==
    ASSUME SP!EvidenceInv, SP!CeilingInv
    PROVE  Shared!TypeOK /\ Shared!RowsAccounted /\ Shared!CeilingKept /\ ReferencesHold
<1>1. SP!TypeOK /\ SP!RowsAccounted /\ SP!ReferencesHold  BY SharedAssumptions, SP!EvidenceSafe
<1>2. Shared!TypeOK  BY <1>1, SharedNames DEF Shared!TypeOK, SP!TypeOK
<1>3. Shared!MapThenSumSet(Shared!Written, Pair) = SP!MapThenSumSet(SP!Written, Pair)
      BY SharedNames DEF Shared!MapThenSumSet, SP!MapThenSumSet, Shared!MapThenFoldSet,
         SP!MapThenFoldSet, Shared!Written, SP!Written
<1>4. Shared!RowsAccounted
      BY <1>1, <1>3, SharedNames DEF Shared!RowsAccounted, SP!RowsAccounted
<1>5. ReferencesHold  BY <1>1 DEF SP!ReferencesHold, ReferencesHold
<1>6. SP!CeilingKept  BY SharedAssumptions, SP!CeilingSafe
<1>7. Shared!CeilingKept
      BY <1>6, SharedNames DEF Shared!CeilingKept, SP!CeilingKept, Shared!Written, SP!Written
<1> QED  BY <1>2, <1>4, <1>5, <1>7

-----------------------------------------------------------------------------
(* The whole: one part runs, and the others never move.                    *)

StorageInv ==
    /\ part \in {"alone", "shared", "files", "recorder", "locks"}
    /\ part = "alone" => EvidenceInv /\ CeilingInv /\ \A p \in Procs : InOrder(p)
    /\ part = "shared" => SP!EvidenceInv /\ SP!CeilingInv
    /\ part = "files" => FilesInv
    /\ part = "recorder" => RecInv
    /\ part = "locks" => LocksInv

\* What a step of a part may do, ...
StepsAllowed ==
    /\ part = "alone" => KeepsNewest /\ SuggestsIndependently
    /\ part = "shared" => Shared!KeepsNewest
    /\ part = "recorder" => Recorded!PrunesTheOldest
    /\ part = "locks" => Locks!RefusedForItsTime /\ Locks!KeepsHistory

LEMMA StorageInit == MCInit => StorageInv
<1> SUFFICES ASSUME MCInit PROVE StorageInv  OBVIOUS
<1>1. part = "alone" => EvidenceInv /\ CeilingInv /\ \A p \in Procs : InOrder(p)
  <2>1. part = "alone" => Init  BY DEF MCInit
  <2> QED  BY <2>1, EvidenceInit, CeilingInit, InitInOrder
<1>2. part = "shared" => SP!EvidenceInv /\ SP!CeilingInv  BY SharedInit DEF MCInit
<1>3. FilesInv /\ LocksInv /\ (part = "recorder" => RecInv)
      BY FilesInit, RecordInit, LocksInit DEF MCInit
<1> QED  BY <1>1, <1>2, <1>3 DEF MCInit, StorageInv

\* One process, as the part "alone" has it.
LEMMA AloneNext ==
    ASSUME EvidenceInv, CeilingInv, \A p \in Procs : InOrder(p), [Next]_vars
    PROVE  /\ EvidenceInv' /\ CeilingInv' /\ \A p \in Procs : InOrder(p)'
           /\ KeepsNewest /\ SuggestsIndependently
<1>1. PICK p \in Procs : Procs = {p}  BY AloneAssumption
<1>2. InOrder(p)'  BY <1>1, AloneAssumption, OneInOrder
<1> QED  BY <1>1, <1>2, EvidenceNext, CeilingNext, StepKeepsNewest, StepSuggestsIndependently

\* ... and that it keeps the invariant.
LEMMA StorageNext == StorageInv /\ [MCNext]_allVars => StorageInv' /\ StepsAllowed
<1> SUFFICES ASSUME StorageInv, [MCNext]_allVars PROVE StorageInv' /\ StepsAllowed  OBVIOUS
<1>1. part' = part  BY DEF MCNext, allVars
<1>2. /\ part = "alone" => [Next]_vars
      /\ part = "shared" => Shared!Next \/ UNCHANGED vars
      /\ part = "files" => Files!Next \/ UNCHANGED fileVars
      /\ part = "recorder" => Recorded!Next \/ UNCHANGED recordVars
      /\ part = "locks" => Locks!Next \/ UNCHANGED lockVars
      BY DEF MCNext, Stored, allVars
<1>3. part = "files" => FilesInv'  BY <1>2, FilesNext DEF StorageInv
<1>4. part = "recorder" => RecInv' /\ Recorded!PrunesTheOldest
      BY <1>2, RecordNext DEF StorageInv
<1>5. part = "locks" => LocksInv' /\ Locks!RefusedForItsTime /\ Locks!KeepsHistory
      BY <1>2, LocksNext DEF StorageInv
<1>6. part = "alone" => /\ EvidenceInv' /\ CeilingInv' /\ \A p \in Procs : InOrder(p)'
                        /\ KeepsNewest /\ SuggestsIndependently
      BY <1>2, AloneNext DEF StorageInv
<1>7. part = "shared" => SP!EvidenceInv' /\ SP!CeilingInv' /\ Shared!KeepsNewest
      BY <1>2, SharedNext DEF StorageInv
<1> QED  BY <1>1, <1>3, <1>4, <1>5, <1>6, <1>7 DEF StorageInv, StepsAllowed

LEMMA StorageInvariant == MCSpec => []StorageInv
<1>1. MCInit => StorageInv  BY StorageInit
<1>2. StorageInv /\ [MCNext]_allVars => StorageInv'  BY StorageNext
<1> QED  BY <1>1, <1>2, PTL DEF MCSpec

LEMMA StorageTypes == StorageInv => StorageTypeOK
<1> SUFFICES ASSUME StorageInv PROVE StorageTypeOK  OBVIOUS
<1>1. part = "alone" => TypeOK  BY EvidenceSafe DEF StorageInv
<1>2. part = "shared" => Shared!TypeOK  BY SharedSafe DEF StorageInv
<1>3. /\ part = "files" => Files!TypeOK
      /\ part = "recorder" => Recorded!TypeOK
      /\ part = "locks" => Locks!TypeOK
      BY FilesSafe, RecordSafe, LocksSafe DEF StorageInv
<1> QED  BY <1>1, <1>2, <1>3 DEF StorageInv, StorageTypeOK

\* However many processes share the evidence table and trims fail or processes
\* die, the rows above the ceiling are owed by a writer that counts them, TrimEvery
\* at most but for failed transactions, or were left by one that died since the
\* last trim; there are none when every process has just started or closed in
\* time; and every part keeps its types
\* (internal/store and main.go, TrimEvidenceTo, OnProcessed and Close).
THEOREM ExcessIsOwed == MCSpec => []ExcessAccounted
<1>1. StorageInv => ExcessAccounted
      BY StorageTypes, EvidenceSafe, CeilingSafe, SharedSafe DEF StorageInv, ExcessAccounted, Stores, Alone
<1> QED  BY <1>1, StorageInvariant, PTL

\* No cleaning leaves a row without its session, and a process alone stays
\* registered while it writes: the row it wrote last is the newest, which no
\* trim of its own deletes (internal/store, TrimEvidenceTo).
THEOREM SessionsStay == MCSpec => []SessionsRegistered
<1>1. StorageInv => SessionsRegistered
  <2> SUFFICES ASSUME StorageInv PROVE SessionsRegistered  OBVIOUS
  <2>1. CASE part = "alone"
    <3>1. PICK p \in Procs : Procs = {p}  BY AloneAssumption
    <3>2. EvidenceInv /\ InOrder(p)  BY <2>1 DEF StorageInv
    <3>3. ReferencesHold /\ SessionStaysRegistered  BY <3>1, <3>2, EvidenceSafe, OrderIsSafe
    <3> QED  BY <3>3 DEF SessionsRegistered
  <2>2. CASE part = "shared"
    <3>1. ReferencesHold  BY <2>2, SharedSafe DEF StorageInv
    <3> QED  BY <2>2, <3>1 DEF SessionsRegistered, Alone
  <2>3. CASE ~Stores  BY <2>3 DEF SessionsRegistered, Stores, Alone
  <2> QED  BY <2>1, <2>2, <2>3 DEF Stores
<1> QED  BY <1>1, StorageInvariant, PTL

\* The assessment that follows a row counts it, and the report of the operator
\* adds up whatever the order in which it takes the targets (internal/learning,
\* DurableEvaluator.Report).
THEOREM EvidenceCounts == MCSpec => []EvidenceIsCounted
<1>1. StorageInv => EvidenceIsCounted
  <2> SUFFICES ASSUME StorageInv, part = "alone" PROVE AssessmentSeesItsRow /\ ReportAddsUp
      BY DEF EvidenceIsCounted, Alone
  <2>1. EvidenceInv /\ \A p \in Procs : InOrder(p)  BY DEF StorageInv
  <2>2. PICK p \in Procs : Procs = {p}  BY AloneAssumption
  <2>3. AssessmentSeesItsRow  BY <2>1, <2>2, OrderIsSafe
  <2>4. ReportAddsUp  BY <2>1, ReportCounts DEF EvidenceInv
  <2> QED  BY <2>3, <2>4
<1> QED  BY <1>1, StorageInvariant, PTL

\* Whatever a trim or a pruning deletes, the newest rows and files stay
\* (internal/store, TrimEvidenceTo; internal/observe, pruneLocked).
THEOREM NewestStay == MCSpec => NewestAreKept
<1>1. StorageInv /\ [MCNext]_allVars =>
        [/\ Stores => IF Alone THEN KeepsNewest ELSE Shared!KeepsNewest
         /\ part = "recorder" => Recorded!PrunesTheOldest]_allVars
      BY StorageNext DEF StepsAllowed, Stores, Alone
<1> QED  BY <1>1, StorageInvariant, PTL DEF MCSpec, NewestAreKept

\* A path is suggested only on rows of that path and no other, from as many
\* sessions as it takes, each of another start (internal/learning,
\* DurableEvaluator.Evaluate).
THEOREM SuggestionsAreIndependent == MCSpec => VerdictIsIndependent
<1>1. StorageInv /\ [MCNext]_allVars => [Alone => SuggestsIndependently]_allVars
      BY StorageNext DEF StepsAllowed, Alone
<1> QED  BY <1>1, StorageInvariant, PTL DEF MCSpec, VerdictIsIndependent

\* However many processes start on an empty directory, interleave and end half
\* way, those that open the store share one key, and no database is ever without
\* its whole key: what a start can be refused for is a key without a database,
\* created and never written, with which no row is lost (internal/store,
\* loadOrCreateSecret and migrate).
THEOREM StartsShareOneKey == MCSpec => []OneKeyForAllRows
<1>1. StorageInv => OneKeyForAllRows  BY FilesSafe DEF StorageInv, OneKeyForAllRows
<1> QED  BY <1>1, StorageInvariant, PTL

\* A backup that verifies is one snapshot of the database with the key its rows
\* were written under, and what a restore leaves behind opens only when it is
\* that backup (internal/store, CreateBackup, VerifyBackup and RestoreBackup).
THEOREM BackupsAreComplete == MCSpec => []CopiesAreComplete
<1>1. StorageInv => CopiesAreComplete  BY FilesSafe DEF StorageInv, CopiesAreComplete
<1> QED  BY <1>1, StorageInvariant, PTL

\* The recorder's directory is bounded, the open file is not pruned, and after a
\* pause one event at most is written (internal/observe, Recorder.Record).
THEOREM RecordingIsContained == MCSpec => []RecorderIsContained
<1>1. StorageInv => RecorderIsContained  BY RecordSafe DEF StorageInv, RecorderIsContained
<1> QED  BY <1>1, StorageInvariant, PTL

\* Of any number of commands that lock and revoke at any time, on a clock that
\* may be set back, no two locks of a target are active, and every stored row
\* can be read (internal/fixedpolicy, Lock, Revoke and List).
THEOREM TargetsHaveOneLock == MCSpec => []OneLockPerTarget
<1>1. StorageInv => OneLockPerTarget  BY LocksSafe DEF StorageInv, OneLockPerTarget
<1> QED  BY <1>1, StorageInvariant, PTL

\* The table of locks refuses one only because it is shorter than a millisecond
\* or the clock was set back, and it never loses or rewrites a rule but to
\* revoke it.
THEOREM LocksKeepTheirHistory == MCSpec => LocksAreRefusedForTheirTime
<1>1. StorageInv /\ [MCNext]_allVars =>
        [part = "locks" => Locks!RefusedForItsTime /\ Locks!KeepsHistory]_allVars
      BY StorageNext DEF StepsAllowed
<1> QED  BY <1>1, StorageInvariant, PTL DEF MCSpec, LocksAreRefusedForTheirTime
=============================================================================
