--------------------------- MODULE Backup_proofs ---------------------------
(***************************************************************************)
(* BackupInv is inductive, for any number of accounts, goroutines, keys,   *)
(* pools, directories, commands and troubles, and implies BundleWhole,     *)
(* KeptInPlace and OnePool.                                                *)
(***************************************************************************)
EXTENDS Backup, TLAPS

-----------------------------------------------------------------------------
(* The steps of a command in its private stage.                            *)

LEMMA HomeKnown == Home \in Names /\ Home \notin Outs
  BY HomeAssumption DEF Names

\* A command that moves on, and is not answerable for anything, disturbs nothing.
LEMMA StepKeeps ==
  ASSUME BackupInv, NEW j \in Jobs, NEW new \in Commands, Step(j, new),
         ~new.made, Progress(new)
  PROVE BackupInv'
<1>0. UNCHANGED <<dirs, server, call, held, files, committed, troubles>>
      /\ job' = [job EXCEPT ![j] = new]
  BY DEF Step
<1>1. TypeOK'
  BY <1>0 DEF BackupInv, TypeOK
<1>2. ServerAtHome' /\ PoolsAgree' /\ HomeCounted'
  BY <1>0 DEF BackupInv, ServerAtHome, PoolsAgree, HomeCounted, At, rows
<1>3. DirsSound'
  BY <1>0 DEF BackupInv, DirsSound, Sound, Whole, Vouched
<1>4. \A i \in Jobs : job'[i] = IF i = j THEN new ELSE job[i]
  BY <1>0 DEF BackupInv, TypeOK
<1>5. JobsSound'
  <2>. SUFFICES ASSUME NEW i \in Jobs PROVE Progress(job[i])' /\ InPlace(job[i])'
    BY DEF JobsSound
  <2>1. CASE i = j
    <3>1. job'[i] = new
      BY <1>4, <2>1
    <3>2. Progress(job[i])'
      BY <1>0, <3>1 DEF Progress, HasDb, At
    <3>. QED BY <3>1, <3>2 DEF InPlace
  <2>2. CASE i # j
    <3>1. job'[i] = job[i] /\ Progress(job[i]) /\ InPlace(job[i])
      BY <1>4, <2>2 DEF BackupInv, JobsSound
    <3>. QED BY <1>0, <3>1 DEF Progress, InPlace, HasDb, At
  <2>. QED BY <2>1, <2>2
<1>6. OneMaker'
  BY <1>4 DEF BackupInv, OneMaker
<1>. QED BY <1>1, <1>2, <1>3, <1>5, <1>6 DEF BackupInv

\* What a command that has published nothing has come to.
LEMMA StageFacts ==
  ASSUME BackupInv, NEW j \in Jobs
  PROVE /\ job[j] \in Commands /\ Progress(job[j])
        /\ job[j].at \notin {"published", "done"} => ~job[j].made
        /\ At \in Directories \cup {Nothing} /\ files \in Nat
  BY HomeKnown DEF BackupInv, TypeOK, JobsSound, InPlace, At

LEMMA FreshProgress ==
  ASSUME BackupInv, NEW new \in Commands, new.at \in {"idle", "staged", "begun"},
         new.source = 0, new.opened = 0
  PROVE Progress(new)
  BY DEF BackupInv, TypeOK, Progress

LEMMA BeginKeeps ==
  ASSUME BackupInv, NEW j \in Jobs, NEW from \in Outs, NEW dest \in Names,
         BeginBackup(j, dest) \/ BeginRestore(j, from, dest)
  PROVE BackupInv'
<1>1. CASE BeginBackup(j, dest)
  <2>. DEFINE new == [NoJob EXCEPT !.at = "staged", !.dest = dest]
  <2>1. new \in Commands /\ ~new.made /\ new.at = "staged" /\ new.source = 0 /\ new.opened = 0
    BY HomeKnown DEF NoJob, Commands, Ats, Files
  <2>2. Progress(new)
    BY <2>1, FreshProgress
  <2>. QED BY <1>1, <2>1, <2>2, StepKeeps DEF BeginBackup
<1>2. CASE BeginRestore(j, from, dest)
  <2>. DEFINE new == [NoJob EXCEPT !.at = "begun", !.from = from, !.dest = dest]
  <2>1. new \in Commands /\ ~new.made /\ new.at = "begun" /\ new.source = 0 /\ new.opened = 0
    BY HomeKnown DEF NoJob, Commands, Ats, Files, Names
  <2>2. Progress(new)
    BY <2>1, FreshProgress
  <2>. QED BY <1>2, <2>1, <2>2, StepKeeps DEF BeginRestore
<1>. QED BY <1>1, <1>2

LEMMA EndKeeps ==
  ASSUME BackupInv, NEW j \in Jobs, EndJob(j)
  PROVE BackupInv'
<1>1. NoJob \in Commands /\ ~NoJob.made /\ NoJob.at = "idle" /\ NoJob.source = 0 /\ NoJob.opened = 0
  BY HomeKnown DEF NoJob, Commands, Ats, Files
<1>2. Progress(NoJob)
  BY <1>1, FreshProgress
<1>. QED BY <1>1, <1>2, StepKeeps DEF EndJob

LEMMA ReadKeyKeeps ==
  ASSUME BackupInv, NEW j \in Jobs, ReadKey(j)
  PROVE BackupInv'
<1>. DEFINE new == [job[j] EXCEPT !.at = "keyed", !.key = At.key]
<1>1. new \in Commands /\ ~new.made /\ new.at = "keyed" /\ new.key \in Keys
      /\ new.source = job[j].source /\ new.opened = job[j].opened
  BY StageFacts DEF ReadKey, Commands, Ats
<1>2. Progress(new)
  BY <1>1, StageFacts DEF Progress
<1>. QED BY <1>1, <1>2, StepKeeps DEF ReadKey

LEMMA FindDbKeeps ==
  ASSUME BackupInv, NEW j \in Jobs, FindDb(j)
  PROVE BackupInv'
<1>. DEFINE new == [job[j] EXCEPT !.at = "found", !.source = At.id]
<1>1. At.id \in 1 .. files
  BY DEF FindDb, BackupInv, HomeCounted
<1>a. At.id \in Nat /\ At.id <= files
  BY <1>1, StageFacts
<1>2. new \in Commands /\ ~new.made /\ new.at = "found" /\ new.key = job[j].key
      /\ new.source = At.id /\ new.opened = job[j].opened
  BY <1>a, StageFacts DEF FindDb, Commands, Ats
<1>3. job[j].key \in Keys /\ job[j].opened <= files
  BY StageFacts DEF Progress, FindDb
<1>4. Progress(new)
  BY <1>1, <1>a, <1>2, <1>3, StageFacts DEF Progress
<1>. QED BY <1>2, <1>4, StepKeeps DEF FindDb

LEMMA OpenDbKeeps ==
  ASSUME BackupInv, NEW j \in Jobs, OpenDb(j)
  PROVE BackupInv'
<1>. DEFINE new == [job[j] EXCEPT !.at = "opened", !.opened = At.id]
<1>1. At.id \in 1 .. files /\ HasDb
  BY DEF OpenDb, BackupInv, HomeCounted, HasDb
<1>a. At.id \in Nat /\ At.id <= files /\ 1 <= At.id
  BY <1>1, StageFacts
<1>2. new \in Commands /\ ~new.made /\ new.at = "opened" /\ new.key = job[j].key
      /\ new.source = job[j].source /\ new.opened = At.id
  BY <1>a, StageFacts DEF OpenDb, Commands, Ats
<1>3. job[j].key \in Keys /\ job[j].source <= files /\ job[j].source <= At.id
  BY <1>1, StageFacts DEF Progress, OpenDb
<1>4. Progress(new)
  BY <1>1, <1>a, <1>2, <1>3, StageFacts DEF Progress
<1>. QED BY <1>2, <1>4, StepKeeps DEF OpenDb

\* The one step that may read a torn database: it is then older than what is there.
LEMMA VacuumKeeps ==
  ASSUME BackupInv, NEW j \in Jobs, Vacuum(j)
  PROVE BackupInv'
<1>. DEFINE db == IF At # Nothing /\ At.id = job[j].opened THEN At.db ELSE Broken
            new == [job[j] EXCEPT !.at = "copied", !.opened = 0, !.db = db]
<1>1. /\ job[j].key \in Keys /\ job[j].source <= files /\ job[j].source <= job[j].opened
      /\ 1 <= job[j].opened /\ (HasDb => job[j].opened <= At.id)
      /\ HasDb => job[j].source <= At.id
      /\ job[j].source \in Nat /\ job[j].opened \in Nat
  BY StageFacts DEF Progress, Vacuum, Commands
<1>2. HasDb => At.id \in Nat
  BY StageFacts DEF HasDb, Directories
<1>. HIDE DEF db
<1>4. db \in committed \/ (db = Broken /\ (HasDb => job[j].source < At.id))
  <2>1. CASE At # Nothing /\ At.id = job[j].opened
    <3>1. At.db # Nothing /\ At.db \in committed
      BY <1>1, <2>1 DEF BackupInv, HomeCounted
    <3>. QED BY <2>1, <3>1 DEF db
  <2>2. CASE ~(At # Nothing /\ At.id = job[j].opened)
    <3>1. HasDb => job[j].source < At.id
      BY <1>1, <1>2, <2>2 DEF HasDb
    <3>. QED BY <2>2, <3>1 DEF db
  <2>. QED BY <2>1, <2>2
<1>5. db \in States \cup Files
  BY <1>4 DEF BackupInv, TypeOK, Files
<1>6. new \in Commands /\ ~new.made /\ new.at = "copied" /\ new.key = job[j].key
      /\ new.source = job[j].source /\ new.opened = 0 /\ new.db = db
  BY <1>5, StageFacts DEF Vacuum, Commands, Ats
<1>7. Progress(new)
  BY <1>1, <1>4, <1>6, StageFacts DEF Progress
<1>. QED BY <1>6, <1>7, StepKeeps DEF Vacuum, db

LEMMA SameDbKeeps ==
  ASSUME BackupInv, NEW j \in Jobs, SameDb(j)
  PROVE BackupInv'
<1>. DEFINE new == [job[j] EXCEPT !.at = "same", !.source = 0]
<1>1. HasDb /\ At.id = job[j].source /\ job[j].source \in Nat
  BY StageFacts DEF SameDb, HasDb, Commands
<1>2. job[j].db \in committed /\ job[j].key \in Keys /\ job[j].opened <= files
  BY <1>1, StageFacts DEF Progress, SameDb
<1>3. new \in Commands /\ ~new.made /\ new.at = "same" /\ new.key = job[j].key
      /\ new.source = 0 /\ new.opened = job[j].opened /\ new.db = job[j].db
  BY StageFacts DEF SameDb, Commands, Ats
<1>4. Progress(new)
  BY <1>2, <1>3, StageFacts DEF Progress
<1>. QED BY <1>3, <1>4, StepKeeps DEF SameDb

LEMMA SealBackupKeeps ==
  ASSUME BackupInv, NEW j \in Jobs, SealBackup(j)
  PROVE BackupInv'
<1>. DEFINE new == [job[j] EXCEPT !.at = "sealed", !.from = Home]
<1>1. job[j].db \in committed /\ job[j].key \in Keys
      /\ job[j].source <= files /\ job[j].opened <= files
  BY StageFacts DEF Progress, SealBackup
<1>2. job[j].db # Broken
  BY <1>1, FilesAssumption DEF BackupInv, TypeOK, Files
<1>3. Opens(job[j].key, job[j].db)
  BY <1>2 DEF SealBackup
<1>4. new \in Commands /\ ~new.made /\ new.at = "sealed" /\ new.key = job[j].key
      /\ new.source = job[j].source /\ new.opened = job[j].opened /\ new.db = job[j].db
  BY StageFacts, HomeKnown DEF SealBackup, Commands, Ats
<1>5. Progress(new)
  BY <1>1, <1>3, <1>4 DEF Progress
<1>. QED BY <1>4, <1>5, StepKeeps DEF SealBackup

LEMMA CopyKeeps ==
  ASSUME BackupInv, NEW j \in Jobs, CopyDb(j) \/ CopyKey(j)
  PROVE BackupInv'
<1>1. job[j].from \in Names /\ dirs \in [Names -> Directories \cup {Nothing}]
  BY StageFacts DEF Commands, BackupInv, TypeOK
<1>2. job[j].source <= files /\ job[j].opened <= files
  BY StageFacts DEF Progress
<1>3. CASE CopyDb(j)
  <2>. DEFINE db == dirs[job[j].from]["db"]
              new == [job[j] EXCEPT !.at = "hasDb", !["db"] = db]
  <2>1. job[j].at = "begun" /\ dirs[job[j].from] # Nothing /\ Step(j, new)
    BY <1>3 DEF CopyDb, CopyFile
  <2>2. db \in States \cup Files
    BY <1>1, <2>1 DEF Directories
  <2>3. new \in Commands /\ ~new.made /\ new.at = "hasDb"
        /\ new.source = job[j].source /\ new.opened = job[j].opened
    BY <2>1, <2>2, StageFacts DEF Commands, Ats
  <2>4. Progress(new)
    BY <1>2, <2>3 DEF Progress
  <2>. QED BY <2>1, <2>3, <2>4, StepKeeps
<1>4. CASE CopyKey(j)
  <2>. DEFINE key == dirs[job[j].from]["key"]
              new == [job[j] EXCEPT !.at = "hasKey", !["key"] = key]
  <2>1. job[j].at = "hasDb" /\ dirs[job[j].from] # Nothing /\ Step(j, new)
    BY <1>4 DEF CopyKey, CopyFile
  <2>2. key \in Keys \cup Files
    BY <1>1, <2>1 DEF Directories
  <2>3. new \in Commands /\ ~new.made /\ new.at = "hasKey"
        /\ new.source = job[j].source /\ new.opened = job[j].opened
    BY <2>1, <2>2, StageFacts DEF Commands, Ats
  <2>4. Progress(new)
    BY <1>2, <2>3 DEF Progress
  <2>. QED BY <2>1, <2>3, <2>4, StepKeeps
<1>. QED BY <1>3, <1>4

\* A restore relies on the manifest: both copies are what it vouches for.
LEMMA FinishRestoreKeeps ==
  ASSUME BackupInv, NEW j \in Jobs, FinishRestore(j)
  PROVE BackupInv'
<1>. DEFINE new == [job[j] EXCEPT !.at = "sealed", !.from = Home]
            man == dirs[job[j].from].man
<1>1. /\ job[j].from \in Names /\ job[j].source <= files /\ job[j].opened <= files
      /\ job[j].db \in States \cup Files /\ job[j].key \in Keys
      /\ dirs[job[j].from] # Nothing /\ man = Hashes(job[j].db, job[j].key)
  BY StageFacts DEF Progress, Commands, FinishRestore
<1>2. man \in Manifests /\ man.db = job[j].db /\ man.key = job[j].key
  BY <1>1 DEF Hashes, Manifests
<1>3. man \notin Files
  BY <1>2, FilesAssumption
<1>4. Vouched(man)
  BY <1>1 DEF BackupInv, DirsSound, Sound
<1>5. job[j].db \in committed /\ Opens(job[j].key, job[j].db)
  BY <1>2, <1>3, <1>4 DEF Vouched
<1>6. new \in Commands /\ ~new.made /\ new.at = "sealed" /\ new.key = job[j].key
      /\ new.source = job[j].source /\ new.opened = job[j].opened /\ new.db = job[j].db
  BY StageFacts, HomeKnown DEF FinishRestore, Commands, Ats
<1>7. Progress(new)
  BY <1>1, <1>5, <1>6 DEF Progress
<1>. QED BY <1>6, <1>7, StepKeeps DEF FinishRestore

-----------------------------------------------------------------------------
(* Publication.                                                            *)

\* What is sealed is whole, and nothing that the server works in is replaced.
LEMMA PublishKeeps ==
  ASSUME BackupInv, NEW j \in Jobs, Publish(j)
  PROVE BackupInv'
<1>. DEFINE dest == job[j].dest
            id == IF dest = Home THEN files + 1 ELSE 0
            made == Bundle(j, id)
<1>1. /\ job[j] \in Commands /\ dest \in Names /\ job[j].at = "sealed" /\ dirs[dest] = Nothing
      /\ job[j].db \in committed /\ job[j].key \in Keys /\ Opens(job[j].key, job[j].db)
      /\ job[j].source <= files /\ job[j].opened <= files
      /\ files \in Nat
  BY StageFacts DEF Progress, Publish, Free, Commands
<1>2. /\ dirs' = [dirs EXCEPT ![dest] = made]
      /\ files' = IF dest = Home THEN files + 1 ELSE files
      /\ job' = [job EXCEPT ![j].at = "published", ![j].made = TRUE]
      /\ UNCHANGED <<server, call, held, committed, troubles>>
  BY DEF Publish
<1>3. /\ made \in Directories /\ made.db = job[j].db /\ made.key = job[j].key /\ made.id = id
      /\ made.man = Hashes(job[j].db, job[j].key) /\ made.safe = Parts
      /\ ~made.served /\ made # Nothing
  <2>1. made \in Directories
    BY <1>1 DEF Bundle, Directories, Hashes, Manifests, Synced, BackupInv, TypeOK
  <2>. QED BY <2>1, FilesAssumption DEF Bundle, Synced, Files
<1>. HIDE DEF made
<1>4. \A n \in Names : dirs'[n] = IF n = dest THEN made ELSE dirs[n]
  BY <1>2 DEF BackupInv, TypeOK
<1>5. \A i \in Jobs : /\ job'[i] = IF i = j THEN [job[j] EXCEPT !.at = "published", !.made = TRUE]
                                            ELSE job[i]
  BY <1>2 DEF BackupInv, TypeOK
<1>6. TypeOK'
  <2>1. files' \in Nat /\ dirs' \in [Names -> Directories \cup {Nothing}]
    BY <1>1, <1>2, <1>3 DEF BackupInv, TypeOK
  <2>2. job' \in [Jobs -> Commands]
    BY <1>1, <1>2 DEF BackupInv, TypeOK, Commands, Ats
  <2>. QED BY <1>2, <2>1, <2>2 DEF BackupInv, TypeOK
<1>7. dest = Home => server = Down /\ ~server.open
  BY <1>1 DEF BackupInv, ServerAtHome, At, Down
<1>8. dest # Home => At' = At
  BY <1>4, HomeKnown DEF At
<1>9. ServerAtHome'
  BY <1>2, <1>7, <1>8 DEF BackupInv, ServerAtHome
<1>10. PoolsAgree'
  <2>1. CASE dest = Home
    BY <1>2, <1>7, <2>1 DEF BackupInv, ServerAtHome, PoolsAgree
  <2>2. CASE dest # Home
    BY <1>2, <1>8, <2>2 DEF BackupInv, PoolsAgree, rows
  <2>. QED BY <2>1, <2>2
<1>11. DirsSound'
  <2>. SUFFICES ASSUME NEW n \in Names, dirs'[n] # Nothing PROVE Sound(dirs[n])'
    BY DEF DirsSound
  <2>1. CASE n = dest
    <3>1. Whole(made) /\ Vouched(made.man)
      BY <1>1, <1>3 DEF Whole, Vouched, Hashes
    <3>2. Sound(made)
      BY <1>3, <3>1 DEF Sound, Parts
    <3>. QED BY <1>2, <1>4, <2>1, <3>2 DEF Sound, Whole, Vouched
  <2>2. CASE n # dest
    BY <1>2, <1>4, <2>2 DEF BackupInv, DirsSound, Sound, Whole, Vouched
  <2>. QED BY <2>1, <2>2
<1>12. HomeCounted'
  <2>1. CASE dest = Home
    <3>1. At' = made
      BY <1>4, <2>1, HomeKnown DEF At
    <3>2. made.db # Nothing
      BY <1>1, <1>3, FilesAssumption DEF BackupInv, TypeOK, Files
    <3>. QED BY <1>1, <1>2, <1>3, <2>1, <3>1, <3>2 DEF HomeCounted
  <2>2. CASE dest # Home
    BY <1>2, <1>8, <2>2 DEF BackupInv, HomeCounted
  <2>. QED BY <2>1, <2>2
<1>13. JobsSound'
  <2>. SUFFICES ASSUME NEW i \in Jobs PROVE Progress(job[i])' /\ InPlace(job[i])'
    BY DEF JobsSound
  <2>1. CASE i = j
    <3>1. /\ job'[i].at = "published" /\ job'[i].source = job[j].source
          /\ job'[i].opened = job[j].opened /\ job'[i].dest = dest
          /\ job'[i].db = job[j].db /\ job'[i].key = job[j].key
      BY <1>1, <1>5, <2>1 DEF Commands
    <3>2. Progress(job[i])'
      BY <1>1, <1>2, <3>1 DEF Progress, Commands
    <3>3. InPlace(job[i])'
      <4>1. dirs'[job'[i].dest] = made
        BY <1>1, <1>4, <3>1
      <4>. QED BY <1>3, <3>1, <4>1 DEF InPlace
    <3>. QED BY <3>2, <3>3
  <2>2. CASE i # j
    <3>1. /\ job'[i] = job[i] /\ job[i] \in Commands
          /\ Progress(job[i]) /\ InPlace(job[i])
      BY <1>5, <2>2, StageFacts DEF BackupInv, JobsSound
    <3>2. InPlace(job[i])'
      <4>1. job[i].made => job[i].dest # dest /\ job[i].dest \in Names
        BY <1>1, <3>1 DEF InPlace, Commands
      <4>. QED BY <1>4, <3>1, <4>1 DEF InPlace
    <3>3. Progress(job[i])'
      <4>1. CASE dest = Home
        <5>1. ~HasDb /\ At'.id = files + 1
          BY <1>1, <1>3, <1>4, <4>1, HomeKnown DEF HasDb, At
        <5>. QED BY <1>1, <1>2, <3>1, <4>1, <5>1 DEF Progress, Commands
      <4>2. CASE dest # Home
        BY <1>2, <1>8, <3>1, <4>2 DEF Progress, HasDb
      <4>. QED BY <4>1, <4>2
    <3>. QED BY <3>2, <3>3
  <2>. QED BY <2>1, <2>2
<1>14. OneMaker'
  <2>1. \A i \in Jobs : job[i].made => job[i].dest # dest
    BY <1>1 DEF BackupInv, JobsSound, InPlace
  <2>2. \A i \in Jobs : job'[i].dest = job[i].dest /\ (i # j => job'[i].made = job[i].made)
    <3>1. ASSUME NEW i \in Jobs, i # j
          PROVE  job'[i] = job[i]
      BY <1>5, <3>1
    <3>2. job'[j].dest = job[j].dest
      <4>1. job[j] \in Commands /\ job'[j] = [job[j] EXCEPT !.at = "published", !.made = TRUE]
        BY <1>1, <1>5
      <4>. QED BY <4>1 DEF Commands
    <3>. QED BY <3>1, <3>2
  <2>. QED BY <2>1, <2>2 DEF BackupInv, OneMaker
<1>. QED BY <1>6, <1>9, <1>10, <1>11, <1>12, <1>13, <1>14 DEF BackupInv

\* Syncing the parent changes nothing but the anchor of what is there.
LEMMA SyncParentKeeps ==
  ASSUME BackupInv, NEW j \in Jobs, SyncParent(j)
  PROVE BackupInv'
<1>. DEFINE dest == job[j].dest
<1>1. job[j] \in Commands /\ dest \in Names /\ job[j].at = "published"
      /\ dirs \in [Names -> Directories \cup {Nothing}]
  BY StageFacts DEF SyncParent, Commands, BackupInv, TypeOK
<1>2. /\ dirs' = IF dirs[dest] = Nothing THEN dirs ELSE [dirs EXCEPT ![dest].anchored = TRUE]
      /\ job' = [job EXCEPT ![j].at = "done"]
      /\ UNCHANGED <<server, call, held, files, committed, troubles>>
  BY DEF SyncParent
<1>3. dirs' \in [Names -> Directories \cup {Nothing}]
  <2>1. dirs[dest] # Nothing => [dirs[dest] EXCEPT !.anchored = TRUE] \in Directories
    BY <1>1 DEF Directories
  <2>. QED BY <1>1, <1>2, <2>1
<1>4. \A n \in Names :
        /\ dirs[n] = Nothing => dirs'[n] = Nothing
        /\ dirs[n] # Nothing =>
             /\ dirs'[n] # Nothing
             /\ dirs'[n].key = dirs[n].key /\ dirs'[n].db = dirs[n].db
             /\ dirs'[n].man = dirs[n].man /\ dirs'[n].id = dirs[n].id
             /\ dirs'[n].safe = dirs[n].safe /\ dirs'[n].served = dirs[n].served
             /\ dirs'[n].worn = dirs[n].worn
             /\ dirs[n].anchored => dirs'[n].anchored
             /\ n = dest => dirs'[n].anchored
  <2>. TAKE n \in Names
  <2>1. CASE dirs[n] = Nothing
    BY <1>1, <1>2, <2>1
  <2>2. CASE dirs[n] # Nothing /\ n # dest
    BY <1>1, <1>2, <2>2
  <2>3. CASE dirs[n] # Nothing /\ n = dest
    <3>1. dirs'[n] = [dirs[n] EXCEPT !.anchored = TRUE] /\ dirs[n] \in Directories
      BY <1>1, <1>2, <2>3
    <3>2. dirs'[n] \in Directories
      BY <3>1 DEF Directories
    <3>. QED BY <2>3, <3>1, <3>2, FilesAssumption DEF Directories, Files
  <2>. QED BY <2>1, <2>2, <2>3
<1>5. \A i \in Jobs : job'[i] = IF i = j THEN [job[j] EXCEPT !.at = "done"] ELSE job[i]
  BY <1>2 DEF BackupInv, TypeOK
<1>6. TypeOK'
  <2>1. job' \in [Jobs -> Commands]
    BY <1>1, <1>2 DEF BackupInv, TypeOK, Commands, Ats
  <2>. QED BY <1>2, <1>3, <2>1 DEF BackupInv, TypeOK
<1>7. /\ At = Nothing <=> At' = Nothing
      /\ At # Nothing => At'.db = At.db /\ At'.id = At.id /\ At'.served = At.served
  BY <1>4, HomeKnown DEF At
<1>8. ServerAtHome' /\ HomeCounted'
  BY <1>2, <1>7 DEF BackupInv, ServerAtHome, HomeCounted, Down
<1>9. PoolsAgree'
  <2>1. CASE server.open
    <3>1. rows' = rows
      BY <1>7, <2>1 DEF BackupInv, ServerAtHome, Down, rows
    <3>. QED BY <1>2, <3>1 DEF BackupInv, PoolsAgree
  <2>2. CASE ~server.open
    BY <1>2, <2>2 DEF BackupInv, ServerAtHome, PoolsAgree
  <2>. QED BY <2>1, <2>2
<1>10. DirsSound'
  <2>. SUFFICES ASSUME NEW n \in Names, dirs'[n] # Nothing PROVE Sound(dirs[n])'
    BY DEF DirsSound
  <2>1. Sound(dirs[n]) /\ dirs[n] # Nothing
    BY <1>4 DEF BackupInv, DirsSound
  <2>2. Whole(dirs[n]) => Whole(dirs[n])'
    BY <1>2, <1>4, <2>1 DEF Whole
  <2>3. Vouched(dirs[n].man)'
    BY <1>2, <1>4, <2>1 DEF Sound, Vouched
  <2>. QED BY <1>4, <2>1, <2>2, <2>3 DEF Sound
<1>11. JobsSound'
  <2>. SUFFICES ASSUME NEW i \in Jobs PROVE Progress(job[i])' /\ InPlace(job[i])'
    BY DEF JobsSound
  <2>1. job[i] \in Commands /\ Progress(job[i]) /\ InPlace(job[i])
    BY StageFacts DEF BackupInv, JobsSound
  <2>2. /\ job'[i].source = job[i].source /\ job'[i].opened = job[i].opened
        /\ job'[i].db = job[i].db /\ job'[i].key = job[i].key
        /\ job'[i].dest = job[i].dest /\ job'[i].made = job[i].made
        /\ job'[i].at = IF i = j THEN "done" ELSE job[i].at
    BY <1>5, <2>1 DEF Commands
  <2>3. Progress(job[i])'
    BY <1>2, <1>7, <2>1, <2>2 DEF Progress, HasDb
  <2>4. InPlace(job[i])'
    <3>. SUFFICES ASSUME job[i].made PROVE InPlace(job[i])'
      BY <2>2 DEF InPlace
    <3>1. job[i].dest \in Names /\ dirs[job[i].dest] # Nothing
      BY <2>1 DEF InPlace, Commands
    <3>. QED BY <1>4, <2>1, <2>2, <3>1 DEF InPlace
  <2>. QED BY <2>3, <2>4
<1>12. OneMaker'
  <2>1. \A i \in Jobs : job'[i].dest = job[i].dest /\ job'[i].made = job[i].made
    BY <1>1, <1>5 DEF Commands
  <2>. QED BY <2>1 DEF BackupInv, OneMaker
<1>. QED BY <1>6, <1>8, <1>9, <1>10, <1>11, <1>12 DEF BackupInv

-----------------------------------------------------------------------------
(* The operator, the disk and the power.                                   *)

\* One directory is gone or spoiled, and nobody is answerable for it any more.
LEMMA TroubleKeeps ==
  ASSUME BackupInv, NEW n \in Names, NEW d \in Directories \cup {Nothing},
         Trouble, job' = Forget(n), dirs' = [dirs EXCEPT ![n] = d],
         UNCHANGED <<server, call, held, files, committed>>,
         d # Nothing => Sound(d),
         n = Home => \/ d = Nothing /\ server = Down
                     \/ d # Nothing /\ At # Nothing /\ d.db = At.db /\ d.id = At.id
                        /\ d.served = At.served
  PROVE BackupInv'
<1>1. /\ dirs \in [Names -> Directories \cup {Nothing}] /\ job \in [Jobs -> Commands]
      /\ troubles' = troubles + 1
  BY DEF BackupInv, TypeOK, Trouble
<1>2. \A m \in Names : dirs'[m] = IF m = n THEN d ELSE dirs[m]
  BY <1>1
<1>3. \A i \in Jobs :
        /\ job'[i] \in Commands
        /\ job'[i].at = job[i].at /\ job'[i].source = job[i].source
        /\ job'[i].opened = job[i].opened /\ job'[i].db = job[i].db
        /\ job'[i].key = job[i].key /\ job'[i].dest = job[i].dest
        /\ job'[i].made => job[i].made /\ job[i].dest # n
  <2>. TAKE i \in Jobs
  <2>1. CASE job[i].dest = n
    <3>1. job'[i] = [job[i] EXCEPT !.made = FALSE]
      BY <2>1 DEF Forget
    <3>. QED BY <1>1, <3>1 DEF Commands
  <2>2. CASE job[i].dest # n
    BY <1>1, <2>2 DEF Forget
  <2>. QED BY <2>1, <2>2
<1>4. TypeOK'
  <2>1. job' \in [Jobs -> Commands]
    BY <1>3 DEF Forget
  <2>. QED BY <1>1, <2>1 DEF BackupInv, TypeOK
<1>5. \/ At' = Nothing /\ server = Down
      \/ /\ At = Nothing <=> At' = Nothing
         /\ At # Nothing => At'.db = At.db /\ At'.id = At.id /\ At'.served = At.served
  BY <1>2, HomeKnown DEF At
<1>6. ServerAtHome' /\ HomeCounted'
  BY <1>5 DEF BackupInv, ServerAtHome, HomeCounted, Down
<1>7. PoolsAgree'
  <2>1. CASE server.open
    <3>1. rows' = rows
      BY <1>5, <2>1 DEF BackupInv, ServerAtHome, Down, rows
    <3>. QED BY <3>1 DEF BackupInv, PoolsAgree
  <2>2. CASE ~server.open
    BY <2>2 DEF BackupInv, ServerAtHome, PoolsAgree
  <2>. QED BY <2>1, <2>2
<1>8. DirsSound'
  <2>. SUFFICES ASSUME NEW m \in Names, dirs'[m] # Nothing PROVE Sound(dirs[m])'
    BY DEF DirsSound
  <2>1. Sound(dirs'[m])
    BY <1>2 DEF BackupInv, DirsSound
  <2>. QED BY <2>1 DEF Sound, Whole, Vouched
<1>9. JobsSound'
  <2>. SUFFICES ASSUME NEW i \in Jobs PROVE Progress(job[i])' /\ InPlace(job[i])'
    BY DEF JobsSound
  <2>1. job[i] \in Commands /\ Progress(job[i]) /\ InPlace(job[i])
    BY StageFacts DEF BackupInv, JobsSound
  <2>2. Progress(job[i])'
    BY <1>3, <1>5, <2>1 DEF Progress, HasDb
  <2>3. InPlace(job[i])'
    <3>1. job[i].dest # n => dirs'[job[i].dest] = dirs[job[i].dest]
      BY <1>2, <2>1 DEF Commands
    <3>. QED BY <1>3, <2>1, <3>1 DEF InPlace
  <2>. QED BY <2>2, <2>3
<1>10. OneMaker'
  BY <1>3 DEF BackupInv, OneMaker
<1>. QED BY <1>4, <1>6, <1>7, <1>8, <1>9, <1>10 DEF BackupInv

LEMMA RemoveKeeps ==
  ASSUME BackupInv, NEW n \in Names, Remove(n)
  PROVE BackupInv'
  BY TroubleKeeps DEF Remove

LEMMA LoseKeyKeeps ==
  ASSUME BackupInv, LoseKey
  PROVE BackupInv'
<1>. DEFINE d == [At EXCEPT !.key = Nothing, !.worn = TRUE]
<1>1. At \in Directories /\ Sound(At)
  BY StageFacts, HomeKnown DEF LoseKey, BackupInv, TypeOK, DirsSound, At
<1>2. /\ d \in Directories /\ d # Nothing /\ d.worn /\ d.db = At.db /\ d.id = At.id
      /\ d.served = At.served /\ d.safe = At.safe /\ d.man = At.man
  <2>1. d \in Directories
    BY <1>1 DEF Directories, Files
  <2>. QED BY <1>1, <2>1, FilesAssumption DEF Directories, Files
<1>3. Sound(d)
  BY <1>1, <1>2 DEF Sound
<1>4. dirs' = [dirs EXCEPT ![Home] = d]
  BY DEF LoseKey, At
<1>5. At # Nothing
  BY DEF LoseKey
<1>. HIDE DEF d
<1>. QED BY <1>2, <1>3, <1>4, <1>5, HomeKnown, TroubleKeeps DEF LoseKey

LEMMA WearKeeps ==
  ASSUME BackupInv, NEW n \in Outs, NEW part \in {"db", "key", "man"}, Wear(n, part)
  PROVE BackupInv'
<1>. DEFINE d == [dirs[n] EXCEPT ![part] = Broken, !.worn = TRUE]
<1>1. n \in Names /\ dirs[n] \in Directories /\ Sound(dirs[n])
  BY DEF Wear, BackupInv, TypeOK, DirsSound, Names
<1>2. /\ d \in Directories /\ d # Nothing /\ d.worn /\ d.served = dirs[n].served
      /\ d.safe = dirs[n].safe /\ d.man \in {dirs[n].man, Broken}
  <2>1. d \in Directories
    BY <1>1 DEF Directories, Files
  <2>2. d # Nothing
    BY <2>1, FilesAssumption DEF Files
  <2>. QED BY <1>1, <2>1, <2>2 DEF Directories
<1>3. Sound(d)
  BY <1>1, <1>2 DEF Sound, Vouched, Files
<1>4. dirs' = [dirs EXCEPT ![n] = d]
  BY DEF Wear
<1>. HIDE DEF d
<1>. QED BY <1>1, <1>2, <1>3, <1>4, HomeKnown, TroubleKeeps DEF Wear

\* What is left of a directory: the files of one that no server used are synced,
\* and so is every database.
LEMMA AfterSound ==
  ASSUME NEW d \in Directories, Sound(d), NEW lost \in SUBSET {"db", "key", "man"}
  PROVE /\ After(d, lost) \in Directories /\ Sound(After(d, lost)) /\ After(d, lost).anchored
        /\ After(d, lost).db = d.db /\ After(d, lost).id = d.id
        /\ After(d, lost).served = d.served
        /\ ~d.served => After(d, lost).key = d.key
<1>. DEFINE gone == IF "dir" \in d.safe THEN lost \ d.safe ELSE lost
            left(part) == IF part \in gone THEN Broken ELSE d[part]
            e == [d EXCEPT !.db = left("db"), !.key = left("key"), !.man = left("man"),
                           !.safe = Parts, !.anchored = TRUE]
<1>1. gone = lost \ d.safe /\ "db" \notin gone
  BY DEF Sound
<1>2. ~d.served => gone = {}
  BY <1>1 DEF Sound, Parts
<1>. HIDE DEF gone
<1>3. left("db") = d.db /\ left("key") \in {d.key, Broken} /\ left("man") \in {d.man, Broken}
      /\ (~d.served => left("key") = d.key /\ left("man") = d.man)
  BY <1>1, <1>2
<1>. HIDE DEF left
<1>4. /\ e \in Directories /\ e.db = d.db /\ e.key = left("key") /\ e.man = left("man")
      /\ e.safe = Parts /\ e.anchored /\ e.id = d.id /\ e.served = d.served /\ e.worn = d.worn
  BY <1>3 DEF Directories, Files
<1>5. Sound(e)
  <2>1. {"db", "dir"} \subseteq Parts
    BY DEF Parts
  <2>2. Vouched(e.man)
    BY <1>3, <1>4 DEF Sound, Vouched, Files
  <2>3. ~d.served /\ ~d.worn => Whole(e)
    BY <1>3, <1>4 DEF Sound, Whole
  <2>. QED BY <1>4, <2>1, <2>2, <2>3 DEF Sound
<1>6. After(d, lost) = e
  BY DEF After, gone, left
<1>. HIDE DEF e
<1>. QED BY <1>3, <1>4, <1>5, <1>6

LEMMA PowerFailsKeeps ==
  ASSUME BackupInv, PowerFails
  PROVE BackupInv'
<1>1. PICK missing \in SUBSET {n \in Names : dirs[n] # Nothing /\ ~dirs[n].anchored},
           lost \in SUBSET {"db", "key", "man"} :
             dirs' = [n \in Names |-> IF dirs[n] = Nothing \/ n \in missing THEN Nothing
                                      ELSE After(dirs[n], lost)]
  BY DEF PowerFails
<1>2. /\ server' = Down /\ call' = [c \in Callers |-> NoCall]
      /\ held' = [a \in Accounts |-> {}] /\ troubles' = troubles + 1
      /\ job' = [j \in Jobs |-> IF job[j].at = "done" THEN job[j] ELSE NoJob]
      /\ UNCHANGED <<files, committed>>
  BY DEF PowerFails, Trouble
<1>3. \A n \in Names :
        \/ dirs'[n] = Nothing /\ (dirs[n] = Nothing \/ ~dirs[n].anchored)
        \/ /\ dirs[n] # Nothing /\ dirs'[n] # Nothing /\ dirs'[n] \in Directories
           /\ Sound(dirs'[n]) /\ dirs'[n].anchored
           /\ dirs'[n].db = dirs[n].db /\ dirs'[n].id = dirs[n].id
           /\ dirs'[n].served = dirs[n].served
           /\ ~dirs[n].served => dirs'[n].key = dirs[n].key
  <2>. TAKE n \in Names
  <2>1. CASE dirs[n] = Nothing \/ n \in missing
    BY <1>1, <2>1
  <2>2. CASE ~(dirs[n] = Nothing \/ n \in missing)
    <3>1. dirs[n] \in Directories /\ Sound(dirs[n]) /\ dirs'[n] = After(dirs[n], lost)
      BY <1>1, <2>2 DEF BackupInv, TypeOK, DirsSound
    <3>2. dirs'[n] \in Directories /\ dirs'[n] # Nothing
      BY <3>1, AfterSound, FilesAssumption DEF Files
    <3>. QED BY <2>2, <3>1, <3>2, AfterSound
  <2>. QED BY <2>1, <2>2
<1>4. \A j \in Jobs : job[j] \in Commands /\ job'[j] = IF job[j].at = "done" THEN job[j] ELSE NoJob
  BY <1>2 DEF BackupInv, TypeOK
<1>5. NoJob \in Commands /\ ~NoJob.made /\ NoJob.at = "idle" /\ NoJob.source = 0 /\ NoJob.opened = 0
  BY HomeKnown DEF NoJob, Commands, Ats, Files
<1>6. TypeOK'
  <2>1. dirs' \in [Names -> Directories \cup {Nothing}]
    BY <1>1, <1>3
  <2>2. job' \in [Jobs -> Commands]
    BY <1>2, <1>4, <1>5
  <2>3. server' \in [key : Keys \cup {Nothing}, open : BOOLEAN] /\ call' \in [Callers -> Calls]
        /\ held' \in [Accounts -> SUBSET Pools]
    BY <1>2 DEF Down, Calls
  <2>. QED BY <1>2, <2>1, <2>2, <2>3 DEF BackupInv, TypeOK
<1>7. ServerAtHome' /\ PoolsAgree'
  BY <1>2 DEF ServerAtHome, PoolsAgree, Down
<1>8. HomeCounted'
  BY <1>2, <1>3, HomeKnown DEF BackupInv, HomeCounted, At
<1>9. DirsSound'
  <2>. SUFFICES ASSUME NEW n \in Names, dirs'[n] # Nothing PROVE Sound(dirs[n])'
    BY DEF DirsSound
  <2>1. Sound(dirs'[n])
    BY <1>3
  <2>. QED BY <1>2, <2>1 DEF Sound, Whole, Vouched
<1>10. JobsSound'
  <2>. SUFFICES ASSUME NEW j \in Jobs PROVE Progress(job[j])' /\ InPlace(job[j])'
    BY DEF JobsSound
  <2>1. CASE job[j].at = "done"
    <3>1. job'[j] = job[j] /\ Progress(job[j]) /\ InPlace(job[j]) /\ job[j].dest \in Names
      BY <1>4, <2>1 DEF BackupInv, JobsSound, Commands
    <3>2. Progress(job[j])'
      BY <1>2, <2>1, <3>1 DEF Progress
    <3>3. InPlace(job[j])'
      BY <1>3, <2>1, <3>1 DEF InPlace
    <3>. QED BY <3>2, <3>3
  <2>2. CASE job[j].at # "done"
    <3>1. job'[j] = NoJob /\ files' \in Nat
      BY <1>2, <1>4, <2>2 DEF BackupInv, TypeOK
    <3>. QED BY <1>5, <3>1 DEF Progress, InPlace
  <2>. QED BY <2>1, <2>2
<1>11. OneMaker'
  BY <1>4, <1>5 DEF BackupInv, OneMaker
<1>. QED BY <1>6, <1>7, <1>8, <1>9, <1>10, <1>11 DEF BackupInv

-----------------------------------------------------------------------------
(* The server.                                                             *)

\* What happens to Home under a server, or to no directory, leaves the commands
\* as they were: no directory is lost, and Home gets no number but a new one.
LEMMA ServerKeepsJobs ==
  ASSUME BackupInv, UNCHANGED <<job, troubles>>,
         NEW d \in Directories, dirs' = [dirs EXCEPT ![Home] = d],
         d.served, Sound(d), files' \in Nat, files <= files', committed \subseteq committed',
         d.db # Nothing => \/ At # Nothing /\ At.db # Nothing /\ d.id = At.id /\ files' = files
                           \/ d.id = files + 1 /\ files' = files + 1,
         At # Nothing => (At.anchored => d.anchored)
  PROVE DirsSound' /\ JobsSound' /\ OneMaker' /\ At' = d /\ d # Nothing
        /\ dirs' \in [Names -> Directories \cup {Nothing}]
<1>1. \A n \in Names : dirs'[n] = IF n = Home THEN d ELSE dirs[n]
  BY DEF BackupInv, TypeOK
<1>2. At' = d /\ d # Nothing /\ dirs' \in [Names -> Directories \cup {Nothing}]
  BY <1>1, HomeKnown, FilesAssumption DEF At, Files, BackupInv, TypeOK
<1>3. DirsSound'
  <2>. SUFFICES ASSUME NEW n \in Names, dirs'[n] # Nothing PROVE Sound(dirs[n])'
    BY DEF DirsSound
  <2>1. CASE n = Home
    BY <1>1, <2>1 DEF Sound, Whole, Vouched
  <2>2. CASE n # Home
    <3>1. dirs'[n] = dirs[n] /\ Sound(dirs[n])
      BY <1>1, <2>2 DEF BackupInv, DirsSound
    <3>. QED BY <3>1 DEF Sound, Whole, Vouched
  <2>. QED BY <2>1, <2>2
<1>4. JobsSound'
  <2>. SUFFICES ASSUME NEW j \in Jobs PROVE Progress(job[j])' /\ InPlace(job[j])'
    BY DEF JobsSound
  <2>1. job'[j] = job[j] /\ job[j] \in Commands /\ Progress(job[j]) /\ InPlace(job[j])
    BY StageFacts DEF BackupInv, JobsSound
  <2>2. Progress(job[j])'
    <3>1. job[j].source \in Nat /\ job[j].opened \in Nat /\ files \in Nat
          /\ (HasDb => At.id \in Nat) /\ d.id \in Nat
      BY <2>1, StageFacts DEF Commands, HasDb, Directories
    <3>2. HasDb' => d.db # Nothing /\ At'.id = d.id
      BY <1>2 DEF HasDb
    <3>. QED BY <1>2, <2>1, <3>1, <3>2 DEF Progress, HasDb
  <2>3. InPlace(job[j])'
    <3>1. CASE job[j].dest = Home
      BY <1>1, <2>1, <3>1, HomeKnown, <1>2 DEF InPlace, At
    <3>2. CASE job[j].dest # Home
      <4>1. dirs'[job[j].dest] = dirs[job[j].dest]
        BY <1>1, <2>1, <3>2 DEF Commands
      <4>. QED BY <2>1, <4>1 DEF InPlace
    <3>. QED BY <3>1, <3>2
  <2>. QED BY <2>2, <2>3
<1>5. OneMaker'
  BY DEF BackupInv, OneMaker
<1>. QED BY <1>2, <1>3, <1>4, <1>5

LEMMA StartKeyKeeps ==
  ASSUME BackupInv, StartKey, UNCHANGED <<job, troubles>>
  PROVE BackupInv'
<1>1. PICK k \in Keys, d \in Directories :
        /\ server' = [key |-> k, open |-> FALSE] /\ dirs' = [dirs EXCEPT ![Home] = d]
        /\ d.served /\ Sound(d)
        /\ \/ At = Nothing /\ d.db = Nothing /\ d.id = 0
           \/ At # Nothing /\ d.db = At.db /\ d.id = At.id /\ d.anchored = At.anchored
  <2>1. CASE At = Nothing
    <3>1. PICK k \in Keys : server' = [key |-> k, open |-> FALSE]
                            /\ dirs' = [dirs EXCEPT ![Home] = NewHome(k)]
      BY <2>1 DEF StartKey
    <3>2. NewHome(k) \in Directories /\ Sound(NewHome(k))
      BY DEF NewHome, Directories, Files, Parts, Sound, Vouched
    <3>. QED BY <2>1, <3>1, <3>2 DEF NewHome
  <2>2. CASE At # Nothing
    <3>1. At \in Directories /\ Sound(At) /\ dirs[Home] = At
      BY <2>2, StageFacts, HomeKnown DEF At, BackupInv, TypeOK, DirsSound
    <3>2. CASE At.key = Nothing
      <4>1. PICK k \in Keys :
              /\ server' = [key |-> k, open |-> FALSE]
              /\ dirs' = [dirs EXCEPT ![Home].key = k, ![Home].safe = @ \ {"key"},
                                      ![Home].served = TRUE]
        BY <2>2, <3>2, FilesAssumption DEF StartKey, Files
      <4>. DEFINE d == [At EXCEPT !.key = k, !.safe = At.safe \ {"key"}, !.served = TRUE]
      <4>2. d \in Directories /\ d.served /\ d.db = At.db /\ d.id = At.id
            /\ d.anchored = At.anchored /\ d.safe = At.safe \ {"key"} /\ d.man = At.man
        BY <3>1 DEF Directories
      <4>3. Sound(d)
        BY <3>1, <4>2 DEF Sound
      <4>4. dirs' = [dirs EXCEPT ![Home] = d]
        BY <3>1, <4>1, HomeKnown DEF BackupInv, TypeOK
      <4>. QED BY <2>2, <4>1, <4>2, <4>3, <4>4
    <3>3. CASE At.key # Nothing
      <4>1. /\ At.key \in Keys /\ server' = [key |-> At.key, open |-> FALSE]
            /\ dirs' = [dirs EXCEPT ![Home].served = TRUE]
        BY <2>2, <3>3 DEF StartKey
      <4>. DEFINE d == [At EXCEPT !.served = TRUE]
      <4>2. d \in Directories /\ d.served /\ d.db = At.db /\ d.id = At.id
            /\ d.anchored = At.anchored /\ d.safe = At.safe /\ d.man = At.man
        BY <3>1 DEF Directories
      <4>3. Sound(d)
        BY <3>1, <4>2 DEF Sound
      <4>4. dirs' = [dirs EXCEPT ![Home] = d]
        BY <3>1, <4>1, HomeKnown DEF BackupInv, TypeOK
      <4>. QED BY <2>2, <4>1, <4>2, <4>3, <4>4
    <3>. QED BY <3>2, <3>3
  <2>. QED BY <2>1, <2>2
<1>2. server = Down /\ ~server.open /\ UNCHANGED <<call, held, files, committed>>
  BY DEF StartKey, Down
<1>3. files \in Nat
  BY DEF BackupInv, TypeOK
<1>4. DirsSound' /\ JobsSound' /\ OneMaker' /\ At' = d /\ d # Nothing
      /\ dirs' \in [Names -> Directories \cup {Nothing}]
  <2>1. files' \in Nat /\ files <= files' /\ committed \subseteq committed'
    BY <1>2, <1>3
  <2>2. d.db # Nothing => At # Nothing /\ At.db # Nothing /\ d.id = At.id /\ files' = files
    BY <1>1, <1>2
  <2>3. At # Nothing => (At.anchored => d.anchored)
    BY <1>1
  <2>. QED BY <1>1, <2>1, <2>2, <2>3, ServerKeepsJobs
<1>5. TypeOK'
  <2>1. server' \in [key : Keys \cup {Nothing}, open : BOOLEAN]
    BY <1>1
  <2>. QED BY <1>2, <1>4, <2>1 DEF BackupInv, TypeOK
<1>6. ServerAtHome' /\ PoolsAgree'
  <2>1. ~server'.open /\ (\A c \in Callers : call'[c] = NoCall) /\ (\A a \in Accounts : held'[a] = {})
    BY <1>1, <1>2 DEF BackupInv, ServerAtHome
  <2>. QED BY <1>1, <1>4, <2>1 DEF ServerAtHome, PoolsAgree
<1>7. HomeCounted'
  BY <1>1, <1>2, <1>4 DEF BackupInv, HomeCounted
<1>. QED BY <1>4, <1>5, <1>6, <1>7 DEF BackupInv

\* A statement, or the creation of the database, gives Home a new state.
LEMMA HomeDbKeeps ==
  ASSUME BackupInv, UNCHANGED <<job, troubles>>, At # Nothing, At.served,
         NEW new \in States, NEW id \in Nat,
         dirs' = [dirs EXCEPT ![Home] = [At EXCEPT !.db = new, !.id = id]],
         committed' = committed \cup {new},
         \/ At.db # Nothing /\ id = At.id /\ files' = files
         \/ id = files + 1 /\ files' = files + 1
  PROVE /\ DirsSound' /\ JobsSound' /\ OneMaker' /\ HomeCounted'
        /\ At' # Nothing /\ At'.served /\ At'.db = new /\ rows' = new
        /\ dirs' \in [Names -> Directories \cup {Nothing}]
        /\ files' \in Nat /\ committed' \subseteq States
<1>. DEFINE d == [At EXCEPT !.db = new, !.id = id]
<1>1. At \in Directories /\ Sound(At) /\ files \in Nat
  BY StageFacts, HomeKnown DEF At, BackupInv, TypeOK, DirsSound
<1>2. d \in Directories /\ d.served /\ d.db = new /\ d.id = id
      /\ d.anchored = At.anchored /\ d.safe = At.safe /\ d.man = At.man
  BY <1>1 DEF Directories
<1>. HIDE DEF d
<1>3. Sound(d)
  BY <1>1, <1>2 DEF Sound
<1>4. dirs' = [dirs EXCEPT ![Home] = d]
  BY DEF d
<1>5. DirsSound' /\ JobsSound' /\ OneMaker' /\ At' = d /\ d # Nothing
      /\ dirs' \in [Names -> Directories \cup {Nothing}]
  <2>1. files' \in Nat /\ files <= files' /\ committed \subseteq committed'
    BY <1>1
  <2>2. \/ At # Nothing /\ At.db # Nothing /\ d.id = At.id /\ files' = files
        \/ d.id = files + 1 /\ files' = files + 1
    BY <1>2
  <2>. QED BY <1>2, <1>3, <1>4, <2>1, <2>2, ServerKeepsJobs
<1>6. new # Nothing
  BY FilesAssumption DEF Files
<1>7. id \in 1 .. files'
  BY <1>1 DEF BackupInv, HomeCounted
<1>. QED BY <1>1, <1>2, <1>5, <1>6, <1>7 DEF HomeCounted, rows, BackupInv, TypeOK

LEMMA StartDbKeeps ==
  ASSUME BackupInv, StartDb, UNCHANGED <<job, troubles>>
  PROVE BackupInv'
<1>1. /\ server.key \in Keys /\ ~server.open /\ At # Nothing /\ At.served
      /\ server' = [server EXCEPT !.open = TRUE] /\ UNCHANGED <<call, held>>
  BY DEF StartDb, BackupInv, TypeOK, ServerAtHome, Down
<1>2. /\ server' \in [key : Keys \cup {Nothing}, open : BOOLEAN]
      /\ server'.key \in Keys /\ server'.open
  BY <1>1 DEF BackupInv, TypeOK
<1>3. (\A c \in Callers : call'[c] = NoCall) /\ (\A a \in Accounts : held'[a] = {})
  BY <1>1 DEF BackupInv, ServerAtHome
<1>4. At \in Directories /\ dirs[Home] = At /\ files \in Nat
  BY <1>1, HomeKnown DEF At, BackupInv, TypeOK
<1>5. /\ DirsSound' /\ JobsSound' /\ OneMaker' /\ HomeCounted'
      /\ At' # Nothing /\ At'.served /\ At'.db \in States
      /\ dirs' \in [Names -> Directories \cup {Nothing}]
      /\ files' \in Nat /\ committed' \subseteq States
  <2>1. CASE At.db = Nothing
    <3>1. /\ files' = files + 1 /\ committed' = committed \cup {NoRows}
          /\ dirs' = [dirs EXCEPT ![Home].db = NoRows, ![Home].id = files + 1]
      BY <2>1 DEF StartDb
    <3>2. dirs' = [dirs EXCEPT ![Home] = [At EXCEPT !.db = NoRows, !.id = files + 1]]
      BY <1>4, <3>1, HomeKnown DEF BackupInv, TypeOK
    <3>3. NoRows \in States /\ files + 1 \in Nat
      BY <1>4 DEF NoRows, States
    <3>. HIDE DEF NoRows
    <3>. QED BY <1>1, <3>1, <3>2, <3>3, HomeDbKeeps
  <2>2. CASE At.db # Nothing
    <3>1. At.db \notin Files /\ UNCHANGED <<dirs, files, committed>>
      BY <2>2 DEF StartDb, Files
    <3>2. At.db \in States /\ At' = At
      BY <1>4, <3>1 DEF Directories, At
    <3>3. DirsSound'
      BY <3>1 DEF BackupInv, DirsSound, Sound, Whole, Vouched
    <3>4. JobsSound'
      BY <3>1, <3>2 DEF BackupInv, JobsSound, Progress, InPlace, HasDb
    <3>5. OneMaker' /\ HomeCounted'
      BY <3>1, <3>2 DEF BackupInv, OneMaker, HomeCounted
    <3>. QED BY <1>1, <1>4, <3>1, <3>2, <3>3, <3>4, <3>5 DEF BackupInv, TypeOK
  <2>. QED BY <2>1, <2>2
<1>6. TypeOK'
  BY <1>1, <1>2, <1>5 DEF BackupInv, TypeOK
<1>7. ServerAtHome' /\ PoolsAgree'
  BY <1>2, <1>3, <1>5 DEF ServerAtHome, PoolsAgree
<1>. QED BY <1>5, <1>6, <1>7 DEF BackupInv

\* Steps that touch nothing but what the process keeps in memory.
LEMMA MemoryKeeps ==
  ASSUME BackupInv, UNCHANGED <<dirs, files, committed, job, troubles>>,
         server' \in [key : Keys \cup {Nothing}, open : BOOLEAN],
         call' \in [Callers -> Calls], held' \in [Accounts -> SUBSET Pools],
         ServerAtHome', PoolsAgree'
  PROVE BackupInv'
<1>1. At' = At
  BY DEF At
<1>2. TypeOK' /\ HomeCounted' /\ OneMaker'
  BY <1>1 DEF BackupInv, TypeOK, HomeCounted, OneMaker
<1>3. DirsSound'
  BY DEF BackupInv, DirsSound, Sound, Whole, Vouched
<1>4. JobsSound'
  BY <1>1 DEF BackupInv, JobsSound, Progress, InPlace, HasDb
<1>. QED BY <1>2, <1>3, <1>4 DEF BackupInv

LEMMA StopKeeps ==
  ASSUME BackupInv, Stop, UNCHANGED <<job, troubles>>
  PROVE BackupInv'
<1>1. /\ server' = Down /\ call' = [c \in Callers |-> NoCall]
      /\ held' = [a \in Accounts |-> {}] /\ UNCHANGED <<dirs, files, committed>>
  BY DEF Stop
<1>2. /\ server' \in [key : Keys \cup {Nothing}, open : BOOLEAN]
      /\ call' \in [Callers -> Calls] /\ held' \in [Accounts -> SUBSET Pools]
  BY <1>1 DEF Down, Calls
<1>3. ServerAtHome' /\ PoolsAgree'
  BY <1>1 DEF ServerAtHome, PoolsAgree, Down
<1>. QED BY <1>1, <1>2, <1>3, MemoryKeeps

\* What a goroutine has in hand while the server is open.
LEMMA CallFacts ==
  ASSUME BackupInv, NEW c \in Callers, call[c] # NoCall
  PROVE /\ server.open /\ server # Down /\ At # Nothing /\ At.served /\ server.key \in Keys
        /\ rows \in States /\ call[c].account \in Accounts /\ call[c].step \in {"reread", "load"}
        /\ call[c].pool \in Pools \cup {Nothing}
        /\ rows[call[c].account] \in Rows
        /\ call[c].pool # Nothing => rows[call[c].account].pool = call[c].pool
<1>1. server.open
  BY DEF BackupInv, ServerAtHome
<1>2. server # Down
  BY <1>1 DEF Down
<1>3. At # Nothing /\ At.served /\ server.key \in Keys /\ rows \in States
  BY <1>1, <1>2 DEF BackupInv, ServerAtHome, rows
<1>4. call[c].account \in Accounts /\ call[c].step \in {"reread", "load"}
      /\ call[c].pool \in Pools \cup {Nothing}
  BY DEF BackupInv, TypeOK, Calls
<1>. QED BY <1>1, <1>2, <1>3, <1>4 DEF BackupInv, PoolsAgree, States

LEMMA LookupKeeps ==
  ASSUME BackupInv, NEW c \in Callers, NEW a \in Accounts, Lookup(c, a), UNCHANGED <<job, troubles>>
  PROVE BackupInv'
<1>. DEFINE new == [step |-> IF rows[a].pool # Nothing THEN "load" ELSE "reread",
                    account |-> a, pool |-> rows[a].pool]
<1>1. /\ server.open /\ rows[a] # Nothing /\ call' = [call EXCEPT ![c] = new]
      /\ UNCHANGED <<dirs, server, held, files, committed>>
  BY DEF Lookup, Running
<1>2. rows \in States /\ rows' = rows /\ At' = At
  BY <1>1 DEF BackupInv, ServerAtHome, rows, At
<1>3. rows[a] \in Rows
  BY <1>1, <1>2 DEF States
<1>4. new \in Calls /\ new.account = a /\ new.pool = rows[a].pool
  BY <1>3 DEF Calls, Rows
<1>. HIDE DEF new
<1>5. \A e \in Callers : call'[e] = IF e = c THEN new ELSE call[e]
  BY <1>1 DEF BackupInv, TypeOK
<1>6. ServerAtHome'
  BY <1>1, <1>2 DEF BackupInv, ServerAtHome
<1>7. PoolsAgree'
  <2>1. ASSUME NEW e \in Callers, call'[e] # NoCall
        PROVE rows[call'[e].account] # Nothing
              /\ (call'[e].pool # Nothing => rows[call'[e].account].pool = call'[e].pool)
    BY <1>1, <1>4, <1>5, <2>1 DEF BackupInv, PoolsAgree
  <2>. QED BY <1>1, <1>2, <2>1 DEF BackupInv, PoolsAgree
<1>8. call' \in [Callers -> Calls]
  BY <1>1, <1>4 DEF BackupInv, TypeOK
<1>. QED BY <1>1, <1>6, <1>7, <1>8, MemoryKeeps DEF BackupInv, TypeOK

LEMMA RereadKeeps ==
  ASSUME BackupInv, NEW c \in Callers, Reread(c), UNCHANGED <<job, troubles>>
  PROVE BackupInv'
<1>. DEFINE new == [call[c] EXCEPT !.step = "load", !.pool = rows[call[c].account].pool]
<1>1. call[c].step = "reread" /\ call[c] # NoCall
      /\ UNCHANGED <<dirs, server, held, files, committed>>
  BY DEF Reread, NoCall
<1>2. call' = [call EXCEPT ![c] = new]
  BY DEF Reread, BackupInv, TypeOK
<1>3. rows' = rows /\ At' = At
  BY <1>1 DEF rows, At
<1>4. new \in Calls /\ new.account = call[c].account /\ new.pool = rows[call[c].account].pool
  <2>1. rows[call[c].account].pool \in Pools \cup {Nothing}
    BY <1>1, CallFacts DEF Rows
  <2>2. call[c] \in [step : {"reread", "load"}, account : Accounts, pool : Pools \cup {Nothing}]
    BY <1>1 DEF BackupInv, TypeOK, Calls
  <2>. QED BY <2>1, <2>2 DEF Calls
<1>. HIDE DEF new
<1>5. \A e \in Callers : call'[e] = IF e = c THEN new ELSE call[e]
  BY <1>2 DEF BackupInv, TypeOK
<1>6. ServerAtHome'
  BY <1>1, <1>3, CallFacts DEF BackupInv, ServerAtHome
<1>7. PoolsAgree'
  <2>1. ASSUME NEW e \in Callers, call'[e] # NoCall
        PROVE rows[call'[e].account] # Nothing
              /\ (call'[e].pool # Nothing => rows[call'[e].account].pool = call'[e].pool)
    BY <1>1, <1>4, <1>5, <2>1 DEF BackupInv, PoolsAgree
  <2>. QED BY <1>1, <1>3, <2>1 DEF BackupInv, PoolsAgree
<1>8. call' \in [Callers -> Calls]
  BY <1>2, <1>4 DEF BackupInv, TypeOK
<1>. QED BY <1>1, <1>6, <1>7, <1>8, MemoryKeeps DEF BackupInv, TypeOK

LEMMA LoadKeeps ==
  ASSUME BackupInv, NEW c \in Callers, Load(c) \/ FailCall(c), UNCHANGED <<job, troubles>>
  PROVE BackupInv'
<1>1. call[c] # NoCall /\ call' = [call EXCEPT ![c] = NoCall]
      /\ UNCHANGED <<dirs, server, files, committed>>
  BY DEF Load, FailCall, NoCall
<1>2. rows' = rows /\ At' = At
  BY <1>1 DEF rows, At
<1>3. \A e \in Callers : call'[e] = IF e = c THEN NoCall ELSE call[e]
  BY <1>1 DEF BackupInv, TypeOK
<1>4. held' \in [Accounts -> SUBSET Pools]
      /\ \A a \in Accounts : held'[a] # {} =>
           rows[a] # Nothing /\ rows[a].pool # Nothing /\ held'[a] = {rows[a].pool}
  <2>1. CASE Load(c)
    <3>. DEFINE b == call[c].account  p == call[c].pool
    <3>1. p # Nothing /\ held' = [held EXCEPT ![b] = @ \cup {p}]
      BY <2>1 DEF Load
    <3>2. b \in Accounts /\ p \in Pools /\ rows[b].pool = p /\ rows[b] # Nothing
      BY <1>1, <3>1, CallFacts DEF BackupInv, PoolsAgree
    <3>. QED BY <3>1, <3>2 DEF BackupInv, TypeOK, PoolsAgree
  <2>2. CASE FailCall(c)
    BY <2>2 DEF FailCall, BackupInv, TypeOK, PoolsAgree
  <2>. QED BY <2>1, <2>2
<1>5. ServerAtHome'
  BY <1>1, <1>2, CallFacts DEF BackupInv, ServerAtHome
<1>6. PoolsAgree'
  BY <1>2, <1>3, <1>4 DEF BackupInv, PoolsAgree
<1>7. call' \in [Callers -> Calls]
  BY <1>1 DEF BackupInv, TypeOK, Calls
<1>. QED BY <1>1, <1>4, <1>5, <1>6, <1>7, MemoryKeeps DEF BackupInv, TypeOK

\* What a statement on the accounts leaves to be shown.
LEMMA CommitKeeps ==
  ASSUME BackupInv, server.open, NEW new \in States, Commit(new),
         UNCHANGED <<server, files, job, troubles>>,
         call' \in [Callers -> Calls], held' \in [Accounts -> SUBSET Pools],
         rows' = new => PoolsAgree'
  PROVE BackupInv'
<1>1. At # Nothing /\ At.served /\ At.db \in States /\ server.key \in Keys
  BY DEF BackupInv, ServerAtHome, Down
<1>2. At \in Directories /\ dirs[Home] = At /\ At.db # Nothing
  BY <1>1, HomeKnown, FilesAssumption DEF At, BackupInv, TypeOK, Files
<1>3. dirs' = [dirs EXCEPT ![Home] = [At EXCEPT !.db = new, !.id = At.id]]
  <2>1. [At EXCEPT !.db = new] = [At EXCEPT !.db = new, !.id = At.id]
    BY <1>2 DEF Directories
  <2>. QED BY <1>2, <2>1, HomeKnown DEF Commit, BackupInv, TypeOK
<1>4. At.id \in Nat /\ committed' = committed \cup {new}
  BY <1>2 DEF Directories, Commit
<1>5. /\ DirsSound' /\ JobsSound' /\ OneMaker' /\ HomeCounted'
      /\ At' # Nothing /\ At'.served /\ At'.db = new /\ rows' = new
      /\ dirs' \in [Names -> Directories \cup {Nothing}]
      /\ files' \in Nat /\ committed' \subseteq States
  BY <1>1, <1>2, <1>3, <1>4, HomeDbKeeps
<1>6. TypeOK'
  BY <1>5 DEF BackupInv, TypeOK
<1>7. ServerAtHome'
  BY <1>1, <1>5 DEF ServerAtHome
<1>. QED BY <1>5, <1>6, <1>7 DEF BackupInv

\* A new row is nobody's yet.
LEMMA RegisterKeeps ==
  ASSUME BackupInv, NEW a \in Accounts, Register(a), UNCHANGED <<job, troubles>>
  PROVE BackupInv'
<1>. DEFINE new == [rows EXCEPT ![a] = Row(server.key)]
<1>1. server.open /\ rows[a] = Nothing /\ Commit(new) /\ UNCHANGED <<server, call, held, files>>
  BY DEF Register, Running
<1>2. rows \in States /\ server.key \in Keys
  BY <1>1 DEF BackupInv, ServerAtHome, rows
<1>3. Row(server.key) \in Rows
  BY <1>2 DEF Row, Rows
<1>4. new \in States /\ \A b \in Accounts : b # a => new[b] = rows[b]
  BY <1>2, <1>3 DEF States
<1>. HIDE DEF new
<1>5. /\ call' \in [Callers -> Calls] /\ held' \in [Accounts -> SUBSET Pools]
      /\ call' = call /\ held' = held
  BY <1>1 DEF BackupInv, TypeOK
<1>6. held[a] = {} /\ \A c \in Callers : call[c] # NoCall =>
                        call[c].account # a /\ call[c].account \in Accounts
  BY <1>1, CallFacts DEF BackupInv, PoolsAgree
<1>7. rows' = new => PoolsAgree'
  BY <1>4, <1>5, <1>6 DEF BackupInv, PoolsAgree
<1>. QED BY <1>1, <1>4, <1>5, <1>7, CommitKeeps

\* A pool is stored where there was none, and only then: whoever had read one, or
\* had been given one, still has the one in the row.
LEMMA InitializeKeeps ==
  ASSUME BackupInv, NEW c \in Callers, Initialize(c), UNCHANGED <<job, troubles>>
  PROVE BackupInv'
<1>. DEFINE a == call[c].account
<1>1. call[c] # NoCall /\ call' = [call EXCEPT ![c] = NoCall] /\ UNCHANGED <<server, files>>
  BY DEF Initialize, NoCall
<1>2. server.open /\ a \in Accounts /\ rows \in States /\ rows[a] \in Rows
  BY <1>1, CallFacts
<1>3. PICK p \in Pools : /\ Commit([rows EXCEPT ![a].pool = Winner(a, p)])
                         /\ held' = [held EXCEPT ![a] = @ \cup {Winner(a, p)}]
  BY DEF Initialize
<1>4. PICK w \in Pools : w = Winner(a, p) /\ (rows[a].pool # Nothing => w = rows[a].pool)
  BY <1>2 DEF Winner, Rows
<1>. DEFINE row == [rows[a] EXCEPT !.pool = w]
            new == [rows EXCEPT ![a] = row]
<1>5. row \in Rows /\ row.pool = w /\ row # Nothing /\ w # Nothing
  <2>1. row \in Rows
    BY <1>2 DEF Rows
  <2>. QED BY <1>2, <2>1, FilesAssumption DEF Rows, Files
<1>6. Commit(new)
  BY <1>2, <1>3, <1>4 DEF States
<1>. HIDE DEF row
<1>7. new \in States /\ new[a] = row /\ \A b \in Accounts : b # a => new[b] = rows[b]
  BY <1>2, <1>5 DEF States
<1>. HIDE DEF new
<1>8. \A e \in Callers : call'[e] = IF e = c THEN NoCall ELSE call[e]
  BY <1>1 DEF BackupInv, TypeOK
<1>9. \A b \in Accounts : held'[b] = IF b = a THEN held[a] \cup {w} ELSE held[b]
  BY <1>2, <1>3, <1>4 DEF BackupInv, TypeOK
<1>10. /\ call' \in [Callers -> Calls] /\ held' \in [Accounts -> SUBSET Pools]
  BY <1>1, <1>2, <1>3, <1>4 DEF BackupInv, TypeOK, Calls
<1>11. rows' = new => PoolsAgree'
  <2>. SUFFICES ASSUME rows' = new PROVE PoolsAgree'
    OBVIOUS
  <2>1. ASSUME NEW e \in Callers, call'[e] # NoCall
        PROVE new[call'[e].account] # Nothing
              /\ (call'[e].pool # Nothing => new[call'[e].account].pool = call'[e].pool)
    <3>1. call'[e] = call[e] /\ call[e] # NoCall
      BY <1>8, <2>1
    <3>2. call[e].account \in Accounts /\ rows[call[e].account] # Nothing
          /\ (call[e].pool # Nothing => rows[call[e].account].pool = call[e].pool)
      BY <3>1, CallFacts DEF BackupInv, PoolsAgree
    <3>. QED BY <1>4, <1>5, <1>7, <3>1, <3>2
  <2>2. ASSUME NEW b \in Accounts, held'[b] # {}
        PROVE new[b] # Nothing /\ new[b].pool # Nothing /\ held'[b] = {new[b].pool}
    <3>1. CASE b = a
      <4>1. held[a] # {} => held[a] = {rows[a].pool} /\ rows[a].pool # Nothing
        BY <1>2 DEF BackupInv, PoolsAgree
      <4>. QED BY <1>4, <1>5, <1>7, <1>9, <3>1, <4>1
    <3>2. CASE b # a
      BY <1>7, <1>9, <2>2, <3>2 DEF BackupInv, PoolsAgree
    <3>. QED BY <3>1, <3>2
  <2>. QED BY <2>1, <2>2 DEF PoolsAgree
<1>. QED BY <1>1, <1>2, <1>6, <1>7, <1>10, <1>11, CommitKeeps

-----------------------------------------------------------------------------
(* The theorems.                                                           *)

LEMMA InitSound == ASSUME Init PROVE BackupInv
<1>1. /\ dirs = [n \in Names |-> Nothing] /\ server = Down /\ call = [c \in Callers |-> NoCall]
      /\ held = [a \in Accounts |-> {}] /\ files = 0 /\ committed = {}
      /\ job = [j \in Jobs |-> NoJob] /\ troubles = 0
  BY DEF Init, IdentityInit
<1>2. NoJob \in Commands /\ ~NoJob.made /\ NoJob.at = "idle" /\ NoJob.source = 0 /\ NoJob.opened = 0
  BY HomeKnown DEF NoJob, Commands, Ats, Files
<1>3. TypeOK
  BY <1>1, <1>2 DEF TypeOK, Down, Calls
<1>4. ServerAtHome /\ PoolsAgree /\ DirsSound /\ HomeCounted
  BY <1>1, HomeKnown DEF ServerAtHome, PoolsAgree, DirsSound, HomeCounted, Down, At
<1>5. \A j \in Jobs : job[j] = NoJob
  BY <1>1
<1>6. JobsSound /\ OneMaker
  BY <1>1, <1>2, <1>5 DEF JobsSound, OneMaker, Progress, InPlace
<1>. QED BY <1>3, <1>4, <1>6 DEF BackupInv

LEMMA NextKeeps == ASSUME BackupInv, [Next]_vars PROVE BackupInv'
<1>1. CASE UNCHANGED vars
  <2>1. ServerAtHome' /\ PoolsAgree' /\ At' = At
    BY <1>1 DEF vars, BackupInv, ServerAtHome, PoolsAgree, At, rows
  <2>. QED BY <1>1, <2>1, MemoryKeeps DEF vars, BackupInv, TypeOK
<1>2. CASE IdentityNext /\ UNCHANGED <<job, troubles>>
  BY <1>2, StartKeyKeeps, StartDbKeeps, StopKeeps, RegisterKeeps, LookupKeeps, RereadKeeps,
     LoadKeeps, InitializeKeeps DEF IdentityNext
<1>3. ASSUME NEW j \in Jobs, NEW n \in Outs, BeginBackup(j, n)
      PROVE BackupInv'
  BY <1>3, BeginKeeps DEF Names
<1>4. ASSUME NEW j \in Jobs, NEW from \in Outs, NEW dest \in Names, BeginRestore(j, from, dest)
      PROVE BackupInv'
  BY <1>4, BeginKeeps
<1>5. ASSUME NEW j \in Jobs,
             \/ ReadKey(j) \/ FindDb(j) \/ OpenDb(j) \/ Vacuum(j) \/ SameDb(j) \/ SealBackup(j)
             \/ CopyDb(j) \/ CopyKey(j) \/ FinishRestore(j)
             \/ Publish(j) \/ SyncParent(j) \/ EndJob(j)
      PROVE BackupInv'
  BY <1>5, ReadKeyKeeps, FindDbKeeps, OpenDbKeeps, VacuumKeeps, SameDbKeeps, SealBackupKeeps,
     CopyKeeps, FinishRestoreKeeps, PublishKeeps, SyncParentKeeps, EndKeeps
<1>6. ASSUME NEW n \in Names, Remove(n)
      PROVE BackupInv'
  BY <1>6, RemoveKeeps
<1>7. ASSUME NEW n \in Outs, NEW part \in {"db", "key", "man"}, Wear(n, part)
      PROVE BackupInv'
  BY <1>7, WearKeeps
<1>8. CASE LoseKey
  BY <1>8, LoseKeyKeeps
<1>9. CASE PowerFails
  BY <1>9, PowerFailsKeeps
<1>. QED BY <1>1, <1>2, <1>3, <1>4, <1>5, <1>6, <1>7, <1>8, <1>9 DEF Next

\* What every reachable state of commands, server, directories and goroutines has
\* in common: backup.go and auth.go, whatever order their steps are taken in.
THEOREM BackupInvariant == Spec => []BackupInv
<1>1. Init => BackupInv
  BY InitSound
<1>2. BackupInv /\ [Next]_vars => BackupInv'
  BY NextKeeps
<1>. QED BY <1>1, <1>2, PTL DEF Spec

\* Whatever has the name of a backup or of a restored data directory is one
\* committed state with the key that opens it (Backup, Restore, publishBundle).
THEOREM BundlesWhole == Spec => []BundleWhole
<1>1. BackupInv => BundleWhole
  BY DEF BackupInv, DirsSound, Sound, BundleWhole
<1>. QED BY <1>1, BackupInvariant, PTL

\* What a command reported to be in place stays until the operator removes it, and
\* a server never loses its directory to a command (renameExclusive, syncPath).
THEOREM BundlesKept == Spec => []KeptInPlace
<1>1. BackupInv => KeptInPlace
  BY DEF BackupInv, ServerAtHome, JobsSound, InPlace, OneMaker, KeptInPlace
<1>. QED BY <1>1, BackupInvariant, PTL

\* All goroutines that are given the pool of an account are given the one that the
\* database keeps (loadIdentityPool, InitializeUserIdentityPool).
THEOREM PoolsOnce == Spec => []OnePool
<1>1. BackupInv => OnePool
  BY DEF BackupInv, PoolsAgree, OnePool
<1>. QED BY <1>1, BackupInvariant, PTL
=============================================================================
