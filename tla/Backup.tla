------------------------------ MODULE Backup ------------------------------
(***************************************************************************)
(* The backup and restore commands of store/backup.go beside a server that *)
(* commits accounts, in directories that an operator moves away, removes   *)
(* and loses to power failures and to bad disks.  The steps of a command   *)
(* are those between which something else can touch what it reads; what a  *)
(* command does in its private stage is one step.                          *)
(***************************************************************************)
EXTENDS Identities

CONSTANTS
  Jobs,                     \* runs of the backup and restore commands
  MaxTroubles               \* moves, losses and power failures

VARIABLES
  job,                      \* the commands
  troubles

vars == <<dirs, server, call, held, files, committed, job, troubles>>

NoJob == [at |-> "idle", from |-> Home, dest |-> Home,
          key |-> Nothing, db |-> Nothing,
          source |-> 0, opened |-> 0, made |-> FALSE]

Ats == {"idle", "staged", "keyed", "found", "opened", "copied", "same",
        "begun", "hasDb", "hasKey", "sealed", "published", "done"}

\* validateKey: every secret of the database opens with the key.
Opens(k, db) == \A a \in Accounts : db[a] # Nothing => db[a].seal = k

Hashes(db, k) == [db |-> db, key |-> k]

Step(j, new) ==
  /\ job' = [job EXCEPT ![j] = new]
  /\ UNCHANGED <<dirs, server, call, held, files, committed, troubles>>

-----------------------------------------------------------------------------
(* Backup                                                                  *)

\* stageBundle: the destination must not exist; a private stage beside it does.
BeginBackup(j, dest) ==
  /\ job[j].at = "idle" /\ dirs[dest] = Nothing
  /\ Step(j, [NoJob EXCEPT !.at = "staged", !.dest = dest])

\* readKey: 32 bytes of a regular file.
ReadKey(j) ==
  /\ job[j].at = "staged"
  /\ At # Nothing /\ At.key \in Keys
  /\ Step(j, [job[j] EXCEPT !.at = "keyed", !.key = At.key])

\* regularFile before the snapshot.
FindDb(j) ==
  /\ job[j].at = "keyed"
  /\ At # Nothing /\ At.db # Nothing
  /\ Step(j, [job[j] EXCEPT !.at = "found", !.source = At.id])

\* newSnapshotDB opens whatever is at the path now.
OpenDb(j) ==
  /\ job[j].at = "found"
  /\ At # Nothing /\ At.db \notin {Nothing, Broken}
  /\ Step(j, [job[j] EXCEPT !.at = "opened", !.opened = At.id])

\* VACUUM INTO copies one committed state, from the file that was opened and the
\* log beside its path.  When another file has taken the path, the log that is
\* found or missed there is not the one of the open file.
Vacuum(j) ==
  /\ job[j].at = "opened"
  /\ Step(j, [job[j] EXCEPT !.at = "copied", !.opened = 0,
                !.db = IF At # Nothing /\ At.id = job[j].opened THEN At.db ELSE Broken])

\* regularFile after it: the path must still name the file found before.
SameDb(j) ==
  /\ job[j].at = "copied"
  /\ At # Nothing /\ At.db # Nothing /\ At.id = job[j].source
  /\ Step(j, [job[j] EXCEPT !.at = "same", !.source = 0])

\* The key is read again and must not have changed.  Then, in the stage: the
\* snapshot is detached from its log and validated, and the key and the manifest
\* are written.  Validation may pass over a damaged copy, but not over secrets
\* that the key does not open.
SealBackup(j) ==
  /\ job[j].at = "same"
  /\ At # Nothing /\ At.key = job[j].key
  /\ job[j].db = Broken \/ Opens(job[j].key, job[j].db)
  /\ Step(j, [job[j] EXCEPT !.at = "sealed", !.from = Home])

-----------------------------------------------------------------------------
(* Restore                                                                 *)

\* The source must hold exactly the three files; a directory that a server has
\* used holds more.  The stage is made as for a backup.
BeginRestore(j, from, dest) ==
  /\ job[j].at = "idle" /\ from # dest /\ dirs[dest] = Nothing
  /\ dirs[from] # Nothing /\ ~dirs[from].served
  /\ Nothing \notin {dirs[from].db, dirs[from].key, dirs[from].man}
  /\ Step(j, [NoJob EXCEPT !.at = "begun", !.from = from, !.dest = dest])

\* copyPrivate, one file after the other, from whatever has that name by then.
CopyFile(j, part, at, next) ==
  /\ job[j].at = at
  /\ dirs[job[j].from] # Nothing /\ dirs[job[j].from][part] # Nothing
  /\ Step(j, [job[j] EXCEPT !.at = next, ![part] = dirs[job[j].from][part]])

CopyDb(j) == CopyFile(j, "db", "begun", "hasDb")
CopyKey(j) == CopyFile(j, "key", "hasDb", "hasKey")

\* The manifest comes last.  Then, in the stage: it must be readable, both
\* checksums must agree with it, and the key must open the secrets.
FinishRestore(j) ==
  /\ job[j].at = "hasKey"
  /\ dirs[job[j].from] # Nothing
  /\ dirs[job[j].from].man = Hashes(job[j].db, job[j].key)
  /\ job[j].key \in Keys
  /\ job[j].db = Broken \/ Opens(job[j].key, job[j].db)
  /\ Step(j, [job[j] EXCEPT !.at = "sealed", !.from = Home])

-----------------------------------------------------------------------------
(* publishBundle                                                           *)

\* Deviation: the key is not synced.
SyncedButKey == Parts \ {"key"}

\* What is synced before the rename: the three files, then the stage itself.
Synced == Parts

Bundle(j, id) ==
  [key |-> job[j].key, db |-> job[j].db, man |-> Hashes(job[j].db, job[j].key), id |-> id,
   safe |-> Synced, anchored |-> FALSE, served |-> FALSE, worn |-> FALSE]

\* Deviation: a rename that replaces what is there.
FreeOrNot(n) == TRUE

\* renameExclusive: nothing may have the name.
Free(n) == dirs[n] = Nothing

\* The stage becomes the destination.
Publish(j) ==
  /\ job[j].at = "sealed" /\ Free(job[j].dest)
  /\ IF job[j].dest = Home
     THEN /\ files < MaxFiles /\ files' = files + 1
          /\ dirs' = [dirs EXCEPT ![Home] = Bundle(j, files + 1)]
     ELSE /\ dirs' = [dirs EXCEPT ![job[j].dest] = Bundle(j, 0)]
          /\ UNCHANGED files
  /\ job' = [job EXCEPT ![j].at = "published", ![j].made = TRUE]
  /\ UNCHANGED <<server, call, held, committed, troubles>>

\* The directory that holds the destination is synced and the command is done.
SyncParent(j) ==
  /\ job[j].at = "published"
  /\ dirs' = IF dirs[job[j].dest] = Nothing THEN dirs
             ELSE [dirs EXCEPT ![job[j].dest].anchored = TRUE]
  /\ job' = [job EXCEPT ![j].at = "done"]
  /\ UNCHANGED <<server, call, held, files, committed, troubles>>

\* An error or the end of the context: the stage is removed.  After the rename
\* there is no stage any more, and what was published stays.  A finished command
\* is forgotten.
EndJob(j) ==
  /\ job[j].at # "idle"
  /\ Step(j, NoJob)

-----------------------------------------------------------------------------
(* The operator, the disk and the power.                                   *)

Trouble == troubles < MaxTroubles /\ troubles' = troubles + 1

\* Commands that had put something at n are no longer answerable for it.
Forget(n) == [j \in Jobs |-> IF job[j].dest = n THEN [job[j] EXCEPT !.made = FALSE] ELSE job[j]]

\* A directory is moved away or removed, the data directory only when no server
\* runs in it.
Remove(n) ==
  /\ Trouble
  /\ dirs[n] # Nothing /\ (n = Home => server = Down)
  /\ dirs' = [dirs EXCEPT ![n] = Nothing]
  /\ job' = Forget(n)
  /\ UNCHANGED <<server, call, held, files, committed>>

\* The key file of the data directory is lost, also under a running server.
LoseKey ==
  /\ Trouble
  /\ At # Nothing /\ At.key # Nothing
  /\ dirs' = [dirs EXCEPT ![Home].key = Nothing, ![Home].worn = TRUE]
  /\ job' = Forget(Home)
  /\ UNCHANGED <<server, call, held, files, committed>>

\* A file of a backup goes bad.
Wear(n, part) ==
  /\ Trouble
  /\ dirs[n] # Nothing
  /\ dirs' = [dirs EXCEPT ![n][part] = Broken, ![n].worn = TRUE]
  /\ job' = Forget(n)
  /\ UNCHANGED <<server, call, held, files, committed>>

\* What a directory is after the power failed: parts that were not synced, or
\* whose entries were not, may be lost.
After(d, lost) ==
  LET gone == IF "dir" \in d.safe THEN lost \ d.safe ELSE lost
      left(part) == IF part \in gone THEN Broken ELSE d[part]
  IN [d EXCEPT !.db = left("db"), !.key = left("key"), !.man = left("man"),
               !.safe = Parts, !.anchored = TRUE]

\* Power fails: every process is gone, a directory whose name was not synced may
\* be gone, and so may what was not synced in it.
PowerFails ==
  /\ Trouble
  /\ \E missing \in SUBSET {n \in Names : dirs[n] # Nothing /\ ~dirs[n].anchored},
        lost \in SUBSET {"db", "key", "man"} :
       dirs' = [n \in Names |-> IF dirs[n] = Nothing \/ n \in missing THEN Nothing
                                ELSE After(dirs[n], lost)]
  /\ server' = Down
  /\ call' = [c \in Callers |-> NoCall]
  /\ held' = [a \in Accounts |-> {}]
  /\ job' = [j \in Jobs |-> IF job[j].at = "done" THEN job[j] ELSE NoJob]
  /\ UNCHANGED <<files, committed>>

Init ==
  /\ IdentityInit
  /\ job = [j \in Jobs |-> NoJob]
  /\ troubles = 0

Next ==
  \/ IdentityNext /\ UNCHANGED <<job, troubles>>
  \/ \E j \in Jobs, n \in Outs : BeginBackup(j, n)
  \/ \E j \in Jobs, from \in Outs, dest \in Names : BeginRestore(j, from, dest)
  \/ \E j \in Jobs :
       \/ ReadKey(j) \/ FindDb(j) \/ OpenDb(j) \/ Vacuum(j) \/ SameDb(j) \/ SealBackup(j)
       \/ CopyDb(j) \/ CopyKey(j) \/ FinishRestore(j)
       \/ Publish(j) \/ SyncParent(j) \/ EndJob(j)
  \/ \E n \in Names : Remove(n)
  \/ \E n \in Outs, part \in {"db", "key", "man"} : Wear(n, part)
  \/ LoseKey
  \/ PowerFails

Spec == Init /\ [][Next]_vars

-----------------------------------------------------------------------------
(* Properties.                                                             *)

Calls == {NoCall} \cup
  [step : {"reread", "load"}, account : Accounts, pool : Pools \cup {Nothing}]

Commands ==
  [at : Ats, from : Names, dest : Names, key : Keys \cup Files, db : States \cup Files,
   source : Nat, opened : Nat, made : BOOLEAN]

TypeOK ==
  /\ dirs \in [Names -> Directories \cup {Nothing}]
  /\ server \in [key : Keys \cup {Nothing}, open : BOOLEAN]
  /\ call \in [Callers -> Calls]
  /\ held \in [Accounts -> SUBSET Pools]
  /\ files \in Nat
  /\ committed \subseteq States
  /\ job \in [Jobs -> Commands]
  /\ troubles \in Nat

\* A bundle: one state that the application committed, the key that opens every
\* secret in it, and the manifest of the two.
Whole(d) ==
  /\ d.db \in committed
  /\ d.key \in Keys /\ Opens(d.key, d.db)
  /\ d.man = Hashes(d.db, d.key)

\* Whatever is found under the name of a backup or of a restored data directory,
\* at any moment and after any power failure, is whole, until a disk spoils it or
\* a server is started in it: no half-copied bundle, no state mixed from two
\* databases, no restore from two backups, no database with another one's key.
BundleWhole ==
  /\ TypeOK
  /\ \A n \in Names : dirs[n] # Nothing /\ ~dirs[n].served /\ ~dirs[n].worn => Whole(dirs[n])

\* What a command put at its destination stays there until the operator takes it
\* away: nothing is renamed over it, neither by another command that had found
\* the destination free nor by a restore over the data directory of a server that
\* was started meanwhile, and once the command has reported success no power
\* failure takes it back.
KeptInPlace ==
  /\ \A j \in Jobs : job[j].made =>
       LET d == dirs[job[j].dest] IN
       /\ d # Nothing
       /\ d.served \/ (d.db = job[j].db /\ d.key = job[j].key)
  /\ \A i, j \in Jobs : job[i].made /\ job[j].made /\ job[i].dest = job[j].dest => i = j
  /\ server # Down => At # Nothing /\ At.served

-----------------------------------------------------------------------------
(* The inductive invariant behind the three.                               *)

\* A server has its directory, an open one its database; a process that ended
\* left nothing in memory.
ServerAtHome ==
  /\ server # Down => At # Nothing /\ At.served
  /\ server.open => server.key \in Keys /\ At.db \in States
  /\ ~server.open => /\ \A c \in Callers : call[c] = NoCall
                     /\ \A a \in Accounts : held[a] = {}

\* A pool that a goroutine has read, or was given, is the one in the row.
PoolsAgree ==
  /\ \A c \in Callers : call[c] # NoCall =>
       LET row == rows[call[c].account] IN
       row # Nothing /\ (call[c].pool # Nothing => row.pool = call[c].pool)
  /\ \A a \in Accounts : held[a] # {} =>
       rows[a] # Nothing /\ rows[a].pool # Nothing /\ held[a] = {rows[a].pool}

\* A manifest that can be read is that of a state and of the key that opens it.
Vouched(man) ==
  man \notin Files => man.db \in committed /\ man.key \in Keys /\ Opens(man.key, man.db)

\* The database is always synced; all of a directory is, until a server uses it.
Sound(d) ==
  /\ {"db", "dir"} \subseteq d.safe /\ (~d.served => d.safe = Parts)
  /\ ~d.served /\ ~d.worn => Whole(d)
  /\ Vouched(d.man)

DirsSound == \A n \in Names : dirs[n] # Nothing => Sound(dirs[n])

\* A database at Home is a committed state, and has the last number given out
\* or an earlier one.
HomeCounted ==
  At # Nothing => IF At.db = Nothing THEN At.id = 0
                  ELSE At.db \in committed /\ At.id \in 1 .. files

HasDb == At # Nothing /\ At.db # Nothing

\* How far a command has come.  Numbers only grow at Home: a snapshot taken while
\* another file was at the path is older than every database found there later.
Progress(r) ==
  /\ r.source <= files /\ r.opened <= files
  /\ r.at \in {"keyed", "found", "opened", "copied", "same"} => r.key \in Keys
  /\ r.at \in {"found", "opened", "copied"} => (HasDb => r.source <= At.id)
  /\ r.at = "opened" => 1 <= r.opened /\ r.source <= r.opened /\ (HasDb => r.opened <= At.id)
  /\ r.at = "copied" => r.db \in committed \/ (HasDb => r.source < At.id)
  /\ r.at = "same" => r.db \in committed
  /\ r.at = "sealed" => r.db \in committed /\ r.key \in Keys /\ Opens(r.key, r.db)

\* What a finished command is answerable for is where it was put.
InPlace(r) ==
  r.made => /\ r.at \in {"published", "done"}
            /\ dirs[r.dest] # Nothing
            /\ r.at = "done" => dirs[r.dest].anchored
            /\ dirs[r.dest].served \/ (dirs[r.dest].db = r.db /\ dirs[r.dest].key = r.key)

JobsSound == \A j \in Jobs : Progress(job[j]) /\ InPlace(job[j])

OneMaker == \A i, j \in Jobs : job[i].made /\ job[j].made /\ job[i].dest = job[j].dest => i = j

BackupInv ==
  /\ TypeOK
  /\ ServerAtHome
  /\ PoolsAgree
  /\ DirsSound
  /\ HomeCounted
  /\ JobsSound
  /\ OneMaker
=============================================================================
