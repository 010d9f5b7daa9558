---------------------------- MODULE Identities ----------------------------
(***************************************************************************)
(* The accounts of auth.go in the data directory of a server: the key that *)
(* run() reads or creates, the rows whose secrets are sealed with it, and  *)
(* the pool of I2P destinations that every account gets once.  Goroutines  *)
(* (sockets that are opened, the prewarm of main.go) read a row, and the   *)
(* pool may have been stored by another when they come to store theirs.    *)
(***************************************************************************)
EXTENDS Integers, FiniteSets

CONSTANTS
  Home,                     \* the data directory
  Outs,                     \* other directories: backups
  Accounts,
  Callers,                  \* goroutines that ask for an account
  Keys,                     \* what rand.Read makes of an application key
  Pools,                    \* pools of destinations, all different
  Nothing,                  \* no row, no pool, no file, no directory
  Broken,                   \* a file that is there and is not what was written
  MaxFiles                  \* databases ever put at Home

\* What rows, databases, manifests and directories are made of.
Files == {Nothing, Broken}
Rows == [seal : Keys, pool : Pools \cup {Nothing}]
States == [Accounts -> Rows \cup {Nothing}]
Manifests == [db : States \cup Files, key : Keys \cup Files]

\* The files of a bundle, and the entries of its directory.
Parts == {"db", "key", "man", "dir"}

Directories ==
  [key : Keys \cup Files, db : States \cup Files, man : Manifests \cup Files, id : Nat,
   safe : SUBSET Parts, anchored : BOOLEAN, served : BOOLEAN, worn : BOOLEAN]

ASSUME HomeAssumption == Home \notin Outs
\* What is missing or broken is none of the things that it stands for.
ASSUME FilesAssumption ==
  /\ Nothing # Broken
  /\ \A f \in Files :
       f \notin Keys /\ f \notin Pools /\ f \notin Rows /\ f \notin States
         /\ f \notin Manifests /\ f \notin Directories

VARIABLES
  dirs,                     \* the directories
  server,                   \* the key of the running server, or down
  call,                     \* auth.Service.Account in a goroutine
  held,                     \* the pools that this server handed out, by account
  files,                    \* databases put at Home so far
  committed                 \* history: the states the database at Home ever had

identityVars == <<dirs, server, call, held, files, committed>>

Names == Outs \cup {Home}
Down == [key |-> Nothing, open |-> FALSE]
NoCall == [step |-> "none"]

\* A data directory that the server made: nothing is a bundle in it.  SQLite
\* syncs its file and the directory; config.Key does not sync the key.
NewHome(k) == [key |-> k, db |-> Nothing, man |-> Nothing, id |-> 0,
               safe |-> {"db", "dir"}, anchored |-> FALSE,
               served |-> TRUE, worn |-> FALSE]

NoRows == [a \in Accounts |-> Nothing]
Row(k) == [seal |-> k, pool |-> Nothing]

At == dirs[Home]
rows == At.db
Running == server.open

\* A statement that commits a new state of the database at Home.
Commit(new) ==
  /\ dirs' = [dirs EXCEPT ![Home].db = new]
  /\ committed' = committed \cup {new}

-----------------------------------------------------------------------------
(* run() and config.Key                                                    *)

\* config.Key: a private key of 32 bytes is read, a missing one is created, and
\* anything else stops the program.
StartKey ==
  /\ server = Down
  /\ \/ /\ At = Nothing
        /\ \E k \in Keys :
             /\ server' = [key |-> k, open |-> FALSE]
             /\ dirs' = [dirs EXCEPT ![Home] = NewHome(k)]
     \/ /\ At # Nothing /\ At.key = Nothing
        /\ \E k \in Keys :
             /\ server' = [key |-> k, open |-> FALSE]
             /\ dirs' = [dirs EXCEPT ![Home].key = k, ![Home].safe = @ \ {"key"},
                                     ![Home].served = TRUE]
     \/ /\ At # Nothing /\ At.key \in Keys
        /\ server' = [key |-> At.key, open |-> FALSE]
        /\ dirs' = [dirs EXCEPT ![Home].served = TRUE]
  /\ UNCHANGED <<call, held, files, committed>>

\* store.NewSQLite: opens the database or creates one.
StartDb ==
  /\ server.key # Nothing /\ ~server.open
  /\ \/ /\ At.db = Nothing /\ files < MaxFiles
        /\ files' = files + 1
        /\ dirs' = [dirs EXCEPT ![Home].db = NoRows, ![Home].id = files + 1]
        /\ committed' = committed \cup {NoRows}
     \/ /\ At.db \notin {Nothing, Broken}
        /\ UNCHANGED <<dirs, files, committed>>
  /\ server' = [server EXCEPT !.open = TRUE]
  /\ UNCHANGED <<call, held>>

\* The end of the process, on purpose or not: what it kept in memory is gone.
Stop ==
  /\ server # Down
  /\ server' = Down
  /\ call' = [c \in Callers |-> NoCall]
  /\ held' = [a \in Accounts |-> {}]
  /\ UNCHANGED <<dirs, files, committed>>

-----------------------------------------------------------------------------
(* auth.Service                                                            *)

\* Register: a row with an identity and a password, both sealed, and no pool.
Register(a) ==
  /\ Running /\ rows[a] = Nothing
  /\ Commit([rows EXCEPT ![a] = Row(server.key)])
  /\ UNCHANGED <<server, call, held, files>>

\* The row as a goroutine reads it, with currentUser or UsersForPrewarm, long
\* before it uses it.  The identity must open with the key before Account
\* looks at the pool; if it does not, Account fails.
Lookup(c, a) ==
  /\ Running /\ call[c] = NoCall
  /\ rows[a] # Nothing /\ rows[a].seal = server.key
  /\ call' = [call EXCEPT ![c] =
                [step |-> IF rows[a].pool # Nothing THEN "load" ELSE "reread",
                 account |-> a, pool |-> rows[a].pool]]
  /\ UNCHANGED <<dirs, server, held, files, committed>>

\* Account reads the pool again when the row it was given has none.
Reread(c) ==
  /\ call[c].step = "reread"
  /\ call' = [call EXCEPT ![c].step = "load", ![c].pool = rows[call[c].account].pool]
  /\ UNCHANGED <<dirs, server, held, files, committed>>

\* loadIdentityPool with a stored pool: it is opened and handed out.
Load(c) ==
  /\ call[c].step = "load" /\ call[c].pool # Nothing
  /\ call' = [call EXCEPT ![c] = NoCall]
  /\ held' = [held EXCEPT ![call[c].account] = @ \cup {call[c].pool}]
  /\ UNCHANGED <<dirs, server, files, committed>>

\* A pool that is nowhere yet: identities are generated at random.
Fresh(p) == \A a \in Accounts : p \notin held[a] /\ (rows[a] # Nothing => rows[a].pool # p)

\* Deviation: the last pool stored wins.
WinnerLast(a, p) == p

\* The UPDATE of Initialize...IdentityPool: the first pool stored wins.
Winner(a, p) == IF rows[a].pool = Nothing THEN p ELSE rows[a].pool

\* loadIdentityPool without one: a new pool is generated, sealed and proposed,
\* and what is handed out is the pool that the statement returns.
Initialize(c) ==
  /\ call[c].step = "load" /\ call[c].pool = Nothing
  /\ \E p \in Pools :
       LET a == call[c].account
           w == Winner(a, p)
       IN /\ Fresh(p)
          /\ Commit([rows EXCEPT ![a].pool = w])
          /\ held' = [held EXCEPT ![a] = @ \cup {w}]
  /\ call' = [call EXCEPT ![c] = NoCall]
  /\ UNCHANGED <<server, files>>

\* A request or a statement that fails; the caller gets no account.
FailCall(c) ==
  /\ call[c] # NoCall
  /\ call' = [call EXCEPT ![c] = NoCall]
  /\ UNCHANGED <<dirs, server, held, files, committed>>

IdentityInit ==
  /\ dirs = [n \in Names |-> Nothing]
  /\ server = Down
  /\ call = [c \in Callers |-> NoCall]
  /\ held = [a \in Accounts |-> {}]
  /\ files = 0
  /\ committed = {}

IdentityNext ==
  \/ StartKey \/ StartDb \/ Stop
  \/ \E a \in Accounts : Register(a)
  \/ \E c \in Callers, a \in Accounts : Lookup(c, a)
  \/ \E c \in Callers : Reread(c) \/ Load(c) \/ Initialize(c) \/ FailCall(c)

\* However many goroutines ask for an account at once, and whatever was stored
\* between their reading the row and their storing a pool, all of them are given
\* the one pool that the database keeps.
OnePool == \A a \in Accounts : held[a] # {} => held[a] = {rows[a].pool}
=============================================================================
