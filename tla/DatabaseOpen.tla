---------------------------- MODULE DatabaseOpen ----------------------------
(***************************************************************************)
(* Opening the SQLite database: creation, path binding, the ownership      *)
(* inspection, the migrations, the cursor key and the final check, by      *)
(* several processes at once, beside an older release that still writes    *)
(* and a backup that is restored over the file.                            *)
(***************************************************************************)
EXTENDS Integers

CONSTANTS
  Writers, Readers,  \* processes that open the database, for writing and read only
  Files,             \* <<the file found at the start or NoFile, the restored file>>
  Databases,         \* what these files may contain at the start
  NoFile, Nobody,
  Current,           \* currentDatabaseVersion
  Stamped,           \* the first version whose migration is journalled and stamps the header
  MaxCrashes

Openers == Writers \cup Readers
Inodes == {1, 2}

VersionAssumption == Current \in Nat /\ Stamped \in 2..Current
OpenerAssumption == Writers \cap Readers = {} /\ Nobody \notin Openers /\ NoFile \notin Inodes

VARIABLES
  path,     \* the inode that the path names, or NoFile
  db,       \* the committed contents of each inode
  lock,     \* the process that holds SQLite's write lock on an inode
  pc,       \* where Open stands
  bound,    \* the inode the process has pinned
  conn,     \* the inode its connection has opened
  view,     \* its read snapshot
  tx,       \* its uncommitted transaction
  step,     \* the migration it is at
  key,      \* the cursor key it has read
  result,
  crashes

handle == <<bound, conn, view, step, key>>
vars == <<path, db, lock, pc, handle, tx, result, crashes>>

Database == [version : 0..Current, app : {"none", "rkc", "other"}, user : 0..Current, journal : SUBSET (1..Current),
             drift : BOOLEAN, rows : BOOLEAN, affinity : BOOLEAN, wal : BOOLEAN, key : Openers \cup {Nobody}]

Fresh == [version |-> 0, app |-> "none", user |-> 0, journal |-> {}, drift |-> FALSE, rows |-> FALSE,
          affinity |-> TRUE, wal |-> FALSE, key |-> Nobody]

Places == {"create", "bind", "connect", "verify", "inspect", "schema", "wal", "begin", "execute", "record", "commit",
           "keyRead", "keyPut", "keyReread", "check", "rebind", "open", "failed", "crashed"}

Outcomes == {"none", "ok", "absent", "unsafe", "foreign", "incompatible", "backfill", "busy"}

TypeOK ==
  /\ path \in Inodes \cup {NoFile}
  /\ db \in [Inodes -> Database]
  /\ lock \in [Inodes -> Openers \cup {Nobody}]
  /\ pc \in [Openers -> Places]
  /\ bound \in [Openers -> Inodes \cup {NoFile}] /\ conn \in [Openers -> Inodes \cup {NoFile}]
  /\ view \in [Openers -> Database] /\ tx \in [Openers -> Database]
  /\ step \in [Openers -> 1..Current] /\ key \in [Openers -> Openers \cup {Nobody}]
  /\ result \in [Openers -> Outcomes] /\ crashes \in 0..MaxCrashes
  /\ \A i \in Inodes : lock[i] # Nobody => pc[lock[i]] \in {"execute", "record", "commit"} /\ conn[lock[i]] = i

Init ==
  /\ path \in Files
  /\ db \in [Inodes -> Databases]
  /\ path = NoFile => db[1] = Fresh
  /\ lock = [i \in Inodes |-> Nobody]
  /\ pc = [o \in Openers |-> "create"]
  /\ bound = [o \in Openers |-> NoFile] /\ conn = [o \in Openers |-> NoFile]
  /\ view = [o \in Openers |-> Fresh] /\ tx = [o \in Openers |-> Fresh]
  /\ step = [o \in Openers |-> 1] /\ key = [o \in Openers |-> Nobody]
  /\ result = [o \in Openers |-> "none"] /\ crashes = 0

-----------------------------------------------------------------------------
Goto(o, to) == pc' = [pc EXCEPT ![o] = to]

\* Open returns an error: Close, and a transaction is rolled back
Fail(o, why) ==
  /\ Goto(o, "failed")
  /\ result' = [result EXCEPT ![o] = why]
  /\ lock' = [i \in Inodes |-> IF lock[i] = o THEN Nobody ELSE lock[i]]
  /\ UNCHANGED <<path, db, handle, tx, crashes>>

Quietly == UNCHANGED <<path, db, lock, tx, result, crashes>>

\* secureDatabasePath: of two that create the file one succeeds, the other takes the winner's
Create(o) ==
  /\ pc[o] = "create"
  /\ IF path = NoFile /\ o \in Readers THEN Fail(o, "absent")
     ELSE /\ path' = IF path = NoFile THEN 1 ELSE path
          /\ Goto(o, "bind")
          /\ UNCHANGED <<db, lock, handle, tx, result, crashes>>

Bind(o) ==
  /\ pc[o] = "bind"
  /\ bound' = [bound EXCEPT ![o] = path]
  /\ Goto(o, "connect")
  /\ UNCHANGED <<conn, view, step, key>> /\ Quietly

\* SQLite opens the path again by itself
Connect(o) ==
  /\ pc[o] = "connect"
  /\ conn' = [conn EXCEPT ![o] = path]
  /\ Goto(o, "verify")
  /\ UNCHANGED <<bound, view, step, key>> /\ Quietly

Verify(o, from, to) ==
  /\ pc[o] = from
  /\ IF path = bound[o] THEN Goto(o, to) /\ UNCHANGED handle /\ Quietly ELSE Fail(o, "unsafe")

VerifyBinding(o) == Verify(o, "verify", "inspect")

-----------------------------------------------------------------------------
(* inspectOwnership: everything is read from one snapshot *)

Inspect(o) ==
  /\ pc[o] = "inspect"
  /\ LET d == db[conn[o]]
     IN  CASE d.app = "other" \/ (d.app = "none" /\ d.user # 0) -> Fail(o, "foreign")
           [] d.app = "rkc" /\ d.user < Stamped                 -> Fail(o, "incompatible")
           [] OTHER -> /\ view' = [view EXCEPT ![o] = d]
                       /\ Goto(o, "schema")
                       /\ UNCHANGED <<bound, conn, step, key>> /\ Quietly

\* the schema fits the header: a governed catalogue, its journal, or a legacy or an empty database
Fits(header, d) ==
  /\ ~d.drift
  /\ IF header.app = "rkc" THEN d.version = header.user /\ d.journal = 1..header.user
     ELSE d.version < Stamped

InspectSchema(o) ==
  /\ pc[o] = "schema"
  /\ IF Fits(view[o], view[o])
     THEN /\ Goto(o, IF o \in Writers THEN "wal" ELSE "check")
          /\ UNCHANGED handle /\ Quietly
     ELSE Fail(o, IF view[o].app = "rkc" THEN "incompatible" ELSE "foreign")

Write(o, d) == db' = [db EXCEPT ![conn[o]] = d]
Free(o) == lock[conn[o]] = Nobody

EnableWAL(o) ==
  /\ pc[o] = "wal" /\ Free(o)
  /\ Write(o, [db[conn[o]] EXCEPT !.wal = TRUE])
  /\ Goto(o, "begin")
  /\ UNCHANGED <<path, lock, handle, tx, result, crashes>>

-----------------------------------------------------------------------------
(* applyMigration: one immediate transaction for each migration of the plan *)

Begin(o) ==
  /\ pc[o] = "begin" /\ Free(o)
  /\ lock' = [lock EXCEPT ![conn[o]] = o]
  /\ tx' = [tx EXCEPT ![o] = db[conn[o]]]
  /\ Goto(o, "execute")
  /\ UNCHANGED <<path, db, handle, result, crashes>>

\* checkV2UpgradeEligibility, checkV4RepositoryAffinityEligibility
Eligible(o) == (step[o] = Stamped => ~tx[o].rows) /\ (step[o] = Current => tx[o].affinity)

\* the body; the first stamped migration makes the journal, with the legacy migrations in it
Execute(o) ==
  /\ pc[o] = "execute"
  /\ LET d == tx[o]
     IN  CASE d.version >= step[o]         -> Goto(o, "commit") /\ UNCHANGED <<lock, tx, result, handle, path, db, crashes>>
           [] d.version < step[o] - 1      -> Fail(o, "incompatible")
           [] d.version = step[o] - 1 /\ ~Eligible(o) -> Fail(o, "backfill")
           [] OTHER -> /\ tx' = [tx EXCEPT ![o].version = step[o],
                                           ![o].journal = IF step[o] = Stamped THEN 1..(Stamped - 1) ELSE @]
                       /\ Goto(o, IF step[o] >= Stamped THEN "record" ELSE "commit")
                       /\ UNCHANGED <<path, db, lock, handle, result, crashes>>

\* defect: the body is committed before it is recorded
RecordCommitted(o) ==
  /\ pc[o] = "record"
  /\ Write(o, tx[o])
  /\ tx' = [tx EXCEPT ![o].journal = @ \cup {step[o]}, ![o].app = "rkc", ![o].user = step[o]]
  /\ Goto(o, "commit")
  /\ UNCHANGED <<path, lock, handle, result, crashes>>

\* schema_migrations, application_id and user_version
Record(o) ==
  /\ pc[o] = "record"
  /\ tx' = [tx EXCEPT ![o].journal = @ \cup {step[o]}, ![o].app = "rkc", ![o].user = step[o]]
  /\ Goto(o, "commit")
  /\ UNCHANGED <<path, db, lock, handle, result, crashes>>

Commit(o) ==
  /\ pc[o] = "commit"
  /\ Write(o, tx[o])
  /\ lock' = [lock EXCEPT ![conn[o]] = Nobody]
  /\ IF step[o] < Current THEN step' = [step EXCEPT ![o] = @ + 1] /\ Goto(o, "begin")
     ELSE Goto(o, "keyRead") /\ UNCHANGED step
  /\ UNCHANGED <<path, tx, bound, conn, view, key, result, crashes>>

-----------------------------------------------------------------------------
(* readerCursorKey: read it, insert it if absent, and read what is there *)

ReadKey(o) ==
  /\ pc[o] \in {"keyRead", "keyReread"}
  /\ key' = [key EXCEPT ![o] = db[conn[o]].key]
  /\ Goto(o, IF db[conn[o]].key = Nobody THEN "keyPut" ELSE "check")
  /\ UNCHANGED <<bound, conn, view, step>> /\ Quietly

InsertKey(o) ==
  /\ pc[o] = "keyPut" /\ Free(o)
  /\ Write(o, [db[conn[o]] EXCEPT !.key = IF @ = Nobody THEN o ELSE @])
  /\ Goto(o, "keyReread")
  /\ UNCHANGED <<path, lock, handle, tx, result, crashes>>

\* Database.check: reads one after the other, but a header once current stays current
Check(o) ==
  /\ pc[o] = "check"
  /\ LET d == db[conn[o]]
     IN  CASE d.app # "rkc"                                -> Fail(o, "foreign")
           [] d.app = "rkc" /\ d.user # Current            -> Fail(o, "incompatible")
           [] OTHER -> IF d.wal /\ Fits(d, d) THEN Goto(o, "rebind") /\ UNCHANGED handle /\ Quietly
                       ELSE Fail(o, "incompatible")

\* the last binding.verify
Reverify(o) ==
  /\ pc[o] = "rebind"
  /\ IF path = bound[o]
     THEN /\ Goto(o, "open")
          /\ result' = [result EXCEPT ![o] = "ok"]
          /\ UNCHANGED <<path, db, lock, handle, tx, crashes>>
     ELSE Fail(o, "unsafe")

\* a lock that is not free within the busy timeout, or a context that ends
GiveUp(o) == pc[o] \in {"wal", "begin", "keyPut"} /\ ~Free(o) /\ Fail(o, "busy")

Crash(o) ==
  /\ crashes < MaxCrashes /\ pc[o] \notin {"failed", "crashed"}
  /\ crashes' = crashes + 1
  /\ Goto(o, "crashed")
  /\ lock' = [i \in Inodes |-> IF lock[i] = o THEN Nobody ELSE lock[i]]
  /\ UNCHANGED <<path, db, handle, tx, result>>

-----------------------------------------------------------------------------
(* The rest of the world *)

\* a process of an older release, which has the database open, writes what its version allows
OldReleaseWrites ==
  /\ path # NoFile /\ lock[path] = Nobody /\ Fits(db[path], db[path])
  /\ \/ /\ db[path].version \in 1..(Stamped - 1) /\ db[path].app = "none"
        /\ db' = [db EXCEPT ![path].rows = TRUE]
     \/ /\ db[path].version = Current - 1 /\ db[path].app = "rkc"
        /\ db' = [db EXCEPT ![path].affinity = FALSE]
  /\ UNCHANGED <<path, lock, pc, handle, tx, result, crashes>>

\* a backup is moved over the database
Restore ==
  /\ path = 1
  /\ path' = 2
  /\ UNCHANGED <<db, lock, pc, handle, tx, result, crashes>>

Open(o) ==
  \/ Create(o) \/ Bind(o) \/ Connect(o) \/ VerifyBinding(o) \/ Inspect(o) \/ InspectSchema(o) \/ EnableWAL(o)
  \/ Begin(o) \/ Execute(o) \/ Record(o) \/ Commit(o) \/ ReadKey(o) \/ InsertKey(o) \/ Check(o) \/ Reverify(o)
  \/ GiveUp(o)

Next == (\E o \in Openers : Open(o) \/ Crash(o)) \/ OldReleaseWrites \/ Restore

Spec == Init /\ [][Next]_vars

-----------------------------------------------------------------------------
(* Properties *)

Recognised(d) ==
  ~d.drift /\ CASE d.app = "rkc"   -> d.user >= Stamped /\ d.version = d.user /\ d.journal = 1..d.user
                [] d.app = "none"  -> d.user = 0 /\ d.version < Stamped
                [] OTHER -> FALSE

\* Whatever crashes and races, the committed state of a database that RKC recognises is again
\* one it recognises: no crash leaves a half-migrated file that every later Open refuses.
StaysReopenable == \A i \in Inodes : Recognised(db[i]) => Recognised(db'[i])

\* A writer refuses as foreign or incompatible only a database that is not RKC's, never one that
\* another process is just migrating.
RefusesOnlyForeign ==
  \A o \in Writers : result[o] \in {"foreign", "incompatible"} => ~Recognised(db[conn[o]])

\* A database that is not RKC's is not changed at all, not even its journal mode.
ForeignUntouched == \A i \in Inodes : ~Recognised(db[i]) => db'[i] = db[i]

\* Legacy rows that migration 3 cannot carry over and origins that migration 5 may not keep stop
\* the migration, also when they are written while it is under way.
LegacyKept ==
  \A i \in Inodes : /\ db[i].version >= Stamped => ~db[i].rows
                    /\ db[i].version = Current /\ Recognised(db[i]) => db[i].affinity

\* A handle that Open returned, for reading or writing, stands on a complete current database,
\* and a writer's on the stored cursor key.
OpenIsCurrent ==
  \A o \in Openers : pc[o] = "open" =>
    LET d == db[conn[o]]
    IN  d.version = Current /\ Recognised(d) /\ d.wal /\ (o \in Writers => key[o] = d.key /\ d.key # Nobody)

\* Cursors sealed through one handle open through every other: the key, once stored, stays.
KeyKept == \A i \in Inodes : db[i].key # Nobody => db'[i].key = db[i].key

\* A file restored while Open runs is noticed: at its end the path names what was pinned.
BoundThroughout == \A o \in Openers : pc[o] # "open" /\ pc'[o] = "open" => path = bound[o] /\ path = conn[o]

=============================================================================
