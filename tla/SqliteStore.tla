---------------------------- MODULE SqliteStore ----------------------------
(***************************************************************************)
(* The durable backend of internal/storage/sqlite.  Processes open handles *)
(* on one database; the clients (goroutines) of a handle run its           *)
(* operations.  Write transactions are immediate, so each one is a step;   *)
(* what surrounds it is not: every live build keeps a shared advisory lock *)
(* on a sibling file, Recover needs the exclusive one, a mutex per lease   *)
(* serialises the clients of a build, and a process may die anywhere.      *)
(* The module shows that all this implements RkcStore.                     *)
(***************************************************************************)
EXTENDS Naturals, Sequences, FiniteSets

CONSTANTS
  Handles,      \* open Database handles, one per process
  Clients,      \* goroutines
  Home,         \* Home[c]: the handle client c works with
  Builds, Repos, SnapIds, Records, Refs, None, MaxOpen, MaxRecords

ASSUME HomeAssumption == Home \in [Clients -> Handles]

NoneAssumption == None \notin Clients \cup Handles \cup Builds

VARIABLES
  state, build,          \* the builds and staged_canonical_records tables
  finished,              \* builds in the order of finished_at
  snapshots, current,    \* canonical_snapshots, repositories.current_snapshot_id
  open,                  \* the handles that are open
  attached,              \* the handle whose lease map holds the build, or None
  shared,                \* builds whose lease still holds the shared lock
  exclusive,             \* the client that holds the exclusive lock, or None
  mutex,                 \* who holds the mutex of a build's lease, or None
  pc,                    \* where each client stands
  task                   \* the build a client works on, or None

tables == <<state, build, finished, snapshots, current>>
leases == <<open, attached, shared, exclusive, mutex>>
vars == <<tables, leases, pc, task>>

\* A store keeps every closed build; the count of open ones is a query.
Open == {b \in Builds : state[b] = "open"}

Contract == INSTANCE RkcStore WITH
  openBuilds <- Cardinality(Open),
  tombstones <- finished,
  MaxTombstones <- Cardinality(Builds)

StoreAssumption == HomeAssumption /\ NoneAssumption /\ Contract!StoreAssumption

Phases == {"idle", "inserting", "attaching", "locking", "holding", "releasing",
           "recovering", "unlocking"}

TypeOK ==
  /\ Contract!TypeOK
  /\ open \subseteq Handles
  /\ attached \in [Builds -> Handles \cup {None}]
  /\ shared \subseteq Builds
  /\ exclusive \in Clients \cup {None}
  /\ mutex \in [Builds -> Clients \cup {None}]
  /\ pc \in [Clients -> Phases]
  /\ task \in [Clients -> Builds \cup {None}]
  /\ \A c \in Clients : task[c] = None <=> pc[c] \in {"idle", "recovering", "unlocking"}

Init ==
  /\ state = [b \in Builds |-> "none"]
  /\ build = [b \in Builds |-> None]
  /\ finished = << >>
  /\ snapshots = [s \in SnapIds |-> None]
  /\ current = [r \in Repos |-> None]
  /\ open = Handles
  /\ attached = [b \in Builds |-> None]
  /\ shared = {}
  /\ exclusive = None
  /\ mutex = [b \in Builds |-> None]
  /\ pc = [c \in Clients |-> "idle"]
  /\ task = [c \in Clients |-> None]

Become(c, phase, b) ==
  /\ pc' = [pc EXCEPT ![c] = phase]
  /\ task' = [task EXCEPT ![c] = b]

Rest(c) == Become(c, "idle", None)

\* requireOpen, with the handle's lifecycle lock held for reading from here on.
Starts(c) == pc[c] = "idle" /\ Home[c] \in open

-----------------------------------------------------------------------------
(***************************************************************************)
(* Locks.                                                                  *)
(***************************************************************************)
\* Mutant: a failed insertion keeps its lease.
Kept(b) == shared

Dropped(b) == shared \ {b}

\* Mutant: Recover takes the lock beside live builds.
AnyWriter == exclusive = None

NoWriter == exclusive = None /\ shared = {}

\* Mutant: the lease is not looked at again once its mutex was obtained.
LeaseFound(b) == TRUE

LeaseOpen(b) == b \in shared

MutexFree(b) == mutex[b] = None

\* Mutant: the transaction does not look at the head again.
StaleHead(b) == TRUE

HeadUnmoved(b) == current[build[b].repo] = build[b].base

-----------------------------------------------------------------------------
(***************************************************************************)
(* BeginBuild: shared lock, one transaction, lease map.                    *)
(***************************************************************************)
BeginLease(c, b) ==
  /\ Starts(c)
  /\ exclusive = None
  /\ state[b] = "none" /\ b \notin shared
  /\ shared' = shared \cup {b}
  /\ Become(c, "inserting", b)
  /\ UNCHANGED <<tables, open, attached, exclusive, mutex>>

BeginInsert(c, r) ==
  LET b == task[c] IN
  /\ pc[c] = "inserting"
  /\ current[r] # None => snapshots[current[r]] # None /\ snapshots[current[r]].repo = r
  /\ Cardinality(Open) < MaxOpen
  /\ state' = [state EXCEPT ![b] = "open"]
  /\ build' = [build EXCEPT ![b] = [repo |-> r, base |-> current[r], records |-> {}, coverage |-> None]]
  /\ Become(c, "attaching", b)
  /\ UNCHANGED <<finished, snapshots, current, leases>>

\* Another parent than the head, too many builds, a cancelled context: the
\* transaction rolls back and the deferred close drops the lease.
BeginFail(c) ==
  /\ pc[c] = "inserting"
  /\ shared' = Dropped(task[c])
  /\ Rest(c)
  /\ UNCHANGED <<tables, open, attached, exclusive, mutex>>

BeginAttach(c) ==
  /\ pc[c] = "attaching"
  /\ attached' = [attached EXCEPT ![task[c]] = Home[c]]
  /\ Rest(c)
  /\ UNCHANGED <<tables, open, shared, exclusive, mutex>>

(***************************************************************************)
(* writerOwnedTransaction and Abort: find the lease in the map, wait for   *)
(* its mutex, run one transaction.  Without the lease the call ends in an  *)
(* error and changes nothing.                                              *)
(***************************************************************************)
Find(c, b) ==
  /\ Starts(c)
  /\ attached[b] = Home[c]
  /\ Become(c, "locking", b)
  /\ UNCHANGED <<tables, leases>>

LockBuild(c) ==
  LET b == task[c] IN
  /\ pc[c] = "locking"
  /\ MutexFree(b)
  /\ IF LeaseOpen(b)
       THEN mutex' = [mutex EXCEPT ![b] = c] /\ Become(c, "holding", b)
       ELSE Rest(c) /\ UNCHANGED mutex
  /\ UNCHANGED <<tables, open, attached, shared, exclusive>>

Unlock(c) ==
  /\ mutex' = [mutex EXCEPT ![task[c]] = None]
  /\ Rest(c)
  /\ UNCHANGED <<open, attached, shared, exclusive>>

RecordCount(b) ==
  Cardinality(build[b].records) + (IF build[b].coverage = None THEN 0 ELSE 1)

Stage(c, field, value) ==
  /\ build' = [build EXCEPT ![task[c]] =
                 IF field = "records" THEN [@ EXCEPT !.records = value] ELSE [@ EXCEPT !.coverage = value]]
  /\ Unlock(c)
  /\ UNCHANGED <<state, finished, snapshots, current>>

Put(c, batch) ==
  LET b == task[c] IN
  /\ pc[c] = "holding" /\ state[b] = "open"
  /\ batch \cap build[b].records = {}
  /\ RecordCount(b) + Cardinality(batch) <= MaxRecords
  /\ Stage(c, "records", build[b].records \cup batch)

\* The coverage record is inserted under a fixed identifier: once.
PutCoverage(c, coverage) ==
  LET b == task[c] IN
  /\ pc[c] = "holding" /\ state[b] = "open"
  /\ build[b].coverage = None
  /\ RecordCount(b) < MaxRecords
  /\ Stage(c, "coverage", coverage)

\* Validate, and every call whose transaction rolls back.
Return(c) ==
  /\ pc[c] = "holding"
  /\ Unlock(c)
  /\ UNCHANGED tables

Cleared(b) == [build[b] EXCEPT !.records = {}, !.coverage = None]

Commit(c, s) ==
  LET b == task[c]
      records == build[b].records
  IN
  /\ pc[c] = "holding" /\ state[b] = "open"
  /\ HeadUnmoved(b)
  /\ snapshots[s] = None
  /\ \A r \in records : Refs[r] \subseteq records
  /\ build[b].coverage = [records |-> records, snapshot |-> s]
  /\ snapshots' = [snapshots EXCEPT ![s] = [repo |-> build[b].repo, parent |-> build[b].base, records |-> records]]
  /\ current' = [current EXCEPT ![build[b].repo] = s]
  /\ build' = [build EXCEPT ![b] = Cleared(b)]
  /\ state' = [state EXCEPT ![b] = "committed"]
  /\ finished' = Append(finished, b)
  /\ Become(c, "releasing", b)
  /\ UNCHANGED leases

Abort(c) ==
  LET b == task[c] IN
  /\ pc[c] = "holding" /\ state[b] = "open"
  /\ build' = [build EXCEPT ![b] = Cleared(b)]
  /\ state' = [state EXCEPT ![b] = "aborted"]
  /\ finished' = Append(finished, b)
  /\ Become(c, "releasing", b)
  /\ UNCHANGED <<snapshots, current, leases>>

\* guard.release: out of the map, lock dropped, mutex released.
Release(c) ==
  LET b == task[c] IN
  /\ pc[c] = "releasing"
  /\ attached' = [attached EXCEPT ![b] = None]
  /\ shared' = Dropped(b)
  /\ mutex' = [mutex EXCEPT ![b] = None]
  /\ Rest(c)
  /\ UNCHANGED <<tables, open, exclusive>>

-----------------------------------------------------------------------------
(***************************************************************************)
(* Recover: the exclusive lock without waiting, one transaction, unlock.   *)
(***************************************************************************)
RecoverLock(c) ==
  /\ Starts(c)
  /\ NoWriter
  /\ exclusive' = c
  /\ Become(c, "recovering", None)
  /\ UNCHANGED <<tables, open, attached, shared, mutex>>

WithinLimit == Cardinality(Open) <= MaxOpen

RecoverApply(c) ==
  /\ pc[c] = "recovering"
  /\ WithinLimit
  /\ \E order \in Contract!Orders(Open) : finished' = finished \o order
  /\ state' = [b \in Builds |-> IF state[b] = "open" THEN "aborted" ELSE state[b]]
  /\ build' = [b \in Builds |-> IF state[b] = "open" THEN Cleared(b) ELSE build[b]]
  /\ Become(c, "unlocking", None)
  /\ UNCHANGED <<snapshots, current, leases>>

RecoverFail(c) ==
  /\ pc[c] = "recovering"
  /\ Become(c, "unlocking", None)
  /\ UNCHANGED <<tables, leases>>

RecoverUnlock(c) ==
  /\ pc[c] = "unlocking"
  /\ exclusive' = None
  /\ Rest(c)
  /\ UNCHANGED <<tables, open, attached, shared, mutex>>

-----------------------------------------------------------------------------
(***************************************************************************)
(* Handles.  Close waits for the running operations; a crash does not.     *)
(* Either way the kernel or Close drops the process's locks.               *)
(***************************************************************************)
LeasesOf(d) ==
  {b \in shared : attached[b] = d
     \/ \E c \in Clients : Home[c] = d /\ task[c] = b /\ pc[c] \in {"inserting", "attaching"}}

Leave(d) ==
  /\ open' = open \ {d}
  /\ shared' = shared \ LeasesOf(d)
  /\ attached' = [b \in Builds |-> IF attached[b] = d THEN None ELSE attached[b]]

CloseHandle(d) ==
  /\ d \in open
  /\ \A c \in Clients : Home[c] = d => pc[c] = "idle"
  /\ Leave(d)
  /\ UNCHANGED <<tables, exclusive, mutex, pc, task>>

Crash(d) ==
  LET dead == {c \in Clients : Home[c] = d} IN
  /\ d \in open
  /\ Leave(d)
  /\ exclusive' = IF exclusive \in dead THEN None ELSE exclusive
  /\ mutex' = [b \in Builds |-> IF mutex[b] \in dead THEN None ELSE mutex[b]]
  /\ pc' = [c \in Clients |-> IF c \in dead THEN "idle" ELSE pc[c]]
  /\ task' = [c \in Clients |-> IF c \in dead THEN None ELSE task[c]]
  /\ UNCHANGED tables

OpenHandle(d) ==
  /\ d \notin open
  /\ open' = open \cup {d}
  /\ UNCHANGED <<tables, attached, shared, exclusive, mutex, pc, task>>

-----------------------------------------------------------------------------
Begin(c) ==
  \/ \E b \in Builds : BeginLease(c, b)
  \/ \E r \in Repos : BeginInsert(c, r)
  \/ BeginFail(c) \/ BeginAttach(c)

Transaction(c) ==
  \/ \E batch \in SUBSET Records \ {{}} : Put(c, batch)
  \/ \E coverage \in Contract!Coverage : PutCoverage(c, coverage)
  \/ \E s \in SnapIds : Commit(c, s)
  \/ Abort(c) \/ Return(c)

Operate(c) == (\E b \in Builds : Find(c, b)) \/ LockBuild(c) \/ Transaction(c) \/ Release(c)

Recover(c) == RecoverLock(c) \/ RecoverApply(c) \/ RecoverFail(c) \/ RecoverUnlock(c)

Next ==
  \/ \E c \in Clients : Begin(c) \/ Operate(c) \/ Recover(c)
  \/ \E d \in Handles : CloseHandle(d) \/ Crash(d) \/ OpenHandle(d)

Spec == Init /\ [][Next]_vars

\* A call that has begun goes on; a failing recovery is tried again until it
\* succeeds; a closed handle is opened again.  Nobody has to begin or to
\* finish a build.
Continues(c) ==
  \/ \E r \in Repos : BeginInsert(c, r)
  \/ BeginFail(c) \/ BeginAttach(c) \/ LockBuild(c) \/ Transaction(c) \/ Release(c)
  \/ RecoverApply(c) \/ RecoverFail(c) \/ RecoverUnlock(c)

Fairness ==
  /\ \A c \in Clients : WF_vars(Continues(c)) /\ SF_vars(RecoverLock(c)) /\ SF_vars(RecoverApply(c))
  /\ \A d \in Handles : WF_vars(OpenHandle(d))

FairSpec == Spec /\ Fairness

-----------------------------------------------------------------------------
(***************************************************************************)
(* Properties.                                                             *)
(***************************************************************************)

\* Every operation of the backend is an operation of the contract or invisible:
\* leases, mutexes, crashes and recoveries add nothing a caller could see.
ImplementsContract == Contract!Spec

\* Where the locks are: a client under way has its process, a build that is
\* being begun is leased but not attached, one that is worked on is attached
\* and its mutex taken, and Recover runs alone.
LeaseInv ==
  /\ \A c \in Clients :
       /\ pc[c] # "idle" => Home[c] \in open
       /\ pc[c] \in {"inserting", "attaching"} =>
            /\ task[c] \in shared /\ attached[task[c]] = None
            /\ state[task[c]] = IF pc[c] = "inserting" THEN "none" ELSE "open"
            /\ \A k \in Clients \ {c} : task[k] # task[c]
       /\ pc[c] = "locking" =>
            state[task[c]] # "none" /\ (task[c] \in shared => attached[task[c]] = Home[c])
       /\ pc[c] \in {"holding", "releasing"} =>
            /\ task[c] \in shared /\ attached[task[c]] = Home[c] /\ mutex[task[c]] = c
            /\ state[task[c]] \in IF pc[c] = "holding" THEN {"open"} ELSE {"committed", "aborted"}
       /\ pc[c] \in {"recovering", "unlocking"} => exclusive = c
  /\ exclusive # None => shared = {} /\ pc[exclusive] \in {"recovering", "unlocking"}
  /\ \A b \in Builds :
       /\ mutex[b] # None => task[mutex[b]] = b /\ pc[mutex[b]] \in {"holding", "releasing"}
       /\ b \in shared =>
            \/ attached[b] # None
            \/ \E c \in Clients : task[c] = b /\ pc[c] \in {"inserting", "attaching"}
       /\ attached[b] # None =>
            /\ b \in shared /\ attached[b] \in open
            /\ state[b] = "open" \/ (mutex[b] # None /\ pc[mutex[b]] = "releasing")

Closed == {b \in Builds : state[b] \in {"committed", "aborted"}}

\* A build is finished once, although commits, aborts and recoveries of several
\* processes append to the same order.
FinishedOnce == Len(finished) = Cardinality(Closed)

\* Together these are inductive: what the contract keeps, and the locks.
IInv == TypeOK /\ Contract!IInv /\ FinishedOnce /\ LeaseInv

\* No lease outlives its use: a shared lock belongs to a build that is being
\* begun, is open, or is being released, and an attached build has its lock.
\* A leaked lease would refuse Recover for the life of the process.
NoLeakedLease ==
  \A b \in Builds :
    /\ b \in shared =>
         \/ attached[b] \in open /\ (state[b] = "open" \/ \E c \in Clients : task[c] = b /\ pc[c] = "releasing")
         \/ \E c \in Clients : task[c] = b /\ pc[c] \in {"inserting", "attaching"}
    /\ attached[b] # None => b \in shared

\* A build is aborted by a client that holds its lease's mutex, or, once its
\* process has let go of the lease, by Recover: never under a live writer.
ClosedByOwner ==
  \A b \in Builds : state[b] = "open" /\ state'[b] # "open" =>
    \/ mutex[b] # None /\ attached[b] = Home[mutex[b]]
    \/ b \notin shared /\ attached[b] = None

\* Staged records of a build change only while exactly one client, of the
\* process that began the build, holds the mutex.
StagedByOwner ==
  \A b \in Builds : state[b] = "open" /\ state'[b] = "open" /\ build'[b] # build[b] =>
    \E c \in Clients :
      /\ {k \in Clients : pc[k] \in {"holding", "releasing"} /\ task[k] = b} = {c}
      /\ attached[b] = Home[c]

\* Nobody but its owner touches a build, and Recover only what has no owner
\* (writerLeaseManager.lockBuild, Database.Recover).
BuildsOwned == [][ClosedByOwner /\ StagedByOwner]_vars

\* A build whose process is gone is aborted in the end, if time and again a
\* moment comes when no build is live and the lock is free.
Quiet == NoWriter /\ \E c \in Clients : Starts(c)
Orphan(b) == state[b] = "open" /\ b \notin shared
OrphansReclaimed == []<>Quiet => \A b \in Builds : Orphan(b) ~> state[b] # "open"
=============================================================================
