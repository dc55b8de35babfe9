--------------------------- MODULE ScanPublication ---------------------------
(***************************************************************************)
(* `rkc scan` publishes one bundle to up to three places, in this order:   *)
(* the SQLite store, the atlas directory and the filesystem snapshot store *)
(* with its CURRENT file; then it closes its run journal.  Each place is   *)
(* here what its own module shows of it (SqliteStore, SafeOutput,          *)
(* SnapshotStore).  Scans overlap, fail between any two steps, fail after  *)
(* a step took effect, or die; a later scan is the only repair.            *)
(***************************************************************************)
EXTENDS Naturals, FiniteSets

CONSTANTS
  Scans,     \* scan processes, each runs once
  SnapIds,   \* snapshot identifiers: the states of the scanned sources
  None,      \* no snapshot
  Options,   \* the sets of stores a scan may be configured with
  MaxFaults  \* bound on errors, cancellations and crashes

\* The snapshot ID does not cover the parent, the canonical content does.
Snapshot == [id : SnapIds, parent : SnapIds \cup {None}]

ASSUME NoneAssumption == None \notin SnapIds \cup Snapshot
ASSUME OptionsAssumption == Options \subseteq SUBSET {"database", "state"}
ASSUME FaultsAssumption == MaxFaults \in Nat

VARIABLES
  db,        \* snapshots of the database
  head,      \* the repository's current snapshot there
  atlas,     \* what the atlas directory shows
  store,     \* store[i]: what the snapshot store holds below snapshots/<i>
  current,   \* its CURRENT file
  at,        \* where each scan stands
  bundle,    \* what it publishes
  stores,    \* the stores it publishes to
  noop,      \* whether the database already has the snapshot as current
  outcome,   \* the terminal record of its run journal, if any
  installed, \* history: everything the atlas has shown
  alone,     \* history: no other scan has run beside it
  faults     \* history

places == <<db, head, atlas, store, current>>
history == <<installed, alone, faults>>
vars == <<places, at, bundle, stores, noop, outcome, history>>

Steps == {"idle", "observe", "begin", "commit", "publish", "open", "write", "point",
          "finalize", "cleanup", "done"}

TypeOK ==
  /\ db \subseteq Snapshot /\ head \in SnapIds \cup {None}
  /\ \A x, y \in db : x.id = y.id => x = y
  /\ head # None => \E x \in db : x.id = head
  /\ atlas \in Snapshot \cup {None}
  /\ store \in [SnapIds -> Snapshot \cup {None}] /\ current \in SnapIds \cup {None}
  /\ \A i \in SnapIds : store[i] # None => store[i].id = i
  /\ at \in [Scans -> Steps]
  /\ bundle \in [Scans -> Snapshot \cup {None}]
  /\ stores \in [Scans -> Options \cup {{}}]
  /\ noop \in [Scans -> BOOLEAN] /\ alone \in [Scans -> BOOLEAN]
  /\ outcome \in [Scans -> {"none", "succeeded", "failed", "interrupted"}]
  /\ installed \subseteq Snapshot /\ faults \in 0..MaxFaults

Init ==
  /\ db = {} /\ head = None /\ atlas = None
  /\ store = [i \in SnapIds |-> None] /\ current = None
  /\ at = [s \in Scans |-> "idle"]
  /\ bundle = [s \in Scans |-> None] /\ stores = [s \in Scans |-> {}]
  /\ noop = [s \in Scans |-> FALSE] /\ outcome = [s \in Scans |-> "none"]
  /\ installed = {} /\ alone = [s \in Scans |-> TRUE] /\ faults = 0

Goto(s, where) == at' = [at EXCEPT ![s] = where]

Running(s) == at[s] \notin {"idle", "done"}

Uses(s, place) == place \in stores[s]

\* A step that took effect may still report an error, and the scan ends.
Then(s, where) ==
  \/ Goto(s, where) /\ UNCHANGED faults
  \/ faults < MaxFaults /\ faults' = faults + 1 /\ Goto(s, "cleanup")

-----------------------------------------------------------------------------
\* The pipeline has produced the bundle of the sources as they are now.
Start(s) ==
  /\ at[s] = "idle"
  /\ \E i \in SnapIds : bundle' = [bundle EXCEPT ![s] = [id |-> i, parent |-> None]]
  /\ \E o \in Options :
       /\ stores' = [stores EXCEPT ![s] = o]
       /\ Goto(s, IF "database" \in o THEN "observe" ELSE "publish")
  /\ LET others == {r \in Scans : Running(r)}
     IN alone' = [r \in Scans |-> IF r = s THEN others = {} ELSE alone[r] /\ r \notin others]
  /\ UNCHANGED <<places, noop, outcome, installed, faults>>

ParentOf(i) == IF head = i THEN (CHOOSE x \in db : x.id = i).parent ELSE head

Repeats(s) == head = bundle[s].id

\* prepareSQLiteBundle: the bundle becomes a child of the current snapshot,
\* or takes the parent of the one it repeats.
Observe(s) ==
  /\ at[s] = "observe"
  /\ bundle' = [bundle EXCEPT ![s].parent = ParentOf(bundle[s].id)]
  /\ noop' = [noop EXCEPT ![s] = Repeats(s)]
  /\ Goto(s, IF Repeats(s) THEN "commit" ELSE "begin")
  /\ UNCHANGED <<places, stores, outcome, history>>

BeginBuild(s) ==
  /\ at[s] = "begin"
  /\ Goto(s, IF head = bundle[s].parent THEN "commit" ELSE "cleanup")
  /\ UNCHANGED <<places, bundle, stores, noop, outcome, history>>

Unpublished(i) == \A x \in db : x.id # i

CommitDatabase(s) ==
  /\ at[s] = "commit"
  /\ LET x == bundle[s]
     IN \/ noop[s] /\ Goto(s, "publish") /\ UNCHANGED <<db, head, faults>>
        \/ /\ ~noop[s] /\ head = x.parent /\ Unpublished(x.id)
           /\ db' = db \cup {x} /\ head' = x.id
           /\ Then(s, "publish")
        \/ /\ ~noop[s] /\ (head # x.parent \/ ~Unpublished(x.id))
           /\ Goto(s, "cleanup") /\ UNCHANGED <<db, head, faults>>
  /\ UNCHANGED <<atlas, store, current, bundle, stores, noop, outcome, installed, alone>>

\* Mutant: the atlas goes last, after CURRENT.
SkipAtlas(s) ==
  /\ at[s] = "publish"
  /\ Goto(s, IF Uses(s, "state") THEN "open" ELSE "finalize")
  /\ UNCHANGED <<places, bundle, stores, noop, outcome, history>>

\* safeoutput's Commit.
PublishAtlas(s) ==
  /\ at[s] = "publish"
  /\ atlas' = bundle[s] /\ installed' = installed \cup {bundle[s]}
  /\ Then(s, IF Uses(s, "state") THEN "open" ELSE "finalize")
  /\ UNCHANGED <<db, head, store, current, bundle, stores, noop, outcome, alone>>

SameContent(s) == store[bundle[s].id] = bundle[s]

\* The store's Begin: an existing snapshot must be this one.
OpenStore(s) ==
  /\ at[s] = "open"
  /\ Goto(s, IF store[bundle[s].id] = None THEN "write"
             ELSE IF SameContent(s) THEN "point" ELSE "cleanup")
  /\ UNCHANGED <<places, bundle, stores, noop, outcome, history>>

\* The rename of its Commit, which finds the destination free.
CommitStore(s) ==
  /\ at[s] = "write"
  /\ IF store[bundle[s].id] = None
       THEN /\ store' = [store EXCEPT ![bundle[s].id] = bundle[s]]
            /\ Then(s, "point")
       ELSE Goto(s, "cleanup") /\ UNCHANGED <<store, faults>>
  /\ UNCHANGED <<db, head, atlas, current, bundle, stores, noop, outcome, installed, alone>>

Selected(s) == bundle[s].id

\* SetCurrent of an existing snapshot, or the end of Commit.
PointCurrent(s) ==
  /\ at[s] = "point"
  /\ current' = Selected(s)
  /\ Then(s, "finalize")
  /\ UNCHANGED <<db, head, atlas, store, bundle, stores, noop, outcome, installed, alone>>

\* finalizeScanRunJournal: an error leaves a journal without an end.
Finalize(s) ==
  /\ at[s] = "finalize" /\ Goto(s, "done")
  /\ outcome' = [outcome EXCEPT ![s] = "succeeded"]
  /\ UNCHANGED <<places, bundle, stores, noop, history>>

\* The deferred Abort, Close and finalizeScanRunJournal.
Cleanup(s) ==
  /\ at[s] = "cleanup" /\ Goto(s, "done")
  /\ outcome' = [outcome EXCEPT ![s] = "failed"]
  /\ UNCHANGED <<places, bundle, stores, noop, history>>

-----------------------------------------------------------------------------
\* An error or a cancellation before the next step takes effect.
Fault(s) ==
  /\ Running(s) /\ at[s] # "cleanup"
  /\ faults < MaxFaults /\ faults' = faults + 1
  /\ Goto(s, IF at[s] = "finalize" THEN "done" ELSE "cleanup")
  /\ outcome' = [outcome EXCEPT ![s] = IF at[s] = "finalize" THEN "interrupted" ELSE @]
  /\ UNCHANGED <<places, bundle, stores, noop, installed, alone>>

Crash(s) ==
  /\ Running(s)
  /\ faults < MaxFaults /\ faults' = faults + 1
  /\ Goto(s, "done")
  /\ outcome' = [outcome EXCEPT ![s] = "interrupted"]
  /\ UNCHANGED <<places, bundle, stores, noop, installed, alone>>

Publish(s) ==
  \/ Observe(s) \/ BeginBuild(s) \/ CommitDatabase(s) \/ PublishAtlas(s) \/ OpenStore(s)
  \/ CommitStore(s) \/ PointCurrent(s) \/ Finalize(s) \/ Cleanup(s)

Next == \E s \in Scans : Start(s) \/ Publish(s) \/ Fault(s) \/ Crash(s)

Spec == Init /\ [][Next]_vars

\* A scan that has started goes on until it ends.
FairSpec == Spec /\ \A s \in Scans : WF_vars(Publish(s))

-----------------------------------------------------------------------------
\* Comment of runScan: "A failed atlas rename must never leave CURRENT pointing
\* at state whose declared export was not installed", with any overlap of scans.
CurrentInstalled ==
  current # None => store[current] # None /\ store[current] \in installed

\* A journal that ends in success is proof that every configured store has
\* published exactly the bundle of this run (DeferJournalCompletion).
SuccessMeansPublished ==
  \A s \in Scans : outcome[s] = "succeeded" =>
    /\ bundle[s] \in installed
    /\ Uses(s, "database") => bundle[s] \in db
    /\ Uses(s, "state") => store[bundle[s].id] = bundle[s]

AllBoth == \A s \in Scans : at[s] # "idle" => stores[s] = {"database", "state"}

\* With a database, the atlas never shows and the snapshot store never binds
\* what the database does not hold, parent included.
AtlasDurable ==
  AllBoth => installed \subseteq db /\ \A i \in SnapIds : store[i] \in db \cup {None}

\* What a scan may rely on at each of its steps: the places it has been to show
\* its bundle, whatever other scans have published since.
StepInv ==
  /\ \A s \in Scans :
       /\ at[s] # "idle" => bundle[s] \in Snapshot
       /\ at[s] # "done" => outcome[s] = "none"
       /\ at[s] \in {"observe", "begin", "commit"} => Uses(s, "database")
       /\ at[s] = "begin" => ~noop[s]
       /\ at[s] = "commit" /\ noop[s] => bundle[s] \in db
       /\ at[s] \in {"publish", "open", "write", "point", "finalize"} /\ Uses(s, "database") => bundle[s] \in db
       /\ at[s] \in {"open", "write", "point"} => Uses(s, "state")
       /\ at[s] \in {"open", "write", "point", "finalize"} => bundle[s] \in installed
       /\ at[s] = "point" \/ (at[s] = "finalize" /\ Uses(s, "state")) => store[bundle[s].id] = bundle[s]
  /\ \A i \in SnapIds : store[i] \in installed \cup {None}

\* A scan that nothing has overlapped finds the places as it left them.
AloneInv ==
  \A s \in Scans : Running(s) /\ alone[s] =>
    /\ \A r \in Scans \ {s} : ~Running(r)
    /\ at[s] = "commit" /\ noop[s] => head = bundle[s].id
    /\ at[s] \in {"publish", "open", "write", "point", "finalize"} /\ Uses(s, "database") => head = bundle[s].id
    /\ at[s] \in {"open", "write", "point", "finalize"} => atlas = bundle[s]
    /\ at[s] = "finalize" /\ Uses(s, "state") => current = bundle[s].id

\* What is current has its atlas and what a scan reports as published is, in any
\* overlap; inductive together with what the steps rely on.
ScanSound ==
  TypeOK /\ StepInv /\ AloneInv /\ CurrentInstalled /\ SuccessMeansPublished /\ AtlasDurable

\* A scan that nothing overlaps and that succeeds leaves all three places
\* showing the same snapshot, whatever failed or died before it.
SuccessAgrees ==
  [][\A s \in Scans :
       at[s] = "finalize" /\ outcome'[s] = "succeeded" /\ alone[s] /\ stores[s] = {"database", "state"}
         => atlas = bundle[s] /\ head = bundle[s].id /\ current = bundle[s].id]_vars

\* Retrying the scan of the database's current sources repairs whatever a
\* failure has left undone: alone and without a further fault it succeeds.
Retried(s) == at[s] = "observe" /\ head = bundle[s].id /\ alone[s] /\ faults = MaxFaults
RetrySucceeds == \A s \in Scans : Retried(s) ~> (outcome[s] = "succeeded" \/ ~alone[s])
=============================================================================
