--------------------------- MODULE MCSqliteStore ---------------------------
(***************************************************************************)
(* Instances for TLC around the transactional store: the SQLite backend,   *)
(* the memory backend, and the opening of the database file.  A behaviour  *)
(* exercises one of them, `part' says which; the others stay idle.         *)
(***************************************************************************)
EXTENDS SqliteStore, TLC

\* c1 and c2 share a process, c3 is alone.
CONSTANTS c1, c2, c3, d1, d2, b1, b2, b3, p1, p2, s1, s2, r1, r2, w1, w2

MCHome == (c1 :> d1) @@ (c2 :> d1) @@ (c3 :> d2)
MCRefs == r1 :> {}
MemoryRefs == (r1 :> {}) @@ (r2 :> {r1})

VARIABLES
  part,
  mState, mBuild, mOpen, mTombstones, mSnapshots, mCurrent,
  path, db, lock, place, bound, conn, view, tx, step, key, result, crashes

memory == <<mState, mBuild, mOpen, mTombstones, mSnapshots, mCurrent>>
opening == <<path, db, lock, place, bound, conn, view, tx, step, key, result, crashes>>

\* Three builds on two repositories race for the head, with both limits in
\* reach and records that refer to each other.
Memory == INSTANCE RkcStore WITH
  Builds <- {b1, b2, b3}, Repos <- {p1, p2}, SnapIds <- {s1, s2}, Records <- {r1, r2},
  Refs <- MemoryRefs, MaxOpen <- 2, MaxRecords <- 3, MaxTombstones <- 1,
  state <- mState, build <- mBuild, openBuilds <- mOpen, tombstones <- mTombstones,
  snapshots <- mSnapshots, current <- mCurrent

Empty == [version |-> 0, app |-> "none", user |-> 0, journal |-> {}, drift |-> FALSE, rows |-> FALSE,
          affinity |-> TRUE, wal |-> FALSE, key |-> None]
At(v) == [Empty EXCEPT !.version = v, !.wal = TRUE,
          !.app = IF v >= 3 THEN "rkc" ELSE "none", !.user = IF v >= 3 THEN v ELSE 0,
          !.journal = IF v >= 3 THEN 1..v ELSE {}]

\* Databases of older releases, with and without contents.
Legacy == {Empty, At(1), At(2), [At(2) EXCEPT !.rows = TRUE], At(4), [At(4) EXCEPT !.affinity = FALSE], At(5)}

\* Other programs' files, and a drifted one.
Alien == {[Empty EXCEPT !.drift = TRUE], [Empty EXCEPT !.app = "other", !.user = 1], [Empty EXCEPT !.user = 3],
          [At(5) EXCEPT !.drift = TRUE], [At(4) EXCEPT !.journal = 1..3]}

\* Two writers, one of which may die, on every database an older release left.
Upgrade == INSTANCE DatabaseOpen WITH
  Writers <- {w1, w2}, Readers <- {}, Files <- {None, 1}, Databases <- Legacy,
  NoFile <- None, Nobody <- None, Current <- 5, Stamped <- 3, MaxCrashes <- 1, pc <- place

\* A writer and a reader, on databases that need not be RKC's.
Foreign == INSTANCE DatabaseOpen WITH
  Writers <- {w1}, Readers <- {c1}, Files <- {1}, Databases <- Legacy \cup Alien,
  NoFile <- None, Nobody <- None, Current <- 5, Stamped <- 3, MaxCrashes <- 0, pc <- place

ASSUME MemoryAssumption == StoreAssumption /\ Memory!StoreAssumption
ASSUME OpenAssumption == Upgrade!VersionAssumption /\ Upgrade!OpenerAssumption /\ Foreign!OpenerAssumption

Unopened == /\ path = None /\ db = None /\ lock = None /\ place = None /\ bound = None /\ conn = None
            /\ view = None /\ tx = None /\ step = None /\ key = None /\ result = None /\ crashes = None

MCInit ==
  /\ Init /\ Memory!Init
  /\ \/ part \in {"sqlite", "memory"} /\ Unopened
     \/ part = "upgrade" /\ Upgrade!Init /\ db[2] = At(2)
     \/ part = "foreign" /\ Foreign!Init

MCNext ==
  /\ UNCHANGED part
  /\ \/ part = "sqlite" /\ Next /\ UNCHANGED <<memory, opening>>
     \/ part = "memory" /\ Memory!Next /\ UNCHANGED <<vars, opening>>
     \/ part = "upgrade" /\ Upgrade!Next /\ UNCHANGED <<vars, memory>>
     \/ part = "foreign" /\ Foreign!Next /\ UNCHANGED <<vars, memory>>

MCSpec == MCInit /\ [][MCNext]_<<part, vars, memory, opening>>

Symmetry == Permutations({b1, b2, b3}) \cup Permutations({s1, s2}) \cup Permutations({c1, c2})

-----------------------------------------------------------------------------
\* What the memory backend keeps: no fork of a history, no dangling reference
\* in a snapshot, and a count of builds that agrees with the builds; and what
\* Open keeps: RKC's databases are never refused, legacy contents never
\* dropped, and a handle stands on a complete current database.
BackendsSound ==
  /\ part = "memory" => Memory!IInv
  /\ part = "upgrade" => /\ Upgrade!TypeOK /\ Upgrade!RefusesOnlyForeign
                         /\ Upgrade!LegacyKept /\ Upgrade!OpenIsCurrent
  /\ part = "foreign" => Foreign!RefusesOnlyForeign /\ Foreign!LegacyKept /\ Foreign!OpenIsCurrent

\* A published snapshot is immutable, and publication is one step.
PublicationSound == Memory!CommittedImmutable /\ Memory!PublishedAtomically

\* No step of Open leaves a database that the next Open refuses, changes one
\* that is not RKC's, exchanges the cursor key, or returns a handle on a file
\* that the path does not name.
OpenStepsSound ==
  [][ /\ part = "upgrade" => Upgrade!StaysReopenable /\ Upgrade!KeyKept
      /\ part = "foreign" => /\ Foreign!StaysReopenable /\ Foreign!ForeignUntouched
                             /\ Foreign!BoundThroughout ]_<<part, opening>>

\* What is published stays, and a database once opened can be opened again.
StoreStepsSound == PublicationSound /\ OpenStepsSound
=============================================================================
