------------------------------ MODULE RkcStore ------------------------------
(***************************************************************************)
(* The transactional store contract of pkg/rkcstore, as its reference      *)
(* backend MemoryStore implements it: every operation runs under one lock. *)
(* A build stages records in private; Commit publishes them as an          *)
(* immutable snapshot and moves the repository's current pointer to it.    *)
(***************************************************************************)
EXTENDS Naturals, Sequences, FiniteSets

CONSTANTS
  Builds,         \* build identifiers, each allocated at most once
  Repos,          \* repository identifiers
  SnapIds,        \* snapshot identifiers
  Records,        \* canonical records (artifacts, nodes, edges, claims, ...)
  Refs,           \* Refs[r]: the records that record r refers to
  None,           \* no snapshot, no build contents, no coverage
  MaxOpen,        \* MaxOpenBuilds
  MaxRecords,     \* MaxBuildRecords
  MaxTombstones   \* MaxClosedBuildTombstones

RefsAssumption == Refs \in [Records -> SUBSET Records]
LimitAssumption == MaxOpen \in Nat /\ MaxRecords \in Nat /\ MaxTombstones \in Nat
BuildsAssumption == IsFiniteSet(Builds)

VARIABLES
  state,       \* the state of each build; "forgotten" once its tombstone went
  build,       \* what each build was begun for and what it has staged
  openBuilds,  \* the store's count of open builds
  tombstones,  \* closed builds still remembered, oldest first
  snapshots,   \* published snapshots
  current      \* each repository's current snapshot

vars == <<state, build, openBuilds, tombstones, snapshots, current>>

\* Coverage is derived from a set of records and bound to one snapshot.
Coverage == [records : SUBSET Records, snapshot : SnapIds]

Build == [repo : Repos, base : SnapIds \cup {None},
          records : SUBSET Records, coverage : Coverage \cup {None}]

Snapshot == [repo : Repos, parent : SnapIds \cup {None}, records : SUBSET Records]

ValueAssumption == None \notin SnapIds \cup Build \cup Snapshot \cup Coverage

StoreAssumption == RefsAssumption /\ LimitAssumption /\ BuildsAssumption /\ ValueAssumption

TypeOK ==
  /\ state \in [Builds -> {"none", "open", "committed", "aborted", "forgotten"}]
  /\ build \in [Builds -> Build \cup {None}]
  /\ openBuilds \in Nat
  /\ tombstones \in Seq(Builds)
  /\ snapshots \in [SnapIds -> Snapshot \cup {None}]
  /\ current \in [Repos -> SnapIds \cup {None}]

Init ==
  /\ state = [b \in Builds |-> "none"]
  /\ build = [b \in Builds |-> None]
  /\ openBuilds = 0
  /\ tombstones = << >>
  /\ snapshots = [s \in SnapIds |-> None]
  /\ current = [r \in Repos |-> None]

-----------------------------------------------------------------------------
IsOpen(b) == state[b] = "open"
Open == {b \in Builds : IsOpen(b)}

RoomForBuild == openBuilds < MaxOpen

\* Coverage counts as one record.
RecordCount(b) ==
  Cardinality(build[b].records) + (IF build[b].coverage = None THEN 0 ELSE 1)

\* Mutant: Commit does not compare the head with the build's base.
AnyHead(b) == TRUE

HeadUnmoved(b) == current[build[b].repo] = build[b].base

Unused(s) == snapshots[s] = None

\* The bundle has no dangling reference and its coverage is the derived one.
Accepted(b, s) ==
  /\ \A r \in build[b].records : Refs[r] \subseteq build[b].records
  /\ build[b].coverage = [records |-> build[b].records, snapshot |-> s]

MovedHead(b, s) == [current EXCEPT ![build[b].repo] = s]

Abortable(b) == IsOpen(b)

\* The last MaxTombstones closed builds are remembered.
Retained(order) ==
  IF Len(order) <= MaxTombstones THEN order
  ELSE SubSeq(order, Len(order) - MaxTombstones + 1, Len(order))

Orders(S) == {f \in [1..Cardinality(S) -> S] : \A b \in S : \E i \in DOMAIN f : f[i] = b}

\* Closing releases the payload, records a tombstone and evicts the oldest.
Close(S, final) ==
  \E order \in Orders(S) :
    LET all == tombstones \o order
        kept == Retained(all)
        in(seq, b) == \E i \in DOMAIN seq : seq[i] = b
    IN /\ tombstones' = kept
       /\ state' = [b \in Builds |-> IF in(all, b) /\ ~in(kept, b) THEN "forgotten"
                                     ELSE IF b \in S THEN final ELSE state[b]]
       /\ build' = [b \in Builds |-> IF b \in S THEN [build[b] EXCEPT !.records = {}, !.coverage = None]
                                     ELSE build[b]]
       /\ openBuilds' = openBuilds - Cardinality(S)

-----------------------------------------------------------------------------
\* ParentSnapshotID must be the repository's current snapshot.
BeginBuild(b, r, parent) ==
  /\ state[b] = "none"
  /\ RoomForBuild
  /\ parent = current[r]
  /\ parent # None => snapshots[parent] # None /\ snapshots[parent].repo = r
  /\ state' = [state EXCEPT ![b] = "open"]
  /\ build' = [build EXCEPT ![b] = [repo |-> r, base |-> parent, records |-> {}, coverage |-> None]]
  /\ openBuilds' = openBuilds + 1
  /\ UNCHANGED <<tombstones, snapshots, current>>

\* One batch of any family; an identifier is staged once.
Put(b, batch) ==
  /\ IsOpen(b)
  /\ batch \cap build[b].records = {}
  /\ RecordCount(b) + Cardinality(batch) <= MaxRecords
  /\ build' = [build EXCEPT ![b].records = @ \cup batch]
  /\ UNCHANGED <<state, openBuilds, tombstones, snapshots, current>>

\* Stages the coverage, or replaces what was staged.
PutCoverage(b, coverage) ==
  /\ IsOpen(b)
  /\ build[b].coverage = None => RecordCount(b) < MaxRecords
  /\ build' = [build EXCEPT ![b].coverage = coverage]
  /\ UNCHANGED <<state, openBuilds, tombstones, snapshots, current>>

Commit(b, s) ==
  /\ IsOpen(b)
  /\ HeadUnmoved(b)
  /\ Unused(s)
  /\ Accepted(b, s)
  /\ snapshots' = [snapshots EXCEPT
                     ![s] = [repo |-> build[b].repo, parent |-> build[b].base, records |-> build[b].records]]
  /\ current' = MovedHead(b, s)
  /\ Close({b}, "committed")

Abort(b) ==
  /\ Abortable(b)
  /\ Close({b}, "aborted")
  /\ UNCHANGED <<snapshots, current>>

\* Recover aborts every open build, in the order of their random identifiers.
Recover ==
  /\ Close(Open, "aborted")
  /\ UNCHANGED <<snapshots, current>>

Next ==
  \/ \E b \in Builds, r \in Repos, parent \in SnapIds \cup {None} : BeginBuild(b, r, parent)
  \/ \E b \in Builds, batch \in SUBSET Records \ {{}} : Put(b, batch)
  \/ \E b \in Builds, coverage \in Coverage : PutCoverage(b, coverage)
  \/ \E b \in Builds, s \in SnapIds : Commit(b, s)
  \/ \E b \in Builds : Abort(b)
  \/ Recover

Spec == Init /\ [][Next]_vars

-----------------------------------------------------------------------------
(***************************************************************************)
(* Properties.                                                             *)
(***************************************************************************)
Published(r) == {s \in SnapIds : snapshots[s] # None /\ snapshots[s].repo = r}

\* Lost updates do not happen: whatever builds were open at the same time on
\* the same base, at most one of them is published, so the snapshots of a
\* repository form one line that ends at its current one (Commit's comparison
\* of the head with baseCurrent).
NoFork ==
  \A r \in Repos :
    /\ current[r] = None => Published(r) = {}
    /\ current[r] # None => current[r] \in Published(r)
    /\ \A s \in Published(r) :
         /\ snapshots[s].parent \in (Published(r) \ {s, current[r]}) \cup {None}
         /\ \A other \in Published(r) \ {s} : snapshots[other].parent # snapshots[s].parent

\* No published snapshot has a dangling reference, although records and
\* coverage are staged in any order and batches arrive from several callers.
ReferencesClosed ==
  \A s \in SnapIds : snapshots[s] # None =>
    \A r \in snapshots[s].records : Refs[r] \subseteq snapshots[s].records

\* The count of open builds agrees with the builds, and both the open builds
\* and the tombstones stay within their limits.
StagingBounded ==
  /\ openBuilds = Cardinality(Open)
  /\ openBuilds <= MaxOpen
  /\ Len(tombstones) <= MaxTombstones
  /\ {tombstones[i] : i \in DOMAIN tombstones} = {b \in Builds : state[b] \in {"committed", "aborted"}}

\* A build that was begun has a payload, for a repository and a base.
BuildsKnown == \A b \in Builds : state[b] # "none" => build[b] \in Build

\* Together these are inductive: the store's count decides what is admitted, the
\* heads what is committed.
IInv == TypeOK /\ BuildsKnown /\ StagingBounded /\ NoFork /\ ReferencesClosed

\* A committed snapshot is immutable: no operation on any build replaces,
\* edits or removes it.
CommittedImmutable ==
  [][\A s \in SnapIds : snapshots[s] # None => snapshots'[s] = snapshots[s]]_vars

\* Publication is one operation: a snapshot appears exactly when a repository's
\* pointer moves to it and the build that staged it closes.
PublishedAtomically ==
  [][/\ \A s \in SnapIds : snapshots'[s] # snapshots[s] =>
          /\ current'[snapshots'[s].repo] = s
          /\ \E b \in Builds : IsOpen(b) /\ ~IsOpen(b)' /\ build[b].records = snapshots'[s].records
     /\ \A r \in Repos : current'[r] # current[r] =>
          snapshots[current'[r]] = None /\ snapshots'[current'[r]] # None]_vars
=============================================================================
