------------------------- MODULE SqliteStoreProofs -------------------------
(***************************************************************************)
(* The SQLite backend keeps the store contract, for any processes, clients *)
(* and builds: every step is a step of the contract or changes nothing a   *)
(* caller sees, so what is proved of the contract holds of the backend,    *)
(* and the locks are where the transactions need them.                     *)
(***************************************************************************)
EXTENDS SqliteStore, TLAPS, FiniteSetTheorems, SequenceTheorems

\* The theory of the contract, for the state that this backend shows.
Theory == INSTANCE RkcStoreProofs WITH
  openBuilds <- Cardinality(Open),
  tombstones <- finished,
  MaxTombstones <- Cardinality(Builds)

\* Counting is the same in both.
LEMMA SameCounts ==
  /\ \A S : Contract!Cardinality(S) = Cardinality(S) /\ Theory!Cardinality(S) = Cardinality(S)
  /\ \A S : Contract!IsFiniteSet(S) = IsFiniteSet(S) /\ Theory!IsFiniteSet(S) = IsFiniteSet(S)
<1>1. \A S : Contract!Cardinality(S) = Cardinality(S)
  BY DEF Contract!Cardinality, Cardinality
<1>2. \A S : Theory!Cardinality(S) = Cardinality(S)
  BY DEF Theory!Cardinality, Cardinality
<1>3. \A S : Contract!IsFiniteSet(S) = IsFiniteSet(S)
  BY DEF Contract!IsFiniteSet, IsFiniteSet
<1>4. \A S : Theory!IsFiniteSet(S) = IsFiniteSet(S)
  BY DEF Theory!IsFiniteSet, IsFiniteSet
<1> QED
  BY <1>1, <1>2, <1>3, <1>4

\* The contract is the one whose theory is used.
LEMMA SameAssumption == Contract!StoreAssumption <=> Theory!StoreAssumption
<1>1. Contract!Build = Theory!Build /\ Contract!Snapshot = Theory!Snapshot /\ Contract!Coverage = Theory!Coverage
  BY DEF Contract!Build, Theory!Build, Contract!Snapshot, Theory!Snapshot, Contract!Coverage, Theory!Coverage
<1>2. Contract!LimitAssumption <=> Theory!LimitAssumption
  BY DEF Contract!LimitAssumption, Theory!LimitAssumption
<1>3. Contract!BuildsAssumption <=> Theory!BuildsAssumption
  BY SameCounts DEF Contract!BuildsAssumption, Theory!BuildsAssumption
<1> QED
  BY <1>1, <1>2, <1>3 DEF Contract!StoreAssumption, Theory!StoreAssumption, Contract!RefsAssumption,
     Theory!RefsAssumption, Contract!ValueAssumption, Theory!ValueAssumption

LEMMA SameInvariant == Contract!IInv <=> Theory!IInv
<1>1. Contract!Build = Theory!Build /\ Contract!Snapshot = Theory!Snapshot /\ Contract!Open = Theory!Open
  BY DEF Contract!Build, Theory!Build, Contract!Snapshot, Theory!Snapshot, Contract!Coverage, Theory!Coverage,
         Contract!Open, Theory!Open, Contract!IsOpen, Theory!IsOpen
<1>2. \A r : Contract!Published(r) = Theory!Published(r)
  BY DEF Contract!Published, Theory!Published
<1>3. Contract!TypeOK <=> Theory!TypeOK
  BY <1>1 DEF Contract!TypeOK, Theory!TypeOK
<1>4. Contract!BuildsKnown <=> Theory!BuildsKnown
  BY <1>1 DEF Contract!BuildsKnown, Theory!BuildsKnown
<1>5. Contract!StagingBounded <=> Theory!StagingBounded
  BY <1>1, SameCounts DEF Contract!StagingBounded, Theory!StagingBounded
<1>6. Contract!NoFork <=> Theory!NoFork
  BY <1>2 DEF Contract!NoFork, Theory!NoFork
<1>7. Contract!ReferencesClosed <=> Theory!ReferencesClosed
  BY DEF Contract!ReferencesClosed, Theory!ReferencesClosed
<1> QED
  BY <1>3, <1>4, <1>5, <1>6, <1>7 DEF Contract!IInv, Theory!IInv

LEMMA SameInvariantNext == Contract!IInv' <=> Theory!IInv'
  BY SameInvariant, PTL

LEMMA SameNext == Contract!Next <=> Theory!Next
<1>1. Contract!Coverage = Theory!Coverage /\ Contract!Open = Theory!Open
  BY DEF Contract!Coverage, Theory!Coverage, Contract!Open, Theory!Open, Contract!IsOpen, Theory!IsOpen
<1>2. \A S, final : Contract!Close(S, final) <=> Theory!Close(S, final)
  <2>1. \A S : Contract!Orders(S) = Theory!Orders(S)
    BY SameCounts DEF Contract!Orders, Theory!Orders
  <2>2. \A order : Contract!Retained(order) = Theory!Retained(order)
    BY DEF Contract!Retained, Theory!Retained
  <2>3. ASSUME NEW S, NEW final PROVE Contract!Close(S, final) <=> Theory!Close(S, final)
    <3> DEFINE In(seq, b) == \E i \in DOMAIN seq : seq[i] = b
               Closing(all, kept, count) ==
                 /\ finished' = kept
                 /\ state' = [b \in Builds |-> IF In(all, b) /\ ~In(kept, b) THEN "forgotten"
                                               ELSE IF b \in S THEN final ELSE state[b]]
                 /\ build' = [b \in Builds |-> IF b \in S THEN [build[b] EXCEPT !.records = {}, !.coverage = None]
                                               ELSE build[b]]
                 /\ Cardinality(Open)' = Cardinality(Open) - count
    <3>1. Contract!Close(S, final) <=> \E order \in Contract!Orders(S) :
            Closing(finished \o order, Contract!Retained(finished \o order), Contract!Cardinality(S))
      BY Zenon DEF Contract!Close
    <3>2. Theory!Close(S, final) <=> \E order \in Theory!Orders(S) :
            Closing(finished \o order, Theory!Retained(finished \o order), Theory!Cardinality(S))
      BY Zenon DEF Theory!Close
    <3> HIDE DEF Closing
    <3>3. Contract!Orders(S) = Theory!Orders(S) /\ Contract!Cardinality(S) = Theory!Cardinality(S)
      BY <2>1, SameCounts
    <3>4. ASSUME NEW order
          PROVE  Contract!Retained(finished \o order) = Theory!Retained(finished \o order)
      BY <2>2
    <3> QED BY <3>1, <3>2, <3>3, <3>4
  <2> QED BY <2>3
<1>3. \A b, r, parent : Contract!BeginBuild(b, r, parent) <=> Theory!BeginBuild(b, r, parent)
  BY DEF Contract!BeginBuild, Theory!BeginBuild, Contract!RoomForBuild, Theory!RoomForBuild
<1>4. \A b, batch : Contract!Put(b, batch) <=> Theory!Put(b, batch)
  BY SameCounts DEF Contract!Put, Theory!Put, Contract!IsOpen, Theory!IsOpen, Contract!RecordCount, Theory!RecordCount
<1>5. \A b, coverage : Contract!PutCoverage(b, coverage) <=> Theory!PutCoverage(b, coverage)
  BY SameCounts DEF Contract!PutCoverage, Theory!PutCoverage, Contract!IsOpen, Theory!IsOpen,
         Contract!RecordCount, Theory!RecordCount
<1>6. \A b, s : Contract!Commit(b, s) <=> Theory!Commit(b, s)
  BY <1>2 DEF Contract!Commit, Theory!Commit, Contract!IsOpen, Theory!IsOpen, Contract!HeadUnmoved,
         Theory!HeadUnmoved, Contract!Unused, Theory!Unused, Contract!Accepted, Theory!Accepted,
         Contract!MovedHead, Theory!MovedHead
<1>7. \A b : Contract!Abort(b) <=> Theory!Abort(b)
  BY <1>2 DEF Contract!Abort, Theory!Abort, Contract!Abortable, Theory!Abortable, Contract!IsOpen, Theory!IsOpen
<1>8. Contract!Recover <=> Theory!Recover
  BY <1>1, <1>2 DEF Contract!Recover, Theory!Recover
<1> QED
  BY <1>1, <1>3, <1>4, <1>5, <1>6, <1>7, <1>8 DEF Contract!Next, Theory!Next

(***************************************************************************)
(* Every step is one of the contract, or changes no table.                 *)
(***************************************************************************)

\* The builds of S closed.
Marked(S, final) == [b \in Builds |-> IF b \in S THEN final ELSE state[b]]
Emptied(S) == [b \in Builds |-> IF b \in S THEN Cleared(b) ELSE build[b]]

\* Builds that are closed together are appended in some order and leave the
\* count of open ones, as the contract closes them: nothing is forgotten, for
\* the closed builds never outnumber the builds.
LEMMA ClosingFact ==
  ASSUME StoreAssumption, IInv, NEW S \in SUBSET Open, NEW order \in Contract!Orders(S),
         NEW final \in {"committed", "aborted"},
         finished' = finished \o order,
         state' = Marked(S, final), build' = Emptied(S)
  PROVE  Contract!Close(S, final) /\ FinishedOnce'
<1>1. /\ state \in [Builds -> {"none", "open", "committed", "aborted", "forgotten"}]
      /\ finished \in Seq(Builds) /\ Len(finished) = Cardinality(Closed)
  BY DEF IInv, TypeOK, Contract!TypeOK, FinishedOnce
<1>2. IsFiniteSet(Builds) /\ S \subseteq Builds /\ Closed \subseteq Builds /\ Open \subseteq Builds
      /\ Closed \cap S = {} /\ Open \cap S = S
  BY <1>1, SameCounts DEF StoreAssumption, Contract!StoreAssumption, Contract!BuildsAssumption, Open, Closed
<1>3. /\ IsFiniteSet(S) /\ IsFiniteSet(Closed) /\ IsFiniteSet(Open) /\ IsFiniteSet(Closed \cup S)
      /\ Cardinality(S) \in Nat /\ Cardinality(Closed) \in Nat /\ Cardinality(Open) \in Nat
      /\ Cardinality(Closed \cup S) <= Cardinality(Builds)
  <2>1. Closed \cup S \subseteq Builds
    BY <1>2
  <2> QED BY <1>2, <2>1, FS_Subset, FS_CardinalityType
<1>4. Cardinality(Closed \cup S) = Cardinality(Closed) + Cardinality(S)
  <2>1. Cardinality({}) = 0
    BY FS_EmptySet
  <2>2. Cardinality(Closed \cup S) = Cardinality(Closed) + Cardinality(S) - Cardinality(Closed \cap S)
    BY <1>3, FS_Union
  <2>3. Cardinality(Closed \cap S) = 0
    BY <1>2, <2>1
  <2> QED BY <1>3, <2>2, <2>3
<1>5. order \in Seq(Builds) /\ Len(order) = Cardinality(S)
  <2>1. order \in [1..Cardinality(S) -> S]
    BY SameCounts DEF Contract!Orders
  <2>2. order \in [1..Cardinality(S) -> Builds]
    BY <1>2, <2>1
  <2> QED BY <1>3, <2>2
<1>6. finished \o order \in Seq(Builds) /\ Len(finished \o order) = Cardinality(Closed \cup S)
  <2>1. /\ finished \o order \in Seq(Builds)
        /\ Len(finished \o order) = Len(finished) + Len(order)
    BY <1>1, <1>5, ConcatProperties
  <2> QED BY <1>1, <1>4, <1>5, <2>1
<1>7. Contract!Retained(finished \o order) = finished \o order
  BY <1>3, <1>6 DEF Contract!Retained
<1>8. Open' = Open \ S /\ Closed' = Closed \cup S
  BY <1>1, <1>2 DEF Open, Closed, Marked
<1>9. Cardinality(Open)' = Cardinality(Open) - Contract!Cardinality(S)
  <2>1. Cardinality(Open \ S) = Cardinality(Open) - Cardinality(Open \cap S)
    BY <1>3, FS_Difference
  <2>2. Cardinality(Open)' = Cardinality(Open \ S)
    BY <1>8
  <2> QED BY <1>2, <2>1, <2>2, SameCounts
<1>10. Contract!Close(S, final)
  <2>1. finished' = Contract!Retained(finished \o order)
    BY <1>7
  <2>2. state' = [b \in Builds |->
          IF /\ \E i \in DOMAIN (finished \o order) : (finished \o order)[i] = b
             /\ ~\E i \in DOMAIN Contract!Retained(finished \o order) :
                   Contract!Retained(finished \o order)[i] = b
            THEN "forgotten"
          ELSE IF b \in S THEN final ELSE state[b]]
    BY <1>7 DEF Marked
  <2>3. build' = [b \in Builds |-> IF b \in S THEN [build[b] EXCEPT !.records = {}, !.coverage = None]
                                  ELSE build[b]]
    BY DEF Emptied, Cleared
  <2> QED BY <1>9, <2>1, <2>2, <2>3, Zenon DEF Contract!Close
<1>11. FinishedOnce'
  <2>1. Cardinality(Closed)' = Cardinality(Closed \cup S)
    BY <1>8
  <2> QED BY <1>6, <2>1 DEF FinishedOnce
<1> QED
  BY <1>10, <1>11

\* One build is closed in the one order there is.
LEMMA CloseOne ==
  ASSUME StoreAssumption, IInv, NEW b \in Builds, state[b] = "open", NEW final \in {"committed", "aborted"},
         finished' = Append(finished, b),
         state' = [state EXCEPT ![b] = final],
         build' = [build EXCEPT ![b] = Cleared(b)]
  PROVE  Contract!Close({b}, final) /\ FinishedOnce'
<1> DEFINE S == {b}
<1>1. <<b>> \in Contract!Orders(S)
  <2>1. Contract!Cardinality(S) = 1
    BY SameCounts, FS_Singleton
  <2>2. <<b>> \in [1..1 -> S] /\ DOMAIN <<b>> = 1..1 /\ <<b>>[1] = b
    OBVIOUS
  <2>3. [1..Contract!Cardinality(S) -> S] = [1..1 -> S]
    BY <2>1
  <2>4. \A x \in S : \E i \in DOMAIN <<b>> : <<b>>[i] = x
    BY <2>2
  <2>5. <<b>> \in [1..Contract!Cardinality(S) -> S]
    BY <2>2, <2>3
  <2> QED BY <2>4, <2>5, Zenon DEF Contract!Orders
<1>2. finished' = finished \o <<b>>
  BY AppendIsConcat DEF IInv, TypeOK, Contract!TypeOK
<1>3. state' = Marked(S, final) /\ build' = Emptied(S)
  BY DEF IInv, TypeOK, Contract!TypeOK, Marked, Emptied
<1>4. S \in SUBSET Open
  BY DEF Open
<1> HIDE DEF S
<1>5. Contract!Close(S, final) /\ FinishedOnce'
  BY <1>1, <1>2, <1>3, <1>4, ClosingFact
<1> QED
  BY <1>5 DEF S

\* A step that leaves the tables alone is invisible.
LEMMA Invisible ==
  ASSUME IInv, UNCHANGED tables
  PROVE  [Contract!Next]_(Contract!vars) /\ FinishedOnce'
<1>1. Cardinality(Open)' = Cardinality(Open) /\ Cardinality(Closed)' = Cardinality(Closed)
  BY DEF tables, Open, Closed
<1> QED
  BY <1>1 DEF tables, Contract!vars, IInv, FinishedOnce

\* BeginInsert is the contract's BeginBuild.
LEMMA InsertContract ==
  ASSUME StoreAssumption, IInv, NEW c \in Clients, NEW r \in Repos, BeginInsert(c, r)
  PROVE  Contract!Next /\ FinishedOnce'
<1>1. /\ task[c] \in Builds /\ state[task[c]] = "none" /\ current[r] \in SnapIds \cup {None}
      /\ state \in [Builds -> {"none", "open", "committed", "aborted", "forgotten"}]
  BY DEF BeginInsert, IInv, TypeOK, LeaseInv, Contract!TypeOK
<1>2. Open' = Open \cup {task[c]} /\ task[c] \notin Open /\ Closed' = Closed
  BY <1>1 DEF BeginInsert, Open, Closed
<1>3. Cardinality(Open)' = Cardinality(Open) + 1
  <2>1. IsFiniteSet(Open)
    BY SameCounts, FS_Subset DEF StoreAssumption, Contract!StoreAssumption, Contract!BuildsAssumption, Open
  <2>2. Cardinality(Open \cup {task[c]}) = Cardinality(Open) + 1
    BY <1>2, <2>1, FS_AddElement
  <2>3. Cardinality(Open)' = Cardinality(Open \cup {task[c]})
    BY <1>2
  <2> QED BY <2>2, <2>3
<1>4. Contract!BeginBuild(task[c], r, current[r])
  BY <1>1, <1>3 DEF BeginInsert, Contract!BeginBuild, Contract!RoomForBuild
<1>5. FinishedOnce'
  <2>1. Cardinality(Closed)' = Cardinality(Closed) /\ finished' = finished
    BY <1>2 DEF BeginInsert
  <2> QED BY <2>1 DEF IInv, FinishedOnce
<1> QED
  BY <1>1, <1>4, <1>5 DEF Contract!Next

\* Staging is staging.
LEMMA StageContract ==
  ASSUME StoreAssumption, IInv, NEW c \in Clients,
         \/ \E batch \in SUBSET Records \ {{}} : Put(c, batch)
         \/ \E coverage \in Contract!Coverage : PutCoverage(c, coverage)
  PROVE  Contract!Next /\ FinishedOnce'
<1>1. task[c] \in Builds /\ state[task[c]] = "open" /\ build \in [Builds -> Contract!Build \cup {None}]
      /\ build[task[c]] \in Contract!Build /\ UNCHANGED <<state, finished, snapshots, current>>
  BY DEF Put, PutCoverage, Stage, IInv, TypeOK, Contract!TypeOK, Contract!IInv, Contract!BuildsKnown
<1>2. Cardinality(Open)' = Cardinality(Open) /\ Cardinality(Closed)' = Cardinality(Closed)
  BY <1>1 DEF Open, Closed
<1>3. RecordCount(task[c]) = Contract!RecordCount(task[c])
  BY SameCounts DEF RecordCount, Contract!RecordCount
<1>4. ASSUME NEW batch \in SUBSET Records \ {{}}, Put(c, batch)
      PROVE  Contract!Put(task[c], batch)
  <2>1. build' = [build EXCEPT ![task[c]] = [build[task[c]] EXCEPT !.records = build[task[c]].records \cup batch]]
    BY <1>1, <1>4 DEF Put, Stage
  <2>2. RecordCount(task[c]) + Cardinality(batch) <= MaxRecords /\ batch \cap build[task[c]].records = {}
    BY <1>4 DEF Put
  <2>3. Contract!RecordCount(task[c]) + Contract!Cardinality(batch) <= MaxRecords
    BY <1>3, <2>2, SameCounts
  <2> QED BY <1>1, <1>2, <2>1, <2>2, <2>3 DEF Contract!Put, Contract!IsOpen
<1>5. ASSUME NEW coverage \in Contract!Coverage, PutCoverage(c, coverage)
      PROVE  Contract!PutCoverage(task[c], coverage)
  <2>1. build' = [build EXCEPT ![task[c]] = [build[task[c]] EXCEPT !.coverage = coverage]]
    BY <1>1, <1>5 DEF PutCoverage, Stage
  <2>2. RecordCount(task[c]) < MaxRecords
    BY <1>5 DEF PutCoverage
  <2> QED BY <1>1, <1>2, <1>3, <2>1, <2>2 DEF Contract!PutCoverage, Contract!IsOpen
<1>6. FinishedOnce'
  BY <1>1, <1>2 DEF IInv, FinishedOnce
<1> QED
  BY <1>1, <1>4, <1>5, <1>6 DEF Contract!Next

\* Commit and Abort close the one build the client holds.
LEMMA CloseContract ==
  ASSUME StoreAssumption, IInv, NEW c \in Clients, (\E s \in SnapIds : Commit(c, s)) \/ Abort(c)
  PROVE  Contract!Next /\ FinishedOnce'
<1>1. task[c] \in Builds /\ state[task[c]] = "open"
  BY DEF Commit, Abort, IInv, TypeOK
<1>2. ASSUME NEW s \in SnapIds, Commit(c, s)
      PROVE  Contract!Commit(task[c], s) /\ FinishedOnce'
  <2>1. Contract!Close({task[c]}, "committed") /\ FinishedOnce'
    BY <1>1, <1>2, CloseOne DEF Commit
  <2> QED BY <1>1, <1>2, <2>1 DEF Commit, HeadUnmoved, Contract!Commit, Contract!IsOpen, Contract!HeadUnmoved,
             Contract!Unused, Contract!Accepted, Contract!MovedHead
<1>3. ASSUME Abort(c)
      PROVE  Contract!Abort(task[c]) /\ FinishedOnce'
  <2>1. Contract!Close({task[c]}, "aborted") /\ FinishedOnce'
    BY <1>1, <1>3, CloseOne DEF Abort
  <2> QED BY <1>1, <1>3, <2>1 DEF Abort, Contract!Abort, Contract!Abortable, Contract!IsOpen
<1> QED
  BY <1>1, <1>2, <1>3 DEF Contract!Next

\* A recovery that goes through is the contract's Recover.
LEMMA RecoverContract ==
  ASSUME StoreAssumption, IInv, NEW c \in Clients, RecoverApply(c)
  PROVE  Contract!Next /\ FinishedOnce'
<1>1. PICK order \in Contract!Orders(Open) : finished' = finished \o order
  BY DEF RecoverApply
<1>2. state' = Marked(Open, "aborted") /\ build' = Emptied(Open)
  BY DEF RecoverApply, Marked, Emptied, Open
<1>3. Contract!Close(Open, "aborted") /\ FinishedOnce'
  BY <1>1, <1>2, ClosingFact
<1>4. Contract!Open = Open
  BY DEF Contract!Open, Contract!IsOpen, Open
<1> QED
  BY <1>3, <1>4 DEF Contract!Next, Contract!Recover, RecoverApply

LEMMA ContractStep ==
  ASSUME StoreAssumption, IInv, [Next]_vars
  PROVE  [Contract!Next]_(Contract!vars) /\ FinishedOnce'
<1>1. CASE UNCHANGED tables
  BY <1>1, Invisible
<1>2. ASSUME NEW c \in Clients, Begin(c) PROVE [Contract!Next]_(Contract!vars) /\ FinishedOnce'
  <2>1. CASE \E r \in Repos : BeginInsert(c, r)
    BY <2>1, InsertContract
  <2> QED BY <1>1, <1>2, <2>1 DEF Begin, BeginLease, BeginFail, BeginAttach
<1>3. ASSUME NEW c \in Clients, Operate(c) PROVE [Contract!Next]_(Contract!vars) /\ FinishedOnce'
  <2>1. CASE Transaction(c)
    BY <1>1, <2>1, StageContract, CloseContract DEF Transaction, Return
  <2> QED BY <1>1, <1>3, <2>1 DEF Operate, Find, LockBuild, Release
<1>4. ASSUME NEW c \in Clients, Recover(c) PROVE [Contract!Next]_(Contract!vars) /\ FinishedOnce'
  <2>1. CASE RecoverApply(c)
    BY <2>1, RecoverContract
  <2> QED BY <1>1, <1>4, <2>1 DEF Recover, RecoverLock, RecoverFail, RecoverUnlock
<1>5. ASSUME NEW d \in Handles, CloseHandle(d) \/ Crash(d) \/ OpenHandle(d)
      PROVE  [Contract!Next]_(Contract!vars) /\ FinishedOnce'
  BY <1>1, <1>5 DEF CloseHandle, Crash, OpenHandle
<1> QED
  BY <1>1, <1>2, <1>3, <1>4, <1>5 DEF Next, vars

(***************************************************************************)
(* The locks, action by action.                                            *)
(***************************************************************************)

\* What the contract does not speak of.
Locks ==
  /\ open \subseteq Handles
  /\ attached \in [Builds -> Handles \cup {None}]
  /\ shared \subseteq Builds
  /\ exclusive \in Clients \cup {None}
  /\ mutex \in [Builds -> Clients \cup {None}]
  /\ pc \in [Clients -> Phases]
  /\ task \in [Clients -> Builds \cup {None}]
  /\ \A c \in Clients : task[c] = None <=> pc[c] \in {"idle", "recovering", "unlocking"}

States == state \in [Builds -> {"none", "open", "committed", "aborted", "forgotten"}]

LEMMA LeaseStep ==
  ASSUME StoreAssumption, Locks, States, LeaseInv, NEW c \in Clients, Begin(c) \/ Operate(c) \/ Recover(c)
  PROVE  Locks' /\ LeaseInv'
<1> USE DEF StoreAssumption, HomeAssumption, NoneAssumption, Locks, States, Phases, Become, Rest, tables, leases
<1>1. ASSUME NEW b \in Builds, BeginLease(c, b) PROVE Locks' /\ LeaseInv'
  <2>1. Locks'
    BY <1>1 DEF BeginLease, Starts, LeaseInv
  <2>2. LeaseInv'
    BY <1>1 DEF BeginLease, Starts, LeaseInv
  <2> QED BY <2>1, <2>2
<1>2. ASSUME NEW r \in Repos, BeginInsert(c, r) PROVE Locks' /\ LeaseInv'
  <2>1. Locks'
    BY <1>2 DEF BeginInsert, LeaseInv
  <2>2. LeaseInv'
    BY <1>2 DEF BeginInsert, LeaseInv
  <2> QED BY <2>1, <2>2
<1>3. ASSUME BeginFail(c) PROVE Locks' /\ LeaseInv'
  <2>1. Locks'
    BY <1>3 DEF BeginFail, Dropped, LeaseInv
  <2>2. LeaseInv'
    BY <1>3 DEF BeginFail, Dropped, LeaseInv
  <2> QED BY <2>1, <2>2
<1>4. ASSUME BeginAttach(c) PROVE Locks' /\ LeaseInv'
  <2>1. Locks'
    BY <1>4 DEF BeginAttach, LeaseInv
  <2>2. LeaseInv'
    BY <1>4 DEF BeginAttach, LeaseInv
  <2> QED BY <2>1, <2>2
<1>5. ASSUME NEW b \in Builds, Find(c, b) PROVE Locks' /\ LeaseInv'
  <2>1. Locks'
    BY <1>5 DEF Find, Starts, LeaseInv
  <2>2. LeaseInv'
    BY <1>5 DEF Find, Starts, LeaseInv
  <2> QED BY <2>1, <2>2
<1>6. ASSUME LockBuild(c) PROVE Locks' /\ LeaseInv'
  <2>1. Locks'
    BY <1>6 DEF LockBuild, MutexFree, LeaseOpen, LeaseInv
  <2>2. LeaseInv'
    BY <1>6 DEF LockBuild, MutexFree, LeaseOpen, LeaseInv
  <2> QED BY <2>1, <2>2
<1>7. ASSUME Release(c) PROVE Locks' /\ LeaseInv'
  <2>1. Locks'
    BY <1>7 DEF Release, Dropped, LeaseInv
  <2>2. LeaseInv'
    BY <1>7 DEF Release, Dropped, LeaseInv
  <2> QED BY <2>1, <2>2
<1>8. ASSUME RecoverLock(c) PROVE Locks' /\ LeaseInv'
  <2>1. Locks'
    BY <1>8 DEF RecoverLock, Starts, NoWriter, LeaseInv
  <2>2. LeaseInv'
    BY <1>8 DEF RecoverLock, Starts, NoWriter, LeaseInv
  <2> QED BY <2>1, <2>2
<1>9. ASSUME RecoverApply(c) PROVE Locks' /\ LeaseInv'
  <2>1. Locks'
    BY <1>9 DEF RecoverApply, LeaseInv
  <2>2. LeaseInv'
    BY <1>9 DEF RecoverApply, LeaseInv
  <2> QED BY <2>1, <2>2
<1>10. ASSUME RecoverFail(c) PROVE Locks' /\ LeaseInv'
  <2>1. Locks'
    BY <1>10 DEF RecoverFail, LeaseInv
  <2>2. LeaseInv'
    BY <1>10 DEF RecoverFail, LeaseInv
  <2> QED BY <2>1, <2>2
<1>11. ASSUME RecoverUnlock(c) PROVE Locks' /\ LeaseInv'
  <2>1. Locks'
    BY <1>11 DEF RecoverUnlock, LeaseInv
  <2>2. LeaseInv'
    BY <1>11 DEF RecoverUnlock, LeaseInv
  <2> QED BY <2>1, <2>2
<1>20. ASSUME Transaction(c) PROVE Locks' /\ LeaseInv'
  <2>1. CASE Return(c)
    BY <2>1 DEF Return, Unlock, LeaseInv
  <2>2. CASE \E s \in SnapIds : Commit(c, s)
    BY <2>2 DEF Commit, LeaseInv
  <2>3. CASE Abort(c)
    BY <2>3 DEF Abort, LeaseInv
  <2>4. CASE \/ \E batch \in SUBSET Records \ {{}} : Put(c, batch)
             \/ \E coverage \in Contract!Coverage : PutCoverage(c, coverage)
    BY <2>4 DEF Put, PutCoverage, Stage, Unlock, LeaseInv
  <2> QED BY <1>20, <2>1, <2>2, <2>3, <2>4 DEF Transaction
<1> QED
  BY <1>1, <1>2, <1>3, <1>4, <1>5, <1>6, <1>7, <1>8, <1>9, <1>10, <1>11, <1>20 DEF Begin, Operate, Recover

\* A process that leaves takes its locks with it, and only its own.
LEMMA LeaveStep ==
  ASSUME StoreAssumption, Locks, States, LeaseInv, NEW d \in Handles,
         CloseHandle(d) \/ Crash(d) \/ OpenHandle(d)
  PROVE  Locks' /\ LeaseInv'
<1> USE DEF StoreAssumption, HomeAssumption, NoneAssumption, Locks, States, Phases, tables, Leave, LeasesOf
<1>1. CASE CloseHandle(d)
  BY <1>1 DEF CloseHandle, LeaseInv
<1>2. CASE Crash(d)
  <2>1. Locks'
    BY <1>2 DEF Crash, LeaseInv
  <2>2. LeaseInv'
    BY <1>2 DEF Crash, LeaseInv
  <2> QED BY <2>1, <2>2
<1>3. CASE OpenHandle(d)
  BY <1>3 DEF OpenHandle, LeaseInv
<1> QED
  BY <1>1, <1>2, <1>3

(***************************************************************************)
(* The invariant.                                                          *)
(***************************************************************************)
LEMMA InitInv == ASSUME StoreAssumption, Init PROVE Contract!Init /\ IInv
<1>1. Open = {} /\ Closed = {} /\ Cardinality({}) = 0
  BY FS_EmptySet DEF Init, Open, Closed
<1>2. Contract!Init
  BY <1>1 DEF Init, Contract!Init
<1>3. Contract!IInv
  <2>1. Theory!Init /\ Theory!StoreAssumption
    BY <1>2, SameAssumption DEF Contract!Init, Theory!Init, StoreAssumption
  <2> QED BY <2>1, Theory!InitInv, SameInvariant
<1>4. FinishedOnce
  BY <1>1 DEF Init, FinishedOnce
<1>5. Locks /\ LeaseInv
  BY DEF Init, Locks, LeaseInv, Phases, StoreAssumption, HomeAssumption, NoneAssumption
<1> QED
  BY <1>2, <1>3, <1>4, <1>5 DEF IInv, TypeOK, Locks, Contract!IInv

LEMMA NextInv == ASSUME StoreAssumption, IInv, [Next]_vars PROVE IInv'
<1>1. [Contract!Next]_(Contract!vars) /\ FinishedOnce'
  BY ContractStep
<1>2. Contract!IInv'
  <2>1. Theory!StoreAssumption /\ Theory!IInv
    BY SameAssumption, SameInvariant DEF StoreAssumption, IInv
  <2>2. [Theory!Next]_(Theory!vars)
    BY <1>1, SameNext DEF Contract!vars, Theory!vars
  <2>3. Theory!IInv'
    BY <2>1, <2>2, Theory!NextInv
  <2> QED BY <2>3, SameInvariantNext
<1>3. Locks /\ States /\ LeaseInv
  BY DEF IInv, TypeOK, Contract!TypeOK, Locks, States
<1>4. Locks' /\ LeaseInv'
  <2>1. CASE UNCHANGED vars
    BY <1>3, <2>1 DEF Locks, LeaseInv, vars, tables, leases
  <2> QED BY <1>3, <2>1, LeaseStep, LeaveStep DEF Next
<1> QED
  BY <1>1, <1>2, <1>4 DEF IInv, TypeOK, Locks, Contract!IInv

\* The catalogue, the finishing order and the locks agree, whatever the
\* processes do and wherever they die.
THEOREM Invariance == ASSUME StoreAssumption PROVE Spec => []IInv
<1>1. Init => IInv
  BY InitInv
<1>2. IInv /\ [Next]_vars => IInv'
  BY NextInv
<1> QED
  BY <1>1, <1>2, PTL DEF Spec

\* The backend of internal/storage/sqlite implements the contract of
\* pkg/rkcstore: what a caller sees of it is a behaviour of the contract.
THEOREM Refinement == ASSUME StoreAssumption PROVE Spec => ImplementsContract
<1>1. Init => Contract!Init
  BY InitInv
<1>2. IInv /\ [Next]_vars => [Contract!Next]_(Contract!vars)
  BY ContractStep
<1>3. Spec => Contract!Spec
  BY <1>1, <1>2, Invariance, PTL DEF Spec, Contract!Spec
<1> QED
  BY <1>3 DEF ImplementsContract

\* No shared lock outlives its use, so no lost lease can refuse Recover.
THEOREM LeasesEnd == ASSUME StoreAssumption PROVE Spec => []NoLeakedLease
<1>1. StoreAssumption /\ IInv => NoLeakedLease
  BY DEF IInv, TypeOK, LeaseInv, NoLeakedLease, StoreAssumption, HomeAssumption, NoneAssumption
<1> QED
  BY <1>1, Invariance, PTL

\* Commit and Abort close one build and leave the others alone.
LEMMA ClosesOne ==
  ASSUME Locks, States, build \in [Builds -> Contract!Build \cup {None}], NEW c \in Clients,
         (\E s \in SnapIds : Commit(c, s)) \/ Abort(c)
  PROVE  /\ task[c] \in Builds /\ pc[c] = "holding" /\ state'[task[c]] # "open"
         /\ \A b \in Builds \ {task[c]} : state'[b] = state[b] /\ build'[b] = build[b]
<1>1. pc[c] = "holding" /\ task[c] \in Builds
  BY DEF Commit, Abort, Locks
<1>2. PICK final \in {"committed", "aborted"} :
        state' = [state EXCEPT ![task[c]] = final] /\ build' = [build EXCEPT ![task[c]] = Cleared(task[c])]
  BY Zenon DEF Commit, Abort
<1> QED
  BY <1>1, <1>2 DEF States

\* Builds are staged and closed by the client that holds their lease, or by
\* Recover once nobody does.
THEOREM Ownership == ASSUME StoreAssumption PROVE Spec => BuildsOwned
<1>1. ASSUME StoreAssumption, Locks, States, LeaseInv, [Next]_vars, build \in [Builds -> Contract!Build \cup {None}]
      PROVE  ClosedByOwner
  <2> USE <1>1 DEF StoreAssumption, HomeAssumption, NoneAssumption, Locks, States, LeaseInv, ClosedByOwner
  <2>1. ASSUME NEW c \in Clients, (\E s \in SnapIds : Commit(c, s)) \/ Abort(c)
        PROVE  ClosedByOwner
    <3>1. /\ task[c] \in Builds /\ pc[c] = "holding"
          /\ \A b \in Builds \ {task[c]} : state'[b] = state[b]
      BY <2>1, ClosesOne
    <3>2. mutex[task[c]] = c /\ attached[task[c]] = Home[c] /\ c # None
      BY <3>1
    <3> QED BY <3>1, <3>2
  <2>2. ASSUME NEW c \in Clients, RecoverApply(c)
        PROVE  ClosedByOwner
    BY <2>2 DEF RecoverApply
  <2>3. ASSUME NEW c \in Clients, NEW r \in Repos, BeginInsert(c, r)
        PROVE  ClosedByOwner
    BY <2>3 DEF BeginInsert
  <2>4. CASE UNCHANGED state
    BY <2>4
  <2> QED
    <3>1. ASSUME NEW c \in Clients, Begin(c) PROVE ClosedByOwner
      <4>1. UNCHANGED state \/ \E r \in Repos : BeginInsert(c, r)
        BY <3>1 DEF Begin, BeginLease, BeginFail, BeginAttach, tables
      <4> QED BY <2>3, <2>4, <4>1
    <3>2. ASSUME NEW c \in Clients, Operate(c) PROVE ClosedByOwner
      <4>1. UNCHANGED state \/ (\E s \in SnapIds : Commit(c, s)) \/ Abort(c)
        BY <3>2 DEF Operate, Transaction, Find, LockBuild, Put, PutCoverage, Stage, Return, Release, tables
      <4> QED BY <2>1, <2>4, <4>1
    <3>3. ASSUME NEW c \in Clients, Recover(c) PROVE ClosedByOwner
      <4>1. UNCHANGED state \/ RecoverApply(c)
        BY <3>3 DEF Recover, RecoverLock, RecoverFail, RecoverUnlock, tables
      <4> QED BY <2>2, <2>4, <4>1
    <3>4. ASSUME NEW d \in Handles, CloseHandle(d) \/ Crash(d) \/ OpenHandle(d) PROVE UNCHANGED state
      BY <3>4 DEF CloseHandle, Crash, OpenHandle, tables
    <3>5. UNCHANGED vars => UNCHANGED state
      BY DEF vars, tables
    <3> HIDE DEF ClosedByOwner
    <3> QED BY <1>1, <2>4, <3>1, <3>2, <3>3, <3>4, <3>5 DEF Next
<1>2. ASSUME StoreAssumption, Locks, States, LeaseInv, [Next]_vars, build \in [Builds -> Contract!Build \cup {None}]
      PROVE  StagedByOwner
  <2> USE <1>2 DEF StoreAssumption, HomeAssumption, NoneAssumption, Locks, States, LeaseInv, StagedByOwner
  <2>1. ASSUME NEW c \in Clients, \/ \E batch \in SUBSET Records \ {{}} : Put(c, batch)
                                  \/ \E coverage \in Contract!Coverage : PutCoverage(c, coverage)
        PROVE  StagedByOwner
    <3>1. task[c] \in Builds /\ pc[c] = "holding" /\ (\A b \in Builds \ {task[c]} : build'[b] = build[b])
      BY <2>1 DEF Put, PutCoverage, Stage
    <3>2. {k \in Clients : pc[k] \in {"holding", "releasing"} /\ task[k] = task[c]} = {c}
      BY <3>1
    <3>3. attached[task[c]] = Home[c]
      BY <3>1
    <3> QED BY <3>1, <3>2, <3>3
  <2>2. ASSUME NEW c \in Clients, (\E s \in SnapIds : Commit(c, s)) \/ Abort(c)
        PROVE  StagedByOwner
    <3>1. /\ task[c] \in Builds /\ state'[task[c]] # "open"
          /\ \A b \in Builds \ {task[c]} : build'[b] = build[b]
      BY <2>2, ClosesOne
    <3> QED BY <3>1
  <2>3. ASSUME NEW c \in Clients, RecoverApply(c)
        PROVE  StagedByOwner
    BY <2>3 DEF RecoverApply
  <2>4. ASSUME NEW c \in Clients, NEW r \in Repos, BeginInsert(c, r)
        PROVE  StagedByOwner
    BY <2>4 DEF BeginInsert
  <2>5. CASE UNCHANGED build
    BY <2>5
  <2> QED
    BY <1>2, <2>1, <2>2, <2>3, <2>4, <2>5 DEF Next, Begin, Operate, Transaction, Recover, BeginLease, BeginFail,
       BeginAttach, Find, LockBuild, Return, Release, RecoverLock, RecoverFail,
       RecoverUnlock, CloseHandle, Crash, OpenHandle, vars, tables
<1>3. StoreAssumption /\ IInv /\ [Next]_vars => [ClosedByOwner /\ StagedByOwner]_vars
  BY <1>1, <1>2 DEF IInv, TypeOK, Contract!TypeOK, Locks, States
<1> QED
  BY <1>3, Invariance, PTL DEF BuildsOwned, Spec

\* So the histories of the durable store do not fork and its snapshots have no
\* dangling references, through crashes and recoveries of any process.
THEOREM HistoriesSurviveCrashes ==
  ASSUME StoreAssumption PROVE Spec => [](Contract!NoFork /\ Contract!ReferencesClosed)
<1>1. IInv => Contract!NoFork /\ Contract!ReferencesClosed
  BY DEF IInv, Contract!IInv
<1> QED
  BY <1>1, Invariance, PTL
=============================================================================
