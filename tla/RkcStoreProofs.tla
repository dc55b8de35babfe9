--------------------------- MODULE RkcStoreProofs ---------------------------
(***************************************************************************)
(* What the store contract promises, for any builds, records, references   *)
(* and limits: the conjuncts of IInv are inductive one beside the other,   *)
(* one lemma each, with what closing builds does in a lemma of its own.    *)
(***************************************************************************)
EXTENDS RkcStore, TLAPS, FiniteSetTheorems, SequenceTheorems

(***************************************************************************)
(* Closing builds.                                                         *)
(***************************************************************************)

\* The elements of what is retained are elements of what was there, and no
\* more than the limit (pruneClosedBuilds).
LEMMA RetainedFact ==
  ASSUME LimitAssumption, NEW order \in Seq(Builds)
  PROVE  /\ Retained(order) \in Seq(Builds)
         /\ Len(Retained(order)) <= MaxTombstones
         /\ \A i \in DOMAIN Retained(order) : \E j \in DOMAIN order : Retained(order)[i] = order[j]
<1>1. CASE Len(order) <= MaxTombstones
  BY <1>1 DEF Retained
<1>2. CASE ~(Len(order) <= MaxTombstones)
  <2> DEFINE m == Len(order) - MaxTombstones + 1
             kept == SubSeq(order, m, Len(order))
  <2>1. /\ Len(order) \in Nat /\ MaxTombstones \in Nat /\ m \in Int /\ m >= 1
        /\ DOMAIN order = 1..Len(order)
    BY <1>2, LenProperties DEF LimitAssumption
  <2>2. \A i \in m..Len(order) : order[i] \in Builds
    BY <2>1, ElementOfSeq
  <2>3. /\ kept \in Seq(Builds)
        /\ Len(kept) = IF m <= Len(order) THEN Len(order) - m + 1 ELSE 0
        /\ \A i \in 1..Len(order) - m + 1 : kept[i] = order[m + i - 1]
    BY <2>1, <2>2, SubSeqProperties
  <2>4. Len(kept) = MaxTombstones /\ DOMAIN kept = 1..MaxTombstones
    BY <2>1, <2>3, LenProperties
  <2>5. \A i \in DOMAIN kept : m + i - 1 \in DOMAIN order /\ kept[i] = order[m + i - 1]
    BY <2>1, <2>3, <2>4
  <2> QED
    BY <1>2, <2>3, <2>4, <2>5, <2>1 DEF Retained
<1> QED
  BY <1>1, <1>2

\* What Close does to a set of open builds.
LEMMA CloseFact ==
  ASSUME StoreAssumption, TypeOK, StagingBounded, NEW S \in SUBSET Open,
         NEW final \in {"committed", "aborted"}, Close(S, final)
  PROVE  /\ state' \in [Builds -> {"none", "open", "committed", "aborted", "forgotten"}]
         /\ tombstones' \in Seq(Builds)
         /\ build' = [b \in Builds |-> IF b \in S THEN [build[b] EXCEPT !.records = {}, !.coverage = None]
                                       ELSE build[b]]
         /\ \A b \in Builds : state[b] = "none" => state'[b] = "none"
         /\ openBuilds' \in Nat
         /\ StagingBounded'
<1>1. IsFiniteSet(S) /\ Cardinality(S) \in Nat /\ S \subseteq Builds
  BY FS_Subset, FS_CardinalityType DEF StoreAssumption, BuildsAssumption, Open
<1>2. PICK order \in Orders(S) :
        /\ tombstones' = Retained(tombstones \o order)
        /\ state' = [b \in Builds |->
             IF /\ \E i \in DOMAIN (tombstones \o order) : (tombstones \o order)[i] = b
                /\ ~\E i \in DOMAIN Retained(tombstones \o order) : Retained(tombstones \o order)[i] = b
               THEN "forgotten"
             ELSE IF b \in S THEN final ELSE state[b]]
  BY DEF Close
<1>3. order \in Seq(Builds) /\ Len(order) = Cardinality(S) /\ DOMAIN order = 1..Cardinality(S)
      /\ (\A i \in DOMAIN order : order[i] \in S) /\ \A b \in S : \E i \in DOMAIN order : order[i] = b
  BY <1>1, <1>2 DEF Orders
<1> DEFINE all == tombstones \o order
           kept == Retained(all)
           Was(b) == \E i \in DOMAIN all : all[i] = b
           Is(b) == \E i \in DOMAIN kept : kept[i] = b
<1>4. /\ all \in Seq(Builds) /\ Len(all) = Len(tombstones) + Len(order)
      /\ \A i \in 1..Len(all) :
           all[i] = IF i <= Len(tombstones) THEN tombstones[i] ELSE order[i - Len(tombstones)]
  <2>1. tombstones \in Seq(Builds)
    BY DEF TypeOK
  <2>2. /\ all \in Seq(Builds) /\ Len(all) = Len(tombstones) + Len(order)
        /\ \A i \in 1..Len(tombstones) + Len(order) :
             all[i] = IF i <= Len(tombstones) THEN tombstones[i] ELSE order[i - Len(tombstones)]
    BY <1>3, <2>1, ConcatProperties
  <2> QED BY <2>2
<1>5. \A b : Was(b) <=> (\E i \in DOMAIN tombstones : tombstones[i] = b) \/ b \in S
  <2>1. DOMAIN all = 1..Len(all) /\ DOMAIN tombstones = 1..Len(tombstones) /\ Len(tombstones) \in Nat
        /\ Len(order) \in Nat /\ DOMAIN order = 1..Len(order)
    BY <1>1, <1>3, <1>4, LenProperties DEF TypeOK
  <2>2. ASSUME NEW i \in DOMAIN tombstones PROVE i \in DOMAIN all /\ all[i] = tombstones[i]
    BY <1>4, <2>1
  <2>3. ASSUME NEW i \in DOMAIN order PROVE i + Len(tombstones) \in DOMAIN all /\ all[i + Len(tombstones)] = order[i]
    BY <1>4, <2>1
  <2>4. ASSUME NEW i \in DOMAIN all
        PROVE  (\E j \in DOMAIN tombstones : tombstones[j] = all[i]) \/ all[i] \in S
    BY <1>3, <1>4, <2>1
  <2>5. ASSUME NEW b, \E i \in DOMAIN tombstones : tombstones[i] = b PROVE Was(b)
    BY <2>2, <2>5
  <2>6. ASSUME NEW b \in S PROVE Was(b)
    <3>1. PICK i \in DOMAIN order : order[i] = b
      BY <1>3
    <3> QED BY <2>3, <3>1
  <2>7. ASSUME NEW b, Was(b) PROVE (\E i \in DOMAIN tombstones : tombstones[i] = b) \/ b \in S
    BY <2>4, <2>7
  <2> HIDE DEF Was
  <2> QED BY <2>5, <2>6, <2>7
<1>6. kept \in Seq(Builds) /\ Len(kept) <= MaxTombstones /\ \A b : Is(b) => Was(b)
  <2>1. all \in Seq(Builds)
    BY <1>4
  <2> HIDE DEF all
  <2>2. /\ kept \in Seq(Builds) /\ Len(kept) <= MaxTombstones
        /\ \A i \in DOMAIN kept : \E j \in DOMAIN all : kept[i] = all[j]
    BY <2>1, RetainedFact DEF StoreAssumption
  <2>3. ASSUME NEW b, Is(b) PROVE Was(b)
    BY <2>2, <2>3
  <2> QED BY <2>2, <2>3
<1>7. \A b \in Builds : state'[b] = IF Was(b) /\ ~Is(b) THEN "forgotten" ELSE IF b \in S THEN final ELSE state[b]
  BY <1>2
<1>8. /\ tombstones' = kept
      /\ state' \in [Builds -> {"none", "open", "committed", "aborted", "forgotten"}]
  <2>1. state' = [b \in Builds |-> IF Was(b) /\ ~Is(b) THEN "forgotten" ELSE IF b \in S THEN final ELSE state[b]]
    BY <1>2
  <2> HIDE DEF Was, Is
  <2> QED BY <1>2, <2>1 DEF TypeOK
<1> HIDE DEF Was, Is, all, kept
<1>9. \A b \in Builds : (\E i \in DOMAIN tombstones : tombstones[i] = b) <=> state[b] \in {"committed", "aborted"}
  BY DEF StagingBounded
<1>10. {kept[i] : i \in DOMAIN kept} = {b \in Builds : state'[b] \in {"committed", "aborted"}}
  <2>1. \A i \in DOMAIN kept : kept[i] \in Builds
    BY <1>6, LenProperties, ElementOfSeq
  <2>2. ASSUME NEW b \in Builds PROVE Is(b) <=> state'[b] \in {"committed", "aborted"}
    BY <1>5, <1>6, <1>7, <1>9, <1>1 DEF TypeOK
  <2> QED BY <2>1, <2>2 DEF Is
<1>11. Open' = Open \ S
  BY <1>1, <1>5, <1>6, <1>7, <1>9 DEF Open, IsOpen
<1>12. /\ IsFiniteSet(Open) /\ Cardinality(Open \ S) = Cardinality(Open) - Cardinality(S)
       /\ Cardinality(Open) \in Nat /\ Cardinality(Open \ S) \in Nat
  <2>1. IsFiniteSet(Open) /\ IsFiniteSet(Open \ S)
    BY FS_Subset DEF StoreAssumption, BuildsAssumption, Open
  <2>2. Open \cap S = S OBVIOUS
  <2> QED BY <2>1, <2>2, FS_Difference, FS_CardinalityType
<1>13. openBuilds' = openBuilds - Cardinality(S) /\ build' = [b \in Builds |->
         IF b \in S THEN [build[b] EXCEPT !.records = {}, !.coverage = None] ELSE build[b]]
  BY DEF Close
<1>14. openBuilds' = Cardinality(Open)' /\ openBuilds' \in Nat /\ openBuilds' <= MaxOpen
  <2>1. Cardinality(Open)' = Cardinality(Open \ S)
    BY <1>11
  <2>2. openBuilds = Cardinality(Open) /\ openBuilds <= MaxOpen /\ MaxOpen \in Nat
    BY DEF StagingBounded, StoreAssumption, LimitAssumption
  <2>3. openBuilds' = Cardinality(Open) - Cardinality(S)
    BY <1>13, <2>2
  <2>4. openBuilds' = Cardinality(Open)'
    BY <1>12, <2>1, <2>3
  <2>5. openBuilds' \in Nat
    BY <1>12, <2>3
  <2>6. openBuilds' <= MaxOpen
    BY <1>1, <1>12, <2>2, <2>3
  <2> QED BY <2>4, <2>5, <2>6
<1>15. \A b \in Builds : state[b] = "none" => state'[b] = "none"
  BY <1>1, <1>5, <1>7, <1>9 DEF Open, IsOpen
<1>16. StagingBounded'
  BY <1>6, <1>8, <1>10, <1>14 DEF StagingBounded
<1> QED
  BY <1>6, <1>8, <1>13, <1>14, <1>15, <1>16

(***************************************************************************)
(* The inductive step, operation by operation.                             *)
(***************************************************************************)

\* Beginning a build counts it and touches nothing that is published.
LEMMA BeginStep ==
  ASSUME StoreAssumption, IInv, NEW b \in Builds, NEW r \in Repos, NEW parent \in SnapIds \cup {None},
         BeginBuild(b, r, parent)
  PROVE  IInv'
<1> USE DEF IInv, TypeOK
<1> DEFINE begun == [repo |-> r, base |-> parent, records |-> {}, coverage |-> None]
<1>1. /\ state[b] = "none" /\ state' = [state EXCEPT ![b] = "open"] /\ openBuilds' = openBuilds + 1
      /\ openBuilds < MaxOpen /\ build' = [build EXCEPT ![b] = begun]
      /\ UNCHANGED <<tombstones, snapshots, current>>
  BY DEF BeginBuild, RoomForBuild
<1>2. begun \in Build
  BY DEF Build
<1>3. TypeOK' /\ BuildsKnown'
  <2>1. TypeOK'
    BY <1>1, <1>2
  <2>2. BuildsKnown'
    BY <1>1, <1>2 DEF BuildsKnown
  <2> QED BY <2>1, <2>2
<1>4. Cardinality(Open)' = Cardinality(Open) + 1
  <2>1. Open' = Open \cup {b} /\ b \notin Open
    BY <1>1 DEF Open, IsOpen
  <2>2. IsFiniteSet(Open)
    BY FS_Subset DEF StoreAssumption, BuildsAssumption, Open
  <2>3. Cardinality(Open \cup {b}) = Cardinality(Open) + 1
    BY <2>1, <2>2, FS_AddElement
  <2>4. Cardinality(Open)' = Cardinality(Open \cup {b})
    BY <2>1
  <2> QED BY <2>3, <2>4
<1>5. {x \in Builds : state'[x] \in {"committed", "aborted"}} = {x \in Builds : state[x] \in {"committed", "aborted"}}
  BY <1>1
<1>6. openBuilds' <= MaxOpen
  BY <1>1 DEF StoreAssumption, LimitAssumption
<1>7. StagingBounded'
  BY <1>1, <1>4, <1>5, <1>6 DEF StagingBounded
<1>8. NoFork' /\ ReferencesClosed'
  BY <1>1 DEF NoFork, Published, ReferencesClosed
<1> QED
  BY <1>3, <1>7, <1>8

\* Staging changes the payload of one open build.
LEMMA StageStep ==
  ASSUME StoreAssumption, IInv, NEW b \in Builds,
         \/ \E batch \in SUBSET Records : Put(b, batch)
         \/ \E coverage \in Coverage : PutCoverage(b, coverage)
  PROVE  IInv'
<1> USE DEF IInv, TypeOK
<1>1. /\ IsOpen(b) /\ build[b] \in Build
      /\ UNCHANGED <<state, openBuilds, tombstones, snapshots, current>>
  BY DEF Put, PutCoverage, BuildsKnown, IsOpen
<1>2. PICK staged \in Build : build' = [build EXCEPT ![b] = staged]
  <2>1. ASSUME NEW batch \in SUBSET Records, Put(b, batch)
        PROVE  \E staged \in Build : build' = [build EXCEPT ![b] = staged]
    <3>1. [build[b] EXCEPT !.records = @ \cup batch] \in Build
      BY <1>1 DEF Build
    <3> QED BY <2>1, <3>1 DEF Put
  <2>2. ASSUME NEW coverage \in Coverage, PutCoverage(b, coverage)
        PROVE  \E staged \in Build : build' = [build EXCEPT ![b] = staged]
    <3>1. [build[b] EXCEPT !.coverage = coverage] \in Build
      BY <1>1 DEF Build
    <3> QED BY <2>2, <3>1 DEF PutCoverage
  <2> QED BY <2>1, <2>2
<1>3. TypeOK' /\ BuildsKnown'
  BY <1>1, <1>2 DEF BuildsKnown
<1>4. StagingBounded'
  BY <1>1 DEF StagingBounded, Open, IsOpen
<1>5. NoFork' /\ ReferencesClosed'
  BY <1>1 DEF NoFork, Published, ReferencesClosed
<1> QED
  BY <1>3, <1>4, <1>5

\* Closing builds keeps the types of what it changes.
LEMMA CloseStep ==
  ASSUME StoreAssumption, IInv, NEW S \in SUBSET Open, NEW final \in {"committed", "aborted"}, Close(S, final),
         snapshots' \in [SnapIds -> Snapshot \cup {None}], current' \in [Repos -> SnapIds \cup {None}]
  PROVE  TypeOK' /\ BuildsKnown' /\ StagingBounded'
<1>1. /\ state' \in [Builds -> {"none", "open", "committed", "aborted", "forgotten"}]
      /\ tombstones' \in Seq(Builds) /\ openBuilds' \in Nat /\ StagingBounded'
      /\ build' = [b \in Builds |-> IF b \in S THEN [build[b] EXCEPT !.records = {}, !.coverage = None]
                                    ELSE build[b]]
      /\ \A b \in Builds : state[b] = "none" => state'[b] = "none"
  BY CloseFact DEF IInv
<1>2. \A b \in S : b \in Builds /\ build[b] \in Build
  BY DEF IInv, BuildsKnown, Open, IsOpen
<1>3. \A b \in S : [build[b] EXCEPT !.records = {}, !.coverage = None] \in Build
  BY <1>2 DEF Build
<1>4. build' \in [Builds -> Build \cup {None}]
  BY <1>1, <1>3 DEF IInv, TypeOK
<1>5. BuildsKnown'
  BY <1>1, <1>3 DEF IInv, BuildsKnown
<1> QED
  BY <1>1, <1>4, <1>5 DEF TypeOK

\* A commit extends the line of its repository by one snapshot: the head is its
\* base, so the new snapshot's parent is the old end of the line.
LEMMA CommitStep ==
  ASSUME StoreAssumption, IInv, NEW b \in Builds, NEW s \in SnapIds, Commit(b, s)
  PROVE  IInv'
<1>1. /\ b \in Open /\ build[b] \in Build /\ current[build[b].repo] = build[b].base /\ snapshots[s] = None
      /\ \A x \in build[b].records : Refs[x] \subseteq build[b].records
      /\ snapshots' = [snapshots EXCEPT
                         ![s] = [repo |-> build[b].repo, parent |-> build[b].base, records |-> build[b].records]]
      /\ current' = [current EXCEPT ![build[b].repo] = s]
      /\ Close({b}, "committed")
  BY DEF Commit, IInv, BuildsKnown, Open, IsOpen, HeadUnmoved, Unused, Accepted, MovedHead
<1>2. PICK r \in Repos, new \in Snapshot :
        /\ new = [repo |-> r, parent |-> current[r], records |-> build[b].records]
        /\ snapshots' = [snapshots EXCEPT ![s] = new] /\ current' = [current EXCEPT ![r] = s]
        /\ new # None
  <2> DEFINE given == [repo |-> build[b].repo, parent |-> current[build[b].repo], records |-> build[b].records]
  <2>1. build[b].repo \in Repos /\ given \in Snapshot
    BY <1>1 DEF Build, Snapshot
  <2>2. given # None
    BY <2>1 DEF StoreAssumption, ValueAssumption
  <2> QED BY <1>1, <2>1, <2>2
<1>3. TypeOK' /\ BuildsKnown' /\ StagingBounded'
  <2>1. /\ snapshots' \in [SnapIds -> Snapshot \cup {None}]
        /\ current' \in [Repos -> SnapIds \cup {None}]
    BY <1>1, <1>2 DEF IInv, TypeOK
  <2>2. {b} \in SUBSET Open
    BY <1>1
  <2> QED BY <1>1, <2>1, <2>2, CloseStep
<1>4. ReferencesClosed'
  BY <1>1, <1>2 DEF IInv, TypeOK, ReferencesClosed
<1>5. /\ \A t \in SnapIds \ {s} : snapshots'[t] = snapshots[t]
      /\ snapshots'[s] = new
      /\ \A q \in Repos : current'[q] = IF q = r THEN s ELSE current[q]
  BY <1>1, <1>2 DEF IInv, TypeOK
<1>6. /\ Published(r)' = Published(r) \cup {s}
      /\ s \notin Published(r)
      /\ \A q \in Repos \ {r} : Published(q)' = Published(q)
  BY <1>1, <1>2, <1>5 DEF Published
<1>7. ASSUME NEW q \in Repos
      PROVE  /\ current'[q] = None => Published(q)' = {}
             /\ current'[q] # None => current'[q] \in Published(q)'
             /\ \A t \in Published(q)' :
                  /\ snapshots'[t].parent \in (Published(q)' \ {t, current'[q]}) \cup {None}
                  /\ \A other \in Published(q)' \ {t} : snapshots'[other].parent # snapshots'[t].parent
  <2>1. CASE q # r
    <3>1. s \notin Published(q)
      BY <1>1 DEF Published
    <3> QED BY <1>5, <1>6, <2>1, <3>1 DEF IInv, NoFork, Published
  <2>2. CASE q = r
    <3>1. s # None
      BY DEF StoreAssumption, ValueAssumption
    <3>2. /\ current[r] = None => Published(r) = {}
          /\ current[r] # None => current[r] \in Published(r)
          /\ \A t \in Published(r) :
               /\ snapshots[t].parent \in (Published(r) \ {t, current[r]}) \cup {None}
               /\ \A other \in Published(r) \ {t} : snapshots[other].parent # snapshots[t].parent
      BY <1>2 DEF IInv, NoFork
    <3>3. new.parent = current[r]
      BY <1>2
    <3>4. \A t \in Published(r) : snapshots[t].parent # current[r] /\ snapshots[t].parent # s /\ t # s
      BY <1>6, <3>1, <3>2
    <3>5. Published(r) \subseteq SnapIds
      BY DEF Published
    <3>6. ASSUME NEW t \in Published(r)'
          PROVE  /\ snapshots'[t].parent \in (Published(r)' \ {t, s}) \cup {None}
                 /\ \A other \in Published(r)' \ {t} : snapshots'[other].parent # snapshots'[t].parent
      <4>1. CASE t = s
        BY <1>5, <1>6, <3>2, <3>3, <3>4, <3>5, <4>1
      <4>2. CASE t # s
        BY <1>5, <1>6, <3>2, <3>3, <3>4, <3>5, <4>2
      <4> QED BY <4>1, <4>2
    <3> QED BY <1>5, <1>6, <2>2, <3>1, <3>6
  <2> QED BY <2>1, <2>2
<1>8. NoFork'
  BY <1>7 DEF NoFork
<1> QED
  BY <1>3, <1>4, <1>8 DEF IInv

\* Aborting publishes nothing.
LEMMA AbortStep ==
  ASSUME StoreAssumption, IInv, (\E b \in Builds : Abort(b)) \/ Recover
  PROVE  IInv'
<1>1. PICK S \in SUBSET Open : Close(S, "aborted") /\ UNCHANGED <<snapshots, current>>
  BY DEF Abort, Abortable, Recover, Open
<1>2. TypeOK' /\ BuildsKnown' /\ StagingBounded'
  BY <1>1, CloseStep DEF IInv, TypeOK
<1>3. NoFork' /\ ReferencesClosed'
  BY <1>1 DEF IInv, NoFork, Published, ReferencesClosed
<1> QED
  BY <1>2, <1>3 DEF IInv

LEMMA InitInv == ASSUME StoreAssumption, Init PROVE IInv
<1>1. TypeOK
  BY DEF Init, TypeOK
<1>2. BuildsKnown /\ NoFork /\ ReferencesClosed
  BY DEF Init, BuildsKnown, NoFork, Published, ReferencesClosed
<1>3. StagingBounded
  <2>1. Open = {}
    BY DEF Init, Open, IsOpen
  <2> QED BY <2>1, FS_EmptySet DEF Init, StagingBounded, StoreAssumption, LimitAssumption
<1> QED
  BY <1>1, <1>2, <1>3 DEF IInv

LEMMA NextInv == ASSUME StoreAssumption, IInv, [Next]_vars PROVE IInv'
<1>1. CASE UNCHANGED vars
  BY <1>1 DEF vars, IInv, TypeOK, BuildsKnown, StagingBounded, Open, IsOpen, NoFork, Published, ReferencesClosed
<1> QED
  BY <1>1, BeginStep, StageStep, CommitStep, AbortStep DEF Next

(***************************************************************************)
(* The theorems.                                                           *)
(***************************************************************************)

\* The store's bookkeeping agrees with its builds, its histories do not fork
\* and its references are closed, together: what each needs is the others.
THEOREM Invariance == ASSUME StoreAssumption PROVE Spec => []IInv
<1>1. Init => IInv
  BY InitInv
<1>2. IInv /\ [Next]_vars => IInv'
  BY NextInv
<1> QED
  BY <1>1, <1>2, PTL DEF Spec

\* Updates are not lost: the snapshots of a repository form one line that ends
\* at the current one (memory.go Commit, baseCurrent).
THEOREM HistoriesDoNotFork == ASSUME StoreAssumption PROVE Spec => []NoFork
<1>1. IInv => NoFork
  BY DEF IInv
<1> QED
  BY <1>1, Invariance, PTL

\* Published snapshots have no dangling references (validateBuild).
THEOREM SnapshotsAreClosed == ASSUME StoreAssumption PROVE Spec => []ReferencesClosed
<1>1. IInv => ReferencesClosed
  BY DEF IInv
<1> QED
  BY <1>1, Invariance, PTL

\* The counts of open builds and of tombstones agree with the builds and stay
\* within the limits of the store.
THEOREM LimitsRespected == ASSUME StoreAssumption PROVE Spec => []StagingBounded
<1>1. IInv => StagingBounded
  BY DEF IInv
<1> QED
  BY <1>1, Invariance, PTL

\* A committed snapshot never changes.
THEOREM SnapshotsAreImmutable == ASSUME StoreAssumption PROVE Spec => CommittedImmutable
<1>1. ASSUME IInv, [Next]_vars, NEW s \in SnapIds, snapshots[s] # None
      PROVE  snapshots'[s] = snapshots[s]
  BY <1>1 DEF Next, vars, BeginBuild, Put, PutCoverage, Commit, Unused, Abort, Recover, IInv, TypeOK
<1>2. IInv /\ [Next]_vars => [\A s \in SnapIds : snapshots[s] # None => snapshots'[s] = snapshots[s]]_vars
  BY <1>1
<1> QED
  BY <1>2, Invariance, PTL DEF CommittedImmutable, Spec

\* A snapshot appears exactly when its repository's pointer moves to it and the
\* build that staged it closes.
THEOREM PublicationIsOneStep == ASSUME StoreAssumption PROVE Spec => PublishedAtomically
<1> DEFINE Atomic ==
      /\ \A s \in SnapIds : snapshots'[s] # snapshots[s] =>
           /\ current'[snapshots'[s].repo] = s
           /\ \E b \in Builds : IsOpen(b) /\ ~IsOpen(b)' /\ build[b].records = snapshots'[s].records
      /\ \A r \in Repos : current'[r] # current[r] =>
           snapshots[current'[r]] = None /\ snapshots'[current'[r]] # None
<1>1. ASSUME StoreAssumption, IInv, NEW b \in Builds, NEW s \in SnapIds, Commit(b, s)
      PROVE  Atomic
  <2> DEFINE new == [repo |-> build[b].repo, parent |-> build[b].base, records |-> build[b].records]
  <2>1. /\ b \in Open /\ IsOpen(b) /\ build[b] \in Build /\ snapshots[s] = None
        /\ snapshots' = [snapshots EXCEPT ![s] = new] /\ current' = [current EXCEPT ![build[b].repo] = s]
        /\ Close({b}, "committed")
    BY <1>1 DEF Commit, IInv, BuildsKnown, Open, IsOpen, Unused, MovedHead
  <2>2. new \in Snapshot /\ new # None /\ build[b].repo \in Repos
    BY <1>1, <2>1 DEF Build, Snapshot, StoreAssumption, ValueAssumption
  <2>3. ~IsOpen(b)'
    <3>1. state'[b] \in {"forgotten", "committed"}
      BY <2>1, <1>1 DEF Close
    <3> QED BY <3>1 DEF IsOpen
  <2>4. snapshots'[s] = new /\ \A t \in SnapIds : snapshots'[t] # snapshots[t] => t = s
    BY <1>1, <2>1, <2>2 DEF IInv, TypeOK
  <2>5. current'[build[b].repo] = s /\ \A r \in Repos : current'[r] # current[r] => r = build[b].repo
    BY <1>1, <2>1, <2>2 DEF IInv, TypeOK
  <2> QED BY <2>1, <2>2, <2>3, <2>4, <2>5
<1>2. ASSUME StoreAssumption, IInv, [Next]_vars PROVE [Atomic]_vars
  <2>1. CASE \E b \in Builds, s \in SnapIds : Commit(b, s)
    BY <1>1, <1>2, <2>1
  <2>2. CASE snapshots' = snapshots /\ current' = current
    BY <2>2
  <2> QED BY <1>2, <2>1, <2>2 DEF Next, vars, BeginBuild, Put, PutCoverage, Abort, Recover
<1> HIDE DEF Atomic
<1>3. Spec => [][Atomic]_vars
  BY <1>2, Invariance, PTL DEF Spec
<1> QED
  BY <1>3 DEF PublishedAtomically, Atomic
=============================================================================
