-------------------------- MODULE SchedulerProofs --------------------------
(***************************************************************************)
(* What Execute guarantees for any plan, costs, budgets and workers: its   *)
(* batches respect both limits, stages read final results only, an acyclic *)
(* plan always has a stage to run, a success is proved by the journal, and *)
(* a failure stops the run.                                                *)
(***************************************************************************)
EXTENDS Scheduler, TLAPS, FiniteSetTheorems, SequenceTheorems, WellFoundedInduction

\* What is proved of the run journal, for the journal of this run.
Theory == INSTANCE RunJournalProofs WITH
  StageIds <- Stages, NoStage <- None, MaxAttempts <- 1, MaxRecords <- 2 * Cardinality(Stages) + 2,
  dependencies <- plan, lines <- file, partial <- torn, lifecycle <- life,
  poisoned <- failed, sealed <- closed, producing <- alive

SchedulerAssumption == Journal!NoneAssumption /\ OrderAssumption /\ ResourceAssumption

(***************************************************************************)
(* The journal is the one whose theory is used.                            *)
(***************************************************************************)
LEMMA SameRecord ==
  /\ Journal!Record = Theory!Record /\ Journal!Genesis = Theory!Genesis
  /\ Journal!Lifecycle = Theory!Lifecycle
  /\ Journal!Active = Theory!Active /\ Journal!Success = Theory!Success /\ Journal!Terminal = Theory!Terminal
  /\ \A state : Journal!RunRecord(state) = Theory!RunRecord(state)
  /\ \A s, state, n : Journal!StageRecord(s, state, n) = Theory!StageRecord(s, state, n)
<1>1. Journal!Active = Theory!Active /\ Journal!Success = Theory!Success /\ Journal!Terminal = Theory!Terminal
  BY DEF Journal!Active, Theory!Active, Journal!Success, Theory!Success, Journal!Terminal, Theory!Terminal
<1>2. \A state : Journal!RunRecord(state) = Theory!RunRecord(state)
  BY DEF Journal!RunRecord, Theory!RunRecord
<1>3. \A s, state, n : Journal!StageRecord(s, state, n) = Theory!StageRecord(s, state, n)
  BY DEF Journal!StageRecord, Theory!StageRecord
<1>4. Journal!Record = Theory!Record
  BY <1>1, <1>2, <1>3 DEF Journal!Record, Theory!Record
<1>5. Journal!Genesis = Theory!Genesis
  BY DEF Journal!Genesis, Theory!Genesis
<1>6. Journal!Lifecycle = Theory!Lifecycle
  BY <1>1, Zenon DEF Journal!Lifecycle, Theory!Lifecycle
<1> QED BY <1>1, <1>2, <1>3, <1>4, <1>5, <1>6

LEMMA SameAccept ==
  /\ \A l, deps, rec : Journal!Acceptable(l, deps, rec) <=> Theory!Acceptable(l, deps, rec)
  /\ \A l, rec : Journal!Advance(l, rec) = Theory!Advance(l, rec)
<1>1. \A l, deps, s : Journal!DependenciesMet(l, deps, s) <=> Theory!DependenciesMet(l, deps, s)
  BY SameRecord, Zenon DEF Journal!DependenciesMet, Theory!DependenciesMet
<1>2. \A p : Journal!ExpectedAttempt(p) = Theory!ExpectedAttempt(p)
  BY SameRecord, Zenon DEF Journal!ExpectedAttempt, Theory!ExpectedAttempt
<1>3. \A l : Journal!AllComplete(l) <=> Theory!AllComplete(l)
  BY SameRecord, Zenon DEF Journal!AllComplete, Theory!AllComplete
<1>4. \A l, deps, rec : Journal!AcceptableStage(l, deps, rec) <=> Theory!AcceptableStage(l, deps, rec)
  BY <1>1, <1>2, SameRecord DEF Journal!AcceptableStage, Theory!AcceptableStage
<1>5. \A l, deps, rec : Journal!Acceptable(l, deps, rec) <=> Theory!Acceptable(l, deps, rec)
  BY <1>3, <1>4, SameRecord DEF Journal!Acceptable, Theory!Acceptable
<1>6. \A l, rec : Journal!Advance(l, rec) = Theory!Advance(l, rec)
  BY DEF Journal!Advance, Theory!Advance
<1> QED BY <1>5, <1>6

LEMMA SameReplay == Journal!Replay = Theory!Replay
<1> DEFINE StepJ(f) == [n \in 0..Len(file) |-> IF n = 0 THEN Journal!Genesis ELSE Journal!Advance(f[n - 1], file[n])]
           StepT(f) == [n \in 0..Len(file) |-> IF n = 0 THEN Theory!Genesis ELSE Theory!Advance(f[n - 1], file[n])]
<1>1. Journal!Replay = CHOOSE f : f = StepJ(f)
  BY Zenon DEF Journal!Replay
<1>2. Theory!Replay = CHOOSE f : f = StepT(f)
  BY Zenon DEF Theory!Replay
<1>3. ASSUME NEW f PROVE StepJ(f) = StepT(f)
  BY SameRecord, SameAccept
<1> HIDE DEF StepJ, StepT
<1> QED BY <1>1, <1>2, <1>3, Zenon

LEMMA SameInvariant == Journal!JournalInv <=> Theory!JournalInv
<1>1. Journal!Replayable <=> Theory!Replayable
  BY SameAccept, SameReplay DEF Journal!Replayable, Theory!Replayable
<1>2. Journal!ReplayFaithful <=> Theory!ReplayFaithful
  BY <1>1, SameReplay DEF Journal!ReplayFaithful, Theory!ReplayFaithful
<1>3. Journal!JournalTypeOK <=> Theory!JournalTypeOK
  BY SameRecord DEF Journal!JournalTypeOK, Theory!JournalTypeOK
<1> QED BY <1>2, <1>3 DEF Journal!JournalInv, Theory!JournalInv

LEMMA SameInvariantNext == Journal!JournalInv' <=> Theory!JournalInv'
  BY SameInvariant, PTL

LEMMA SameSteps ==
  /\ \A rec : Journal!Persist(rec) <=> Theory!Persist(rec)
  /\ \A rec : Journal!Break(rec) <=> Theory!Break(rec)
  /\ Journal!Refuse <=> Theory!Refuse
  /\ Journal!JournalCrash <=> Theory!JournalCrash
<1>1. Journal!Writable <=> Theory!Writable
  BY DEF Journal!Writable, Theory!Writable
<1>2. \A rec : Journal!Persist(rec) <=> Theory!Persist(rec)
  BY <1>1, SameAccept DEF Journal!Persist, Theory!Persist
<1>3. \A rec : Journal!Break(rec) <=> Theory!Break(rec)
  BY <1>1, SameAccept DEF Journal!Break, Theory!Break
<1>4. Journal!Refuse <=> Theory!Refuse
  BY DEF Journal!Refuse, Theory!Refuse, Journal!writerVars, Theory!writerVars
<1>5. Journal!JournalCrash <=> Theory!JournalCrash
  BY <1>1 DEF Journal!JournalCrash, Theory!JournalCrash
<1> QED BY <1>2, <1>3, <1>4, <1>5

(***************************************************************************)
(* Recursive functions over an interval, and sums over a finite set.       *)
(***************************************************************************)
IsRecursive(f, N, V, base, G) ==
  f \in [0..N -> V] /\ f[0] = base /\ \A n \in 1..N : f[n] = G[n][f[n - 1]]

LEMMA Recursion ==
  ASSUME NEW N \in Nat, NEW V, NEW base \in V, NEW G \in [1..N -> [V -> V]]
  PROVE  \E f : IsRecursive(f, N, V, base, G)
<1> DEFINE Is(f, m) == IsRecursive(f, m, V, base, G)
           T == {m \in 0..N : \E f : Is(f, m)}
<1>1. 0 \in T
  <2> DEFINE h == [n \in 0..0 |-> base]
  <2>1. h \in [0..0 -> V] /\ h[0] = base /\ ~\E n \in 1..0 : TRUE
    OBVIOUS
  <2> HIDE DEF h
  <2>2. Is(h, 0)
    BY <2>1, Zenon DEF IsRecursive
  <2> QED BY <2>2
<1>2. ASSUME NEW m \in 0..N-1, m \in T PROVE m + 1 \in T
  <2>1. PICK f : f \in [0..m -> V] /\ f[0] = base /\ \A n \in 1..m : f[n] = G[n][f[n - 1]]
    BY <1>2 DEF IsRecursive
  <2> DEFINE g == [n \in 0..m+1 |-> IF n <= m THEN f[n] ELSE G[m + 1][f[m]]]
  <2>2. f[m] \in V /\ m + 1 \in 1..N
    BY <2>1
  <2>3. g \in [0..m+1 -> V] /\ g[0] = base
    BY <2>1, <2>2
  <2>4. ASSUME NEW n \in 1..m+1 PROVE g[n] = G[n][g[n - 1]]
    <3>1. CASE n <= m
      <4>1. n \in 1..m /\ g[n] = f[n] /\ g[n - 1] = f[n - 1]
        BY <3>1
      <4> HIDE DEF g
      <4> QED BY <2>1, <4>1
    <3>2. CASE n = m + 1
      <4>1. g[n] = G[m + 1][f[m]] /\ g[m] = f[m] /\ n - 1 = m
        BY <3>2
      <4> HIDE DEF g
      <4> QED BY <3>2, <4>1
    <3> QED BY <3>1, <3>2
  <2>5. Is(g, m + 1)
    BY <2>3, <2>4 DEF IsRecursive
  <2>6. m + 1 \in 0..N
    OBVIOUS
  <2> HIDE DEF Is, g
  <2> QED BY <2>5, <2>6
<1>3. 0..N \subseteq T
  <2> HIDE DEF T
  <2> QED BY <1>1, <1>2, Theory!UpToInduction
<1> QED BY <1>3

\* The element that a sum over s takes first.
Chosen(s) == CHOOSE x \in s : TRUE

\* g sums the weights w over every subset of S.
Sums(g, S, w) ==
  \A s \in SUBSET S : g[s] = IF s = {} THEN 0 ELSE w[Chosen(s)] + g[s \ {Chosen(s)}]

IsSum(g, S, w) == g \in [SUBSET S -> Nat] /\ Sums(g, S, w)

LEMMA ChosenFact ==
  ASSUME NEW S, IsFiniteSet(S), NEW s \in SUBSET S, s # {}
  PROVE  /\ Chosen(s) \in s /\ s \ {Chosen(s)} \in SUBSET S
         /\ IsFiniteSet(s) /\ Cardinality(s) \in Nat /\ Cardinality(s) > 0
         /\ \A x \in s : Cardinality(s \ {x}) = Cardinality(s) - 1
<1>1. Chosen(s) \in s
  BY Zenon DEF Chosen
<1>2. IsFiniteSet(s) /\ Cardinality(s) \in Nat
  BY FS_Subset, FS_CardinalityType
<1>3. Cardinality(s) # 0
  BY <1>2, FS_EmptySet
<1>4. \A x \in s : Cardinality(s \ {x}) = Cardinality(s) - 1
  BY <1>2, FS_RemoveElement
<1> QED BY <1>1, <1>2, <1>3, <1>4

LEMMA SumExists ==
  ASSUME NEW S, IsFiniteSet(S), NEW w \in [S -> Nat]
  PROVE  \E g : IsSum(g, S, w)
<1> DEFINE N == Cardinality(S)
           V == [SUBSET S -> Nat]
           More(h) == [s \in SUBSET S |-> IF s = {} THEN 0 ELSE w[Chosen(s)] + h[s \ {Chosen(s)}]]
           G == [n \in 1..N |-> [h \in V |-> More(h)]]
           Zero == [s \in SUBSET S |-> 0]
<1>1. N \in Nat
  BY FS_CardinalityType
<1>2. ASSUME NEW h \in V PROVE More(h) \in V
  <2>1. ASSUME NEW s \in SUBSET S, s # {} PROVE w[Chosen(s)] + h[s \ {Chosen(s)}] \in Nat
    <3>1. Chosen(s) \in S /\ s \ {Chosen(s)} \in SUBSET S
      BY <2>1, ChosenFact
    <3>2. w[Chosen(s)] \in Nat /\ h[s \ {Chosen(s)}] \in Nat
      BY <3>1
    <3> QED BY <3>2
  <2> QED BY <2>1
<1>3. Zero \in V /\ G \in [1..N -> [V -> V]]
  <2> HIDE DEF More, V
  <2>1. G \in [1..N -> [V -> V]]
    BY <1>2
  <2> QED BY <2>1 DEF V
<1>4. PICK f : f \in [0..N -> V] /\ f[0] = Zero /\ \A n \in 1..N : f[n] = G[n][f[n - 1]]
  <2> HIDE DEF N, V, G, Zero
  <2>1. PICK f : IsRecursive(f, N, V, Zero, G)
    BY <1>1, <1>3, Recursion
  <2> QED BY <2>1 DEF IsRecursive
<1>5. \A n \in 1..N : f[n] = More(f[n - 1])
  <2>1. ASSUME NEW n \in 1..N PROVE f[n] = More(f[n - 1])
    <3>1. n - 1 \in 0..N
      BY <1>1
    <3>2. f[n - 1] \in V
      BY <1>4, <3>1
    <3> HIDE DEF V, More
    <3>4. G[n][f[n - 1]] = More(f[n - 1])
      BY <3>2
    <3> QED BY <1>4, <3>4
  <2> QED BY <2>1
<1> DEFINE g == [s \in SUBSET S |-> f[Cardinality(s)][s]]
<1>6. ASSUME NEW s \in SUBSET S PROVE Cardinality(s) \in 0..N /\ f[Cardinality(s)] \in V
  <2>1. Cardinality(s) \in 0..N
    BY <1>1, FS_Subset, FS_CardinalityType
  <2> HIDE DEF V, N
  <2> QED BY <1>4, <2>1
<1>7. g \in [SUBSET S -> Nat]
  BY <1>6
<1>8. ASSUME NEW s \in SUBSET S PROVE g[s] = IF s = {} THEN 0 ELSE w[Chosen(s)] + g[s \ {Chosen(s)}]
  <2>1. CASE s = {}
    <3>1. Cardinality(s) = 0
      BY <2>1, FS_EmptySet
    <3>2. g[s] = Zero[s]
      BY <1>4, <3>1
    <3> QED BY <2>1, <3>2
  <2>2. CASE s # {}
    <3> DEFINE t == s \ {Chosen(s)}
               n == Cardinality(s)
    <3>1. t \in SUBSET S /\ n > 0 /\ Cardinality(t) = n - 1
      BY <2>2, ChosenFact
    <3>2. n \in 1..N
      BY <1>6, <3>1
    <3>3. f[n] = More(f[n - 1])
      BY <1>5, <3>2
    <3>4. f[n][s] = w[Chosen(s)] + f[n - 1][t]
      BY <2>2, <3>3
    <3>5. g[s] = f[n][s] /\ g[t] = f[n - 1][t]
      BY <3>1
    <3> QED BY <2>2, <3>4, <3>5
  <2> QED BY <2>1, <2>2
<1> HIDE DEF g
<1> QED BY <1>7, <1>8 DEF IsSum, Sums

\* Whatever is taken first, a sum is an element's weight and the sum of the rest.
LEMMA SumRemove ==
  ASSUME NEW S, IsFiniteSet(S), NEW w \in [S -> Nat], NEW g, IsSum(g, S, w)
  PROVE  \A s \in SUBSET S : \A x \in s : g[s] = w[x] + g[s \ {x}]
<1> DEFINE N == Cardinality(S)
           P(s) == \A x \in s : g[s] = w[x] + g[s \ {x}]
           T == {n \in 0..N : \A s \in SUBSET S : Cardinality(s) = n => P(s)}
<1>0. N \in Nat /\ \A s \in SUBSET S : IsFiniteSet(s) /\ Cardinality(s) \in 0..N
  BY FS_Subset, FS_CardinalityType
<1>1. 0 \in T
  BY <1>0, FS_EmptySet
<1>2. ASSUME NEW n \in 0..N-1, n \in T PROVE n + 1 \in T
  <2>1. ASSUME NEW s \in SUBSET S, Cardinality(s) = n + 1, NEW x \in s
        PROVE  g[s] = w[x] + g[s \ {x}]
    <3> DEFINE c == Chosen(s)
               t == s \ {c}
               u == s \ {x}
    <3>1. s # {} /\ c \in s /\ t \in SUBSET S /\ u \in SUBSET S
      BY ChosenFact
    <3>2. Cardinality(t) = n /\ Cardinality(u) = n
      <4>1. \A y \in s : Cardinality(s \ {y}) = Cardinality(s) - 1
        BY <3>1, ChosenFact
      <4>2. (n + 1) - 1 = n
        BY <1>0
      <4> QED BY <2>1, <3>1, <4>1, <4>2
    <3>3. g[s] = w[c] + g[t]
      BY <3>1 DEF IsSum, Sums
    <3>4. CASE x = c
      BY <3>3, <3>4
    <3>5. CASE x # c
      <4>1. x \in t /\ c \in u /\ t \ {x} = u \ {c} /\ t \ {x} \in SUBSET S
        BY <3>1, <3>5
      <4>2. P(t) /\ P(u)
        BY <1>2, <3>1, <3>2
      <4>3. g[t] = w[x] + g[t \ {x}] /\ g[u] = w[c] + g[t \ {x}]
        BY <4>1, <4>2
      <4>4. w[x] \in Nat /\ w[c] \in Nat /\ g[t \ {x}] \in Nat
        BY <3>1, <4>1 DEF IsSum, Sums
      <4> HIDE DEF t, u, c
      <4> QED BY <3>3, <4>3, <4>4 DEF u
    <3> QED BY <3>4, <3>5
  <2> QED BY <1>0, <2>1
<1>3. 0..N \subseteq T
  <2> HIDE DEF T, N
  <2> QED BY <1>0, <1>1, <1>2, Theory!UpToInduction
<1> QED BY <1>0, <1>3

\* Fewer elements do not weigh more.
LEMMA SumMono ==
  ASSUME NEW S, IsFiniteSet(S), NEW w \in [S -> Nat], NEW g, IsSum(g, S, w)
  PROVE  \A s \in SUBSET S : \A r \in SUBSET s : g[r] <= g[s]
<1> DEFINE N == Cardinality(S)
           P(s) == \A r \in SUBSET s : g[r] <= g[s]
           T == {n \in 0..N : \A s \in SUBSET S : Cardinality(s) = n => P(s)}
<1>0. N \in Nat /\ \A s \in SUBSET S : IsFiniteSet(s) /\ Cardinality(s) \in 0..N
  BY FS_Subset, FS_CardinalityType
<1>a. \A s \in SUBSET S : g[s] \in Nat
  BY DEF IsSum, Sums
<1>1. 0 \in T
  <2>1. ASSUME NEW s \in SUBSET S, Cardinality(s) = 0 PROVE P(s)
    <3>1. s = {}
      BY <1>0, <2>1, FS_EmptySet
    <3>2. ASSUME NEW r \in SUBSET s PROVE g[r] <= g[s]
      <4>1. r = s /\ g[s] \in Nat
        BY <1>a, <3>1
      <4> QED BY <4>1
    <3> QED BY <3>2
  <2> QED BY <1>0, <2>1
<1>2. ASSUME NEW n \in 0..N-1, n \in T PROVE n + 1 \in T
  <2>1. ASSUME NEW s \in SUBSET S, Cardinality(s) = n + 1, NEW r \in SUBSET s
        PROVE  g[r] <= g[s]
    <3>1. CASE r = s
      BY <1>a, <3>1
    <3>2. CASE r # s
      <4>1. PICK x \in s : x \notin r
        BY <3>2
      <4> DEFINE t == s \ {x}
      <4>2. t \in SUBSET S /\ r \in SUBSET t
        BY <4>1
      <4>3. Cardinality(t) = n
        <5>1. Cardinality(t) = Cardinality(s) - 1
          BY <4>1, ChosenFact
        <5> QED BY <1>0, <2>1, <5>1
      <4>4. g[r] <= g[t]
        BY <1>2, <4>2, <4>3
      <4>5. g[s] = w[x] + g[t]
        BY <4>1, SumRemove
      <4>6. w[x] \in Nat /\ g[r] \in Nat /\ g[t] \in Nat
        BY <1>a, <4>1, <4>2
      <4> HIDE DEF t
      <4> QED BY <4>4, <4>5, <4>6
    <3> QED BY <3>1, <3>2
  <2> QED BY <1>0, <2>1
<1>3. 0..N \subseteq T
  <2> HIDE DEF T, N
  <2> QED BY <1>0, <1>1, <1>2, Theory!UpToInduction
<1> QED BY <1>0, <1>3

\* A sum does not depend on the set it is a part of.
LEMMA SumSame ==
  ASSUME NEW S, IsFiniteSet(S), NEW w, NEW g, Sums(g, S, w),
         NEW R \in SUBSET S, NEW h, Sums(h, R, w)
  PROVE  \A s \in SUBSET R : h[s] = g[s]
<1> DEFINE N == Cardinality(R)
           T == {n \in 0..N : \A s \in SUBSET R : Cardinality(s) = n => h[s] = g[s]}
<1>0. IsFiniteSet(R) /\ N \in Nat /\ \A s \in SUBSET R : IsFiniteSet(s) /\ Cardinality(s) \in 0..N
  BY FS_Subset, FS_CardinalityType
<1>1. 0 \in T
  <2>1. ASSUME NEW s \in SUBSET R, Cardinality(s) = 0 PROVE h[s] = g[s]
    <3>1. s = {}
      BY <1>0, <2>1, FS_EmptySet
    <3> QED BY <3>1 DEF Sums
  <2> QED BY <1>0, <2>1
<1>2. ASSUME NEW n \in 0..N-1, n \in T PROVE n + 1 \in T
  <2>1. ASSUME NEW s \in SUBSET R, Cardinality(s) = n + 1 PROVE h[s] = g[s]
    <3> DEFINE c == Chosen(s)
               t == s \ {c}
    <3>1. s # {}
      BY <1>0, <2>1, FS_EmptySet
    <3>2. t \in SUBSET R /\ Cardinality(t) = n
      <4>1. t \in SUBSET R /\ c \in s
        BY <1>0, <3>1, ChosenFact
      <4>2. Cardinality(t) = Cardinality(s) - 1
        BY <1>0, <3>1, <4>1, ChosenFact
      <4> QED BY <1>0, <2>1, <4>1, <4>2
    <3>3. h[t] = g[t]
      BY <1>2, <3>2
    <3>4. h[s] = w[c] + h[t] /\ g[s] = w[c] + g[t]
      BY <3>1 DEF Sums
    <3> QED BY <3>3, <3>4
  <2> QED BY <1>0, <2>1
<1>3. 0..N \subseteq T
  <2> HIDE DEF T, N
  <2> QED BY <1>0, <1>1, <1>2, Theory!UpToInduction
<1> QED BY <1>0, <1>3

LEMMA StagesFinite ==
  ASSUME OrderAssumption
  PROVE  IsFiniteSet(Stages) /\ Len(Order) \in Nat /\ \A i \in 1..Len(Order) : Order[i] \in Stages
<1>1. Order \in Seq(Stages) /\ Len(Order) \in Nat /\ DOMAIN Order = 1..Len(Order)
  BY DEF OrderAssumption
<1>2. IsFiniteSet({Order[i] : i \in 1..Len(Order)})
  <2>1. IsFiniteSet(1..Len(Order))
    BY <1>1, FS_Interval
  <2> DEFINE f == [i \in 1..Len(Order) |-> Order[i]]
  <2>2. f \in Surjection(1..Len(Order), {Order[i] : i \in 1..Len(Order)})
    BY DEF Surjection
  <2> QED BY <2>1, <2>2, FS_Surjection
<1> QED BY <1>1, <1>2 DEF OrderAssumption

LEMMA ReservedFact ==
  ASSUME OrderAssumption, ResourceAssumption, NEW d \in Dims
  PROVE  \E g : /\ IsSum(g, Stages, [k \in Stages |-> Cost[k][d]])
                /\ \A S \in SUBSET Stages : Reserved(S, d) = g[S]
<1> DEFINE w == [k \in Stages |-> Cost[k][d]]
<1>1. w \in [Stages -> Nat]
  BY DEF ResourceAssumption
<1>2. PICK g : IsSum(g, Stages, w)
  <2> HIDE DEF w
  <2> QED BY <1>1, SumExists, StagesFinite
<1>3. ASSUME NEW S \in SUBSET Stages PROVE Reserved(S, d) = g[S]
  <2> DEFINE More(h) == [s \in SUBSET S |-> IF s = {} THEN 0 ELSE Cost[CHOOSE x \in s : TRUE][d] + h[s \ {CHOOSE x \in s : TRUE}]]
             iter == CHOOSE h : h = More(h)
  <2>1. Reserved(S, d) = iter[S]
    BY Zenon DEF Reserved, MapThenSumSet, MapThenFoldSet
  <2>2. PICK h : IsSum(h, S, w)
    <3>1. IsFiniteSet(S)
      BY StagesFinite, FS_Subset
    <3> DEFINE v == [k \in S |-> Cost[k][d]]
    <3>2. v \in [S -> Nat] /\ \A k \in S : v[k] = w[k]
      BY DEF ResourceAssumption
    <3> HIDE DEF v
    <3>3. PICK h : IsSum(h, S, v)
      BY <3>1, <3>2, SumExists
    <3>4. ASSUME NEW s \in SUBSET S, s # {} PROVE v[Chosen(s)] = w[Chosen(s)]
      BY <3>1, <3>2, <3>4, ChosenFact
    <3> HIDE DEF w
    <3>5. IsSum(h, S, w)
      BY <3>3, <3>4 DEF IsSum, Sums
    <3> QED BY <3>5
  <2>3. h = More(h)
    <3>1. ASSUME NEW s \in SUBSET S, s # {} PROVE w[Chosen(s)] = Cost[Chosen(s)][d]
      <4>1. Chosen(s) \in s
        BY <3>1, Zenon DEF Chosen
      <4> QED BY <4>1
    <3> HIDE DEF w
    <3>2. \A s \in SUBSET S : h[s] = IF s = {} THEN 0 ELSE Cost[Chosen(s)][d] + h[s \ {Chosen(s)}]
      BY <2>2, <3>1 DEF IsSum, Sums
    <3>3. h = [s \in SUBSET S |-> h[s]]
      BY <2>2 DEF IsSum, Sums
    <3> QED BY <3>2, <3>3 DEF Chosen
  <2>4. iter = More(iter)
    <3> HIDE DEF More
    <3> QED BY <2>3
  <2>5. Sums(iter, S, w)
    <3> HIDE DEF iter
    <3>1. \A s \in SUBSET S : iter[s] = IF s = {} THEN 0 ELSE Cost[Chosen(s)][d] + iter[s \ {Chosen(s)}]
      BY <2>4 DEF Chosen
    <3>2. ASSUME NEW s \in SUBSET S, s # {} PROVE w[Chosen(s)] = Cost[Chosen(s)][d]
      <4>1. Chosen(s) \in s
        BY <3>2, Zenon DEF Chosen
      <4> QED BY <4>1
    <3> HIDE DEF w
    <3> QED BY <3>1, <3>2 DEF Sums
  <2>6. iter[S] = g[S]
    <3>1. Sums(g, Stages, w)
      BY <1>2 DEF IsSum
    <3> HIDE DEF iter, w
    <3> QED BY <2>5, <3>1, SumSame, StagesFinite
  <2> QED BY <2>1, <2>6
<1> QED BY <1>2, <1>3

(***************************************************************************)
(* Admission.                                                              *)
(***************************************************************************)
\* One stage considered.
Grow(S, s) == IF s \in pending /\ Cardinality(S) < Workers /\ FitsAlongside(S, s) THEN S \cup {s} ELSE S

\* f collects the batch in the order of the identifiers.
Collects(f) ==
  /\ f \in [0..Len(Order) -> SUBSET Stages] /\ f[0] = {}
  /\ \A n \in 1..Len(Order) : f[n] = Grow(f[n - 1], Order[n])
  /\ Admitted = f[Len(Order)]

LEMMA AdmittedFact ==
  ASSUME OrderAssumption, pending \subseteq Stages
  PROVE  \E f : Collects(f)
<1> DEFINE N == Len(Order)
           V == SUBSET Stages
           G == [n \in 1..N |-> [S \in V |-> Grow(S, Order[n])]]
           Unfold(f) == [n \in 0..N |-> IF n = 0 THEN {} ELSE Grow(f[n - 1], Order[n])]
<1>1. N \in Nat /\ \A n \in 1..N : Order[n] \in Stages
  BY StagesFinite
<1>2. {} \in V /\ G \in [1..N -> [V -> V]]
  BY <1>1 DEF Grow
<1>3. PICK f : f \in [0..N -> V] /\ f[0] = {} /\ \A n \in 1..N : f[n] = Grow(f[n - 1], Order[n])
  <2>1. PICK f : IsRecursive(f, N, V, {}, G)
    <3> HIDE DEF N, V, G
    <3> QED BY <1>1, <1>2, Recursion
  <2>2. f \in [0..N -> V] /\ f[0] = {} /\ \A n \in 1..N : f[n] = G[n][f[n - 1]]
    BY <2>1 DEF IsRecursive
  <2>3. ASSUME NEW n \in 1..N PROVE f[n] = Grow(f[n - 1], Order[n])
    <3>1. n - 1 \in 0..N
      BY <1>1
    <3>2. f[n - 1] \in V
      BY <2>2, <3>1
    <3> HIDE DEF V
    <3> QED BY <2>2, <3>2
  <2> QED BY <2>2, <2>3
<1>4. f = Unfold(f)
  <2>1. ASSUME NEW n \in 0..N PROVE f[n] = Unfold(f)[n]
    <3>1. Unfold(f)[n] = IF n = 0 THEN {} ELSE Grow(f[n - 1], Order[n])
      OBVIOUS
    <3>2. n = 0 \/ n \in 1..N
      BY <1>1
    <3> HIDE DEF Unfold
    <3> QED BY <1>3, <3>1, <3>2
  <2>2. f = [n \in 0..N |-> f[n]]
    BY <1>3
  <2> QED BY <2>1, <2>2
<1> DEFINE g == CHOOSE h : h = Unfold(h)
<1>5. Admitted = g[N]
  BY DEF Admitted, Grow
<1>6. g = Unfold(g)
  <2> HIDE DEF Unfold
  <2> QED BY <1>4
<1>7. g[0] = {} /\ \A n \in 1..N : g[n] = Grow(g[n - 1], Order[n])
  <2> HIDE DEF g
  <2>1. ASSUME NEW n \in 0..N PROVE g[n] = IF n = 0 THEN {} ELSE Grow(g[n - 1], Order[n])
    <3>1. Unfold(g)[n] = IF n = 0 THEN {} ELSE Grow(g[n - 1], Order[n])
      OBVIOUS
    <3> HIDE DEF Unfold
    <3> QED BY <1>6, <3>1
  <2> HIDE DEF Unfold, N
  <2> QED BY <1>1, <2>1
<1>8. 0..N \subseteq {n \in 0..N : g[n] = f[n]}
  <2> HIDE DEF g
  <2> DEFINE T == {n \in 0..N : g[n] = f[n]}
  <2>1. 0 \in T
    <3>1. g[0] = f[0] /\ 0 \in 0..N
      BY <1>1, <1>3, <1>7
    <3> QED BY <3>1
  <2>2. ASSUME NEW n \in 0..N-1, n \in T PROVE n + 1 \in T
    <3>1. n + 1 \in 1..N /\ n + 1 \in 0..N /\ (n + 1) - 1 = n
      BY <1>1
    <3>2. g[n + 1] = Grow(g[n], Order[n + 1]) /\ f[n + 1] = Grow(f[n], Order[n + 1])
      BY <1>3, <1>7, <3>1
    <3> QED BY <2>2, <3>1, <3>2
  <2> HIDE DEF T, N
  <2>3. 0..N \subseteq T
    BY <1>1, <2>1, <2>2, Theory!UpToInduction
  <2> QED BY <2>3 DEF T
<1>9. g[N] = f[N]
  BY <1>1, <1>8
<1> HIDE DEF g
<1>10. Collects(f)
  BY <1>3, <1>5, <1>9 DEF Collects
<1> QED BY <1>10

\* A batch is chosen among the waiting stages and within both limits.
LEMMA AdmittedFits ==
  ASSUME OrderAssumption, ResourceAssumption, pending \subseteq Stages, budget \in Budgets
  PROVE  /\ Admitted \subseteq pending /\ Cardinality(Admitted) <= Workers
         /\ \A d \in Dims : budget[d] > 0 => Reserved(Admitted, d) <= budget[d]
<1> DEFINE N == Len(Order)
           Fits(S) == /\ S \subseteq pending /\ Cardinality(S) <= Workers
                      /\ \A d \in Dims : budget[d] > 0 => Reserved(S, d) <= budget[d]
<1>1. PICK f : Collects(f)
  BY AdmittedFact
<1>2. N \in Nat /\ IsFiniteSet(Stages) /\ Workers \in Nat /\ Workers > 0 /\ budget \in [Dims -> Nat]
  BY StagesFinite DEF ResourceAssumption
<1> DEFINE T == {n \in 0..N : Fits(f[n])}
<1>3. 0 \in T
  <2>1. Cardinality({}) = 0
    BY FS_EmptySet
  <2>2. ASSUME NEW d \in Dims PROVE Reserved({}, d) <= budget[d]
    <3>1. Reserved({}, d) = 0
      BY ReservedFact DEF IsSum, Sums
    <3> QED BY <1>2, <3>1
  <2>3. Fits({})
    BY <1>2, <2>1, <2>2
  <2>4. f[0] = {} /\ 0 \in 0..N
    BY <1>1, <1>2 DEF Collects
  <2> HIDE DEF Fits
  <2> QED BY <2>3, <2>4
<1>4. ASSUME NEW n \in 0..N-1, n \in T PROVE n + 1 \in T
  <2>1. n + 1 \in 1..N /\ n + 1 \in 0..N /\ (n + 1) - 1 = n /\ n \in 0..N
    BY <1>2
  <2> DEFINE S == f[n]
             s == Order[n + 1]
  <2>2. f[n + 1] = Grow(S, s) /\ Fits(S) /\ S \subseteq Stages
    BY <1>1, <1>4, <2>1 DEF Collects
  <2> HIDE DEF S, s
  <2>3. CASE s \in pending /\ Cardinality(S) < Workers /\ FitsAlongside(S, s)
    <3>1. f[n + 1] = S \cup {s}
      BY <2>2, <2>3 DEF Grow
    <3>2. Cardinality(S \cup {s}) <= Workers
      <4>1. IsFiniteSet(S) /\ Cardinality(S) \in Nat
        BY <1>2, <2>2, FS_Subset, FS_CardinalityType
      <4>2. Cardinality(S \cup {s}) = Cardinality(S) \/ Cardinality(S \cup {s}) = Cardinality(S) + 1
        BY <4>1, FS_AddElement
      <4> QED BY <1>2, <2>3, <4>1, <4>2
    <3>3. \A d \in Dims : budget[d] > 0 => Reserved(S \cup {s}, d) <= budget[d]
      BY <2>3, Zenon DEF FitsAlongside
    <3>4. S \cup {s} \subseteq pending
      BY <2>2, <2>3
    <3> QED BY <2>1, <3>1, <3>2, <3>3, <3>4
  <2>4. CASE ~(s \in pending /\ Cardinality(S) < Workers /\ FitsAlongside(S, s))
    <3>1. f[n + 1] = S
      BY <2>2, <2>4 DEF Grow
    <3> HIDE DEF Fits
    <3> QED BY <2>1, <2>2, <3>1
  <2> QED BY <2>3, <2>4
<1>5. 0..N \subseteq T
  <2> HIDE DEF T, N
  <2> QED BY <1>2, <1>3, <1>4, Theory!UpToInduction
<1>6. Fits(Admitted)
  <2> HIDE DEF Fits
  <2> QED BY <1>1, <1>2, <1>5 DEF Collects
<1> QED BY <1>6

\* If every waiting stage fits alone, one is admitted.
LEMMA AdmittedSome ==
  ASSUME OrderAssumption, ResourceAssumption, pending \subseteq Stages, budget \in Budgets,
         pending # {}, \A s \in pending : ~Exceeds(s)
  PROVE  Admitted # {}
<1> DEFINE N == Len(Order)
<1>1. PICK f : Collects(f)
  BY AdmittedFact
<1>2. N \in Nat /\ Workers \in Nat /\ Workers > 0 /\ budget \in [Dims -> Nat]
  BY StagesFinite DEF ResourceAssumption
<1> DEFINE P(n) == f[n] # {} \/ \A i \in 1..n : Order[i] \notin pending
           T == {n \in 0..N : P(n)}
<1>3. 0 \in T
  BY <1>2
<1>4. ASSUME NEW n \in 0..N-1, n \in T PROVE n + 1 \in T
  <2>1. n + 1 \in 1..N /\ n + 1 \in 0..N /\ (n + 1) - 1 = n /\ n \in 0..N
    BY <1>2
  <2> DEFINE s == Order[n + 1]
  <2>2. f[n + 1] = Grow(f[n], s) /\ P(n)
    BY <1>1, <1>4, <2>1 DEF Collects
  <2>3. CASE f[n] # {}
    <3>1. f[n + 1] # {}
      BY <2>2, <2>3 DEF Grow
    <3> QED BY <2>1, <3>1
  <2>4. CASE f[n] = {} /\ s \in pending
    <3>1. FitsAlongside({}, s)
      <4>1. ASSUME NEW d \in Dims, budget[d] > 0 PROVE Reserved({} \cup {s}, d) <= budget[d]
        <5> DEFINE w == [k \in Stages |-> Cost[k][d]]
        <5>1. PICK g : IsSum(g, Stages, w) /\ \A S \in SUBSET Stages : Reserved(S, d) = g[S]
          BY ReservedFact
        <5>2. s \in Stages /\ {} \cup {s} = {s} /\ {s} \in SUBSET Stages /\ {s} # {} /\ {} \in SUBSET Stages
          BY <2>4
        <5>3. Chosen({s}) = s /\ {s} \ {s} = {}
          BY DEF Chosen
        <5>4. g[{s}] = Cost[s][d] + g[{}] /\ g[{}] = 0
          <6>1. w[s] = Cost[s][d]
            BY <5>2
          <6> HIDE DEF w, s
          <6> QED BY <5>1, <5>2, <5>3, <6>1 DEF IsSum, Sums
        <5>5. Cost[s][d] \in Nat /\ Cost[s][d] <= budget[d]
          BY <1>2, <2>4, <4>1, <5>2 DEF Exceeds, ResourceAssumption
        <5>6. Reserved({s}, d) = g[{s}]
          BY <5>1, <5>2
        <5> HIDE DEF w, s
        <5> QED BY <5>2, <5>4, <5>5, <5>6
      <4> QED BY <4>1, Zenon DEF FitsAlongside
    <3>2. Cardinality({}) < Workers
      BY <1>2, FS_EmptySet
    <3>3. f[n + 1] # {}
      BY <2>2, <2>4, <3>1, <3>2 DEF Grow
    <3> QED BY <2>1, <3>3
  <2>5. CASE f[n] = {} /\ s \notin pending
    <3>1. \A i \in 1..n+1 : i \in 1..n \/ i = n + 1
      BY <2>1
    <3>2. P(n + 1)
      BY <2>2, <2>5, <3>1
    <3> QED BY <2>1, <3>2
  <2> QED BY <2>3, <2>4, <2>5
<1>5. 0..N \subseteq T
  <2> HIDE DEF T, N
  <2> QED BY <1>2, <1>3, <1>4, Theory!UpToInduction
<1>6. P(N)
  <2> HIDE DEF P, N
  <2>1. N \in 0..N
    BY <1>2
  <2> QED BY <1>5, <2>1
<1>7. PICK i \in 1..N : Order[i] \in pending
  BY DEF OrderAssumption
<1> QED BY <1>1, <1>6, <1>7 DEF Collects

(***************************************************************************)
(* An acyclic plan always has a stage whose dependencies are complete.     *)
(***************************************************************************)
Closed(deps, C) == \A x \in C : deps[x] \subseteq C

\* One more step along the dependencies, from every stage.
Further(deps, h) == [s \in Stages |-> h[s] \cup UNION {deps[x] : x \in h[s]}]

\* f[n][s] are the stages that s reaches in at most n + 1 steps.
IsReach(f, deps) ==
  /\ f \in [0..Cardinality(Stages) -> [Stages -> SUBSET Stages]]
  /\ f[0] = [s \in Stages |-> deps[s]]
  /\ \A n \in 1..Cardinality(Stages) : f[n] = Further(deps, f[n - 1])

LEMMA SameCount == \A S : Journal!Cardinality(S) = Cardinality(S)
BY DEF Journal!Cardinality, Cardinality

LEMMA CycleFact ==
  ASSUME OrderAssumption, NEW deps \in [Stages -> SUBSET Stages]
  PROVE  \E f : /\ IsReach(f, deps)
                /\ Journal!HasCycle(deps) <=> \E s \in Stages : s \in f[Cardinality(Stages)][s]
<1> DEFINE N == Cardinality(Stages)
           V == [Stages -> SUBSET Stages]
           G == [n \in 1..N |-> [h \in V |-> Further(deps, h)]]
           first == [s \in Stages |-> deps[s]]
           Unfold(f) == [n \in 0..N |-> IF n = 0 THEN first ELSE Further(deps, f[n - 1])]
           g == CHOOSE h : h = Unfold(h)
<1>1. N \in Nat
  BY StagesFinite, FS_CardinalityType
<1>2. first \in V /\ G \in [1..N -> [V -> V]]
  BY DEF Further
<1>3. PICK f : f \in [0..N -> V] /\ f[0] = first /\ \A n \in 1..N : f[n] = Further(deps, f[n - 1])
  <2>1. PICK f : IsRecursive(f, N, V, first, G)
    <3> HIDE DEF N, V, G, first
    <3> QED BY <1>1, <1>2, Recursion
  <2>2. f \in [0..N -> V] /\ f[0] = first /\ \A n \in 1..N : f[n] = G[n][f[n - 1]]
    <3> HIDE DEF N, V, G, first
    <3> QED BY <2>1 DEF IsRecursive
  <2>3. ASSUME NEW n \in 1..N PROVE f[n] = Further(deps, f[n - 1])
    <3>1. n - 1 \in 0..N
      BY <1>1
    <3>2. f[n - 1] \in V
      BY <2>2, <3>1
    <3> HIDE DEF V, N
    <3> QED BY <2>2, <3>2
  <2> QED BY <2>2, <2>3
<1>4. f = Unfold(f)
  <2>1. ASSUME NEW n \in 0..N PROVE f[n] = Unfold(f)[n]
    <3>1. Unfold(f)[n] = IF n = 0 THEN first ELSE Further(deps, f[n - 1])
      OBVIOUS
    <3>2. n = 0 \/ n \in 1..N
      BY <1>1
    <3> HIDE DEF Unfold, first, N
    <3> QED BY <1>3, <3>1, <3>2
  <2>2. f = [n \in 0..N |-> f[n]]
    BY <1>3
  <2> QED BY <2>1, <2>2
<1>5. Journal!HasCycle(deps) <=> \E s \in Stages : s \in g[N][s]
  <2>1. Journal!Cardinality(Stages) = N
    BY SameCount
  <2> QED BY <2>1, Zenon DEF Journal!HasCycle, Further
<1>6. g = Unfold(g)
  <2> HIDE DEF Unfold
  <2> QED BY <1>4
<1> HIDE DEF g
<1>7. ASSUME NEW n \in 0..N PROVE g[n] = IF n = 0 THEN first ELSE Further(deps, g[n - 1])
  <2>1. Unfold(g)[n] = IF n = 0 THEN first ELSE Further(deps, g[n - 1])
    OBVIOUS
  <2> HIDE DEF Unfold
  <2> QED BY <1>6, <2>1
<1>8. 0..N \subseteq {n \in 0..N : g[n] = f[n]}
  <2> HIDE DEF first, N
  <2> DEFINE T == {n \in 0..N : g[n] = f[n]}
  <2>1. 0 \in T
    <3>1. g[0] = f[0] /\ 0 \in 0..N
      BY <1>1, <1>3, <1>7
    <3> QED BY <3>1
  <2>2. ASSUME NEW n \in 0..N-1, n \in T PROVE n + 1 \in T
    <3>1. n + 1 \in 1..N /\ n + 1 \in 0..N /\ (n + 1) - 1 = n /\ n + 1 # 0
      BY <1>1
    <3>2. g[n + 1] = Further(deps, g[n]) /\ f[n + 1] = Further(deps, f[n])
      BY <1>3, <1>7, <3>1
    <3> QED BY <2>2, <3>1, <3>2
  <2> HIDE DEF T
  <2>3. 0..N \subseteq T
    BY <1>1, <2>1, <2>2, Theory!UpToInduction
  <2> QED BY <2>3 DEF T
<1>9. g[N] = f[N]
  <2> HIDE DEF N
  <2> QED BY <1>1, <1>8
<1>10. IsReach(f, deps)
  BY <1>3 DEF IsReach
<1> QED BY <1>5, <1>9, <1>10

LEMMA ReachFacts ==
  ASSUME OrderAssumption, NEW deps \in [Stages -> SUBSET Stages], NEW f, IsReach(f, deps), NEW s \in Stages
  PROVE  LET R == f[Cardinality(Stages)][s] IN
         /\ R \subseteq Stages /\ deps[s] \subseteq R /\ Closed(deps, R)
         /\ \A C \in SUBSET Stages : deps[s] \subseteq C /\ Closed(deps, C) => R \subseteq C
<1> DEFINE N == Cardinality(Stages)
           r(n) == f[n][s]
<1>1. N \in Nat /\ IsFiniteSet(Stages)
  BY StagesFinite, FS_CardinalityType
<1>2. r(0) = deps[s]
  BY DEF IsReach
<1>3. ASSUME NEW n \in 0..N-1
      PROVE  /\ n \in 0..N /\ n + 1 \in 0..N /\ r(n) \subseteq Stages
             /\ r(n + 1) = r(n) \cup UNION {deps[x] : x \in r(n)}
  <2>1. n + 1 \in 1..N /\ n + 1 \in 0..N /\ n \in 0..N /\ (n + 1) - 1 = n
    BY <1>1
  <2>2. f[n + 1] = Further(deps, f[n])
    BY <2>1 DEF IsReach
  <2>3. r(n) \subseteq Stages
    BY <2>1 DEF IsReach
  <2> QED BY <2>1, <2>2, <2>3 DEF Further
<1>4. \A n \in 0..N : r(n) \subseteq Stages
  <2>1. f \in [0..N -> [Stages -> SUBSET Stages]]
    BY DEF IsReach
  <2>2. ASSUME NEW n \in 0..N PROVE r(n) \subseteq Stages
    <3>1. f[n] \in [Stages -> SUBSET Stages]
      BY <2>1
    <3> QED BY <3>1
  <2> QED BY <2>2
<1> DEFINE Grows(n) == deps[s] \subseteq r(n) /\ (Closed(deps, r(n)) \/ Cardinality(r(n)) >= n + 1)
           T == {n \in 0..N : Grows(n)}
<1> HIDE DEF r, N
<1>5. 0 \in T
  <2>1. CASE deps[s] = {}
    BY <1>1, <1>2, <2>1 DEF Closed
  <2>2. CASE deps[s] # {}
    <3>1. IsFiniteSet(deps[s]) /\ Cardinality(deps[s]) \in Nat /\ Cardinality(deps[s]) # 0
      BY <1>1, <2>2, FS_Subset, FS_CardinalityType, FS_EmptySet
    <3> QED BY <1>1, <1>2, <3>1
  <2> QED BY <2>1, <2>2
<1>6. ASSUME NEW n \in 0..N-1, n \in T PROVE n + 1 \in T
  <2>1. n \in Nat /\ n + 1 \in 0..N /\ Grows(n) /\ r(n) \subseteq Stages /\ r(n + 1) \subseteq Stages
    BY <1>1, <1>3, <1>4, <1>6
  <2>2. deps[s] \subseteq r(n + 1)
    BY <1>3, <2>1
  <2>3. CASE Closed(deps, r(n))
    <3>1. r(n + 1) = r(n)
      <4>1. UNION {deps[x] : x \in r(n)} \subseteq r(n)
        BY <2>3 DEF Closed
      <4> QED BY <1>3, <4>1
    <3> QED BY <2>1, <2>2, <2>3, <3>1
  <2>4. CASE ~Closed(deps, r(n)) /\ Cardinality(r(n)) >= n + 1
    <3>1. r(n) \subseteq r(n + 1) /\ r(n) # r(n + 1)
      BY <1>3, <2>1, <2>4 DEF Closed
    <3>2. IsFiniteSet(r(n + 1)) /\ Cardinality(r(n)) \in Nat /\ Cardinality(r(n + 1)) \in Nat
      BY <1>1, <2>1, FS_Subset, FS_CardinalityType
    <3>3. Cardinality(r(n)) < Cardinality(r(n + 1))
      BY <3>1, <3>2, FS_Subset
    <3>4. Cardinality(r(n + 1)) >= (n + 1) + 1
      BY <2>1, <2>4, <3>2, <3>3
    <3> QED BY <2>1, <2>2, <3>4
  <2> QED BY <2>1, <2>3, <2>4
<1>7. Grows(N)
  <2> HIDE DEF Grows
  <2>1. 0..N \subseteq T
    <3> HIDE DEF T
    <3> QED BY <1>1, <1>5, <1>6, Theory!UpToInduction
  <2> QED BY <1>1, <2>1
<1>8. Closed(deps, r(N)) /\ deps[s] \subseteq r(N) /\ r(N) \subseteq Stages
  <2>1. r(N) \subseteq Stages
    BY <1>1, <1>4
  <2>2. Cardinality(r(N)) <= N /\ Cardinality(r(N)) \in Nat
    BY <1>1, <2>1, FS_Subset, FS_CardinalityType DEF N
  <2> QED BY <1>1, <1>7, <2>1, <2>2
<1>9. ASSUME NEW C \in SUBSET Stages, deps[s] \subseteq C, Closed(deps, C) PROVE r(N) \subseteq C
  <2> DEFINE U == {n \in 0..N : r(n) \subseteq C}
  <2>1. 0 \in U
    BY <1>1, <1>2, <1>9
  <2>2. ASSUME NEW n \in 0..N-1, n \in U PROVE n + 1 \in U
    BY <1>3, <1>9, <2>2 DEF Closed
  <2>3. 0..N \subseteq U
    <3> HIDE DEF U
    <3> QED BY <1>1, <2>1, <2>2, Theory!UpToInduction
  <2> QED BY <1>1, <2>3
<1> QED BY <1>8, <1>9 DEF r, N

LEMMA SomeReady ==
  ASSUME OrderAssumption, plan \in [Stages -> SUBSET Stages], ~Journal!HasCycle(plan),
         completed \subseteq Stages, completed # Stages
  PROVE  Ready # {}
<1>1. PICK f : IsReach(f, plan) /\ (Journal!HasCycle(plan) <=> \E s \in Stages : s \in f[Cardinality(Stages)][s])
  BY CycleFact
<1> DEFINE R(s) == f[Cardinality(Stages)][s]
           U == Stages \ completed
<1>2. SUFFICES ASSUME Ready = {} PROVE FALSE
  OBVIOUS
<1>3. ASSUME NEW s \in Stages
      PROVE  /\ R(s) \subseteq Stages /\ plan[s] \subseteq R(s) /\ Closed(plan, R(s)) /\ s \notin R(s)
             /\ \A C \in SUBSET Stages : plan[s] \subseteq C /\ Closed(plan, C) => R(s) \subseteq C
             /\ Cardinality(R(s)) \in Nat /\ IsFiniteSet(R(s))
  <2>1. /\ R(s) \subseteq Stages /\ plan[s] \subseteq R(s) /\ Closed(plan, R(s))
        /\ \A C \in SUBSET Stages : plan[s] \subseteq C /\ Closed(plan, C) => R(s) \subseteq C
    BY <1>1, ReachFacts
  <2>2. s \notin R(s)
    BY <1>1
  <2>3. Cardinality(R(s)) \in Nat /\ IsFiniteSet(R(s))
    BY <2>1, StagesFinite, FS_Subset, FS_CardinalityType
  <2> QED BY <2>1, <2>2, <2>3
<1> HIDE DEF R
<1>4. ASSUME NEW s \in U PROVE \E t \in U : Cardinality(R(t)) < Cardinality(R(s))
  <2>1. PICK t \in plan[s] : t \notin completed
    BY <1>2 DEF Ready
  <2>2. t \in U /\ t \in R(s) /\ s \in Stages
    BY <1>3, <2>1
  <2>3. R(t) \subseteq R(s)
    <3>1. plan[t] \subseteq R(s) /\ R(s) \in SUBSET Stages /\ Closed(plan, R(s))
      BY <1>3, <2>2 DEF Closed
    <3> QED BY <1>3, <2>2, <3>1
  <2>4. R(t) # R(s)
    BY <1>3, <2>2
  <2>5. Cardinality(R(t)) < Cardinality(R(s))
    <3>1. /\ IsFiniteSet(R(s)) /\ Cardinality(R(s)) \in Nat /\ Cardinality(R(t)) \in Nat
      BY <1>3, <2>2
    <3>2. Cardinality(R(t)) <= Cardinality(R(s)) /\ Cardinality(R(t)) # Cardinality(R(s))
      BY <2>3, <2>4, <3>1, FS_Subset
    <3> QED BY <3>1, <3>2
  <2> QED BY <2>2, <2>5
<1> DEFINE T == {n \in Nat : \A s \in U : Cardinality(R(s)) >= n}
<1>5. 0 \in T
  BY <1>3
<1>6. ASSUME NEW n \in Nat, n \in T PROVE n + 1 \in T
  <2>1. ASSUME NEW s \in U PROVE Cardinality(R(s)) >= n + 1
    <3>1. PICK t \in U : Cardinality(R(t)) < Cardinality(R(s))
      BY <1>4
    <3>2. Cardinality(R(t)) >= n /\ Cardinality(R(t)) \in Nat /\ Cardinality(R(s)) \in Nat
      BY <1>3, <1>6
    <3> QED BY <3>1, <3>2
  <2> QED BY <2>1
<1>7. Nat \subseteq T
  <2> HIDE DEF T
  <2> QED BY <1>5, <1>6, Theory!NatSetInduction
<1>8. PICK s : s \in U
  OBVIOUS
<1>9. Cardinality(R(s)) \in Nat
  BY <1>3, <1>8
<1>10. Cardinality(R(s)) + 1 \in T
  BY <1>7, <1>9
<1> QED BY <1>8, <1>9, <1>10

(***************************************************************************)
(* The steps of the executor.                                              *)
(***************************************************************************)
LEMMA TheoryAssumption ==
  ASSUME SchedulerAssumption
  PROVE  Theory!JournalAssumption
<1>1. 2 * Cardinality(Stages) + 2 \in Nat
  BY StagesFinite, FS_CardinalityType DEF SchedulerAssumption
<1>2. Theory!NoneAssumption
  BY DEF SchedulerAssumption, Journal!NoneAssumption, Theory!NoneAssumption
<1> QED BY <1>1, <1>2 DEF Theory!JournalAssumption, Theory!BoundAssumption

\* What one Append, persisted or not, does to the journal.
Appended(rec, persisted) ==
  /\ Journal!JournalInv'
  /\ life' = IF persisted THEN Journal!Advance(life, rec) ELSE life
  /\ file' = Append(file, rec) \/ (~persisted /\ file' = file)

LEMMA AppendStep ==
  ASSUME SchedulerAssumption, Journal!JournalInv, alive, alive' = alive, plan' = plan, NEW rec \in Journal!Record,
         NEW persisted \in BOOLEAN, IF persisted THEN Appends(rec) ELSE AppendFails(rec)
  PROVE  Appended(rec, persisted)
<1>1. Theory!JournalInv /\ Theory!JournalAssumption /\ rec \in Theory!Record
  BY SameInvariant, TheoryAssumption, SameRecord
<1>2. Theory!WriterStep
  <2>1. \/ \E r \in Theory!Record : Theory!Persist(r) \/ Theory!Break(r)
        \/ Theory!Refuse
    BY <1>1, SameSteps DEF Appends, AppendFails
  <2> QED BY <2>1 DEF Theory!WriterStep
<1>3. Theory!JournalInv'
  BY <1>1, <1>2, Theory!WriterInv
<1>4. Journal!JournalInv'
  BY <1>3, SameInvariantNext
<1>5. CASE persisted
  BY <1>4, <1>5 DEF Appends, Journal!Persist, Appended
<1>6. CASE ~persisted
  <2>1. life' = life /\ (file' = file \/ file' = Append(file, rec))
    BY <1>6 DEF AppendFails, Journal!Break, Journal!Refuse, Journal!writerVars
  <2> QED BY <1>4, <1>6, <2>1 DEF Appended
<1> QED BY <1>5, <1>6

\* The journal does not change, or is only closed or abandoned.
LEMMA JournalRests ==
  ASSUME Journal!JournalInv, UNCHANGED <<plan, file, torn, life, failed>>, closed' \in BOOLEAN, alive' = alive
  PROVE  Journal!JournalInv'
<1>1. Theory!JournalInv
  BY SameInvariant
<1>2. alive \in BOOLEAN
  BY DEF Journal!JournalInv, Journal!JournalTypeOK
<1>3. Theory!JournalInv'
  BY <1>1, <1>2, Theory!QuietStep
<1> QED BY <1>3, SameInvariantNext

\* The journal's state at a glance.
LEMMA JournalTypes ==
  ASSUME SchedulerAssumption, Journal!JournalInv
  PROVE  /\ plan \in [Stages -> SUBSET Stages]
         /\ file \in Seq(Journal!Record) /\ Len(file) \in Nat
         /\ life \in Journal!Lifecycle
         /\ closed \in BOOLEAN /\ alive \in BOOLEAN
         /\ life.stages \in [Stages -> [state : Journal!Active \cup Journal!Success \cup {"", "failed", "cancelled"},
                                        attempt : 0..1]]
         /\ \A s \in Stages : life.stages[s].attempt = IF life.stages[s].state = "" THEN 0 ELSE 1
<1>1. /\ plan \in [Stages -> SUBSET Stages] /\ file \in Seq(Journal!Record) /\ life \in Journal!Lifecycle
      /\ closed \in BOOLEAN /\ alive \in BOOLEAN
      /\ \A s \in Stages : life.stages[s].attempt = 0 <=> life.stages[s].state = ""
  BY Zenon DEF Journal!JournalInv, Journal!JournalTypeOK
<1>2. life.stages \in [Stages -> [state : Journal!Active \cup Journal!Success \cup {"", "failed", "cancelled"},
                                  attempt : 0..1]]
  BY <1>1 DEF Journal!Lifecycle
<1>3. \A s \in Stages : life.stages[s].attempt \in {0, 1}
  <2>1. 0..1 = {0, 1}
    OBVIOUS
  <2> QED BY <1>2, <2>1
<1>4. \A s \in Stages : life.stages[s].attempt = IF life.stages[s].state = "" THEN 0 ELSE 1
  BY <1>1, <1>3
<1>5. Len(file) \in Nat
  <2>1. file \in Seq(Journal!Record)
    BY <1>1
  <2> QED BY <2>1
<1> QED BY <1>1, <1>2, <1>4, <1>5

\* A record of a stage moves that stage and nothing else.
LEMMA AdvanceStage ==
  ASSUME NEW l \in Journal!Lifecycle, NEW s \in Stages, NEW state, NEW n
  PROVE  LET m == Journal!Advance(l, Journal!StageRecord(s, state, n)) IN
         /\ m.initialized = l.initialized /\ m.terminal = l.terminal
         /\ m.stages[s].state = state
         /\ \A k \in Stages : k # s => m.stages[k] = l.stages[k]
<1> DEFINE rec == Journal!StageRecord(s, state, n)
           new == [state |-> state, attempt |-> n]
<1>1. rec.kind = "stage" /\ rec.stage = s /\ rec.state = state /\ rec.attempt = n
  BY DEF Journal!StageRecord
<1>2. Journal!Advance(l, rec) = [l EXCEPT !.stages = [l.stages EXCEPT ![s] = new]]
  BY <1>1 DEF Journal!Advance, Journal!Lifecycle
<1>3. l.stages \in [Stages -> [state : Journal!Active \cup Journal!Success \cup {"", "failed", "cancelled"},
                               attempt : 0..1]]
  BY DEF Journal!Lifecycle
<1> DEFINE st == [l.stages EXCEPT ![s] = new]
<1>4. st[s] = new /\ \A k \in Stages : k # s => st[k] = l.stages[k]
  BY <1>3
<1>5. new.state = state
  OBVIOUS
<1> HIDE DEF st, new, rec
<1>6. Journal!Advance(l, rec).initialized = l.initialized /\ Journal!Advance(l, rec).terminal = l.terminal
      /\ Journal!Advance(l, rec).stages = st
  BY <1>2 DEF Journal!Lifecycle, st
<1> QED BY <1>4, <1>5, <1>6 DEF rec

\* A record of the run moves no stage; the second ends the run.
LEMMA AdvanceRun ==
  ASSUME NEW l \in Journal!Lifecycle, NEW state
  PROVE  LET m == Journal!Advance(l, Journal!RunRecord(state)) IN
         m.stages = l.stages /\ m.initialized /\ m.terminal = l.initialized
BY DEF Journal!Advance, Journal!RunRecord, Journal!Lifecycle

\* Another record leaves the recorded ends true, if a recorded end is the one
\* that the goroutine reports as it leaves.
LEMMA EndsKept ==
  ASSUME SchedulerAssumption, IInv, NEW rec \in Journal!Record,
         file' = file \/ file' = Append(file, rec),
         \A k \in Stages : work[k] = "done" => work'[k] = "done" /\ outcome'[k] = outcome[k],
         rec.kind = "stage" /\ rec.state \notin Journal!Active =>
           work'[rec.stage] = "done" /\ rec.state = outcome'[rec.stage]
  PROVE  EndsRecorded'
<1>1. file \in Seq(Journal!Record) /\ Len(file) \in Nat
  BY JournalTypes DEF IInv
<1>2. DOMAIN file = 1..Len(file) /\ \A n \in DOMAIN file : file[n] \in Journal!Record
  BY <1>1
<1>3. \A r \in Journal!Record : r.kind = "stage" => r.stage \in Stages
  BY DEF Journal!Record, Journal!RunRecord, Journal!StageRecord
<1>4. \A n \in DOMAIN file : file[n].kind = "stage" /\ file[n].state \notin Journal!Active =>
        work'[file[n].stage] = "done" /\ file[n].state = outcome'[file[n].stage]
  <2> SUFFICES ASSUME NEW n \in DOMAIN file, file[n].kind = "stage", file[n].state \notin Journal!Active
               PROVE  work'[file[n].stage] = "done" /\ file[n].state = outcome'[file[n].stage]
    OBVIOUS
  <2>1. work[file[n].stage] = "done" /\ file[n].state = outcome[file[n].stage]
    BY Zenon DEF IInv, EndsRecorded
  <2>2. file[n].stage \in Stages
    BY <1>2, <1>3
  <2> QED BY <2>1, <2>2
<1>5. \A n \in DOMAIN file' : (n \in DOMAIN file /\ file'[n] = file[n]) \/ file'[n] = rec
  <2>1. CASE file' = file
    BY <2>1
  <2>2. CASE file' = Append(file, rec)
    BY <1>1, <1>2, <2>2
  <2> QED BY <2>1, <2>2
<1>6. Journal!Active' = Journal!Active
  BY DEF Journal!Active
<1>7. ASSUME NEW n \in DOMAIN file', file'[n].kind = "stage", file'[n].state \notin Journal!Active
      PROVE  work'[file'[n].stage] = "done" /\ file'[n].state = outcome'[file'[n].stage]
  <2>1. CASE n \in DOMAIN file /\ file'[n] = file[n]
    BY <1>4, <1>7, <2>1, Zenon
  <2>2. CASE file'[n] = rec
    BY <1>7, <2>2, Zenon
  <2> QED BY <1>5, <2>1, <2>2
<1> QED BY <1>7, Zenon DEF EndsRecorded, Journal!Active

\* The goroutine of s moves while the main one waits for its batch.
LEMMA GoroutineMoves ==
  ASSUME SchedulerAssumption, IInv, NEW s \in Stages, work[s] \in {"starting", "running", "stopping"},
         UNCHANGED <<options, mainVars, cancelled>>,
         work'[s] \in {"running", "stopping", "done"}, outcome'[s] \in Outcomes \cup {""},
         result'[s] \in {"", "ok", "error"},
         \A k \in Stages : k # s =>
           /\ work'[k] = work[k] /\ outcome'[k] = outcome[k] /\ result'[k] = result[k]
           /\ life'.stages[k].state = life.stages[k].state,
         life'.initialized = life.initialized, life'.terminal = life.terminal,
         work' = [k \in Stages |-> work'[k]], outcome' = [k \in Stages |-> outcome'[k]],
         result' = [k \in Stages |-> result'[k]],
         Journal!JournalInv', StandsRight(s)', EndsRecorded'
  PROVE  IInv'
<1>1. /\ work \in [Stages -> {"none", "starting", "running", "stopping", "done"}]
      /\ outcome \in [Stages -> Outcomes \cup {""}] /\ result \in [Stages -> {"", "ok", "error"}]
  BY DEF IInv, TypeOK
<1>2. TypeOK'
  <2>1. ASSUME NEW k \in Stages
        PROVE  /\ work'[k] \in {"none", "starting", "running", "stopping", "done"}
               /\ outcome'[k] \in Outcomes \cup {""} /\ result'[k] \in {"", "ok", "error"}
    <3>1. CASE k = s
      BY <3>1
    <3>2. CASE k # s
      <4>1. work'[k] = work[k] /\ outcome'[k] = outcome[k] /\ result'[k] = result[k]
        BY <3>2
      <4> QED BY <1>1, <4>1
    <3> QED BY <3>1, <3>2
  <2>2. /\ work' \in [Stages -> {"none", "starting", "running", "stopping", "done"}]
        /\ outcome' \in [Stages -> Outcomes \cup {""}] /\ result' \in [Stages -> {"", "ok", "error"}]
    BY <2>1
  <2>3. Journal!JournalTypeOK'
    BY DEF Journal!JournalInv
  <2>4. Outcomes' = Outcomes
    BY DEF Outcomes
  <2> QED BY <2>2, <2>3, <2>4 DEF IInv, TypeOK, options, mainVars
<1>3. s \in batch /\ phase = "batch"
  BY DEF IInv, StageInv, StandsRight, MainInv
<1>4. StageInv'
  <2>1. ASSUME NEW k \in Stages, k # s PROVE StandsRight(k)'
    <3>1. StandsRight(k)
      BY DEF IInv, StageInv
    <3>2. /\ work'[k] = work[k] /\ outcome'[k] = outcome[k] /\ result'[k] = result[k]
          /\ life'.stages[k].state = life.stages[k].state /\ batch' = batch /\ completed' = completed /\ plan' = plan
      BY <2>1 DEF options, mainVars
    <3> QED BY <3>1, <3>2 DEF StandsRight, Outcomes, Journal!Success
  <2> QED BY <2>1 DEF StageInv
<1>5. MainInv'
  <2>1. phase' = "batch" /\ batch' = batch /\ completed' = completed /\ pending' = pending /\ verdict' = verdict /\ plan' = plan
    BY <1>3 DEF options, mainVars
  <2>2. /\ life.initialized /\ ~life.terminal /\ ~Journal!HasCycle(plan)
        /\ \A k \in Stages : work[k] # "none" => k \in completed \cup batch
        /\ \A k \in pending : work[k] = "none" /\ plan[k] \subseteq completed
    BY <1>3 DEF IInv, MainInv, Executing
  <2>3. \A k \in Stages : work'[k] # "none" => k \in completed' \cup batch'
    BY <1>3, <2>1, <2>2
  <2>4. \A k \in pending' : work'[k] = "none" /\ plan'[k] \subseteq completed'
    <3>1. s \notin pending /\ pending \subseteq Stages
      BY <2>2 DEF IInv, TypeOK
    <3> QED BY <2>1, <2>2, <3>1
  <2>5. life'.initialized /\ ~life'.terminal
    BY <2>2
  <2>6. ~Journal!HasCycle(plan)'
    BY <2>1, <2>2
  <2> QED BY <2>1, <2>3, <2>4, <2>5, <2>6 DEF MainInv, Executing
<1>6. BatchInv'
  BY DEF IInv, BatchInv, options, mainVars
<1> QED BY <1>2, <1>4, <1>5, <1>6 DEF IInv

\* The goroutines' own variables, as functions.
LEMMA WorkTypes ==
  ASSUME IInv
  PROVE  /\ work \in [Stages -> {"none", "starting", "running", "stopping", "done"}]
         /\ outcome \in [Stages -> Outcomes \cup {""}] /\ result \in [Stages -> {"", "ok", "error"}]
BY DEF IInv, TypeOK

LEMMA StageRecordFact ==
  ASSUME NEW s \in Stages, NEW state \in Outcomes \cup {"running"}
  PROVE  LET rec == Journal!StageRecord(s, state, 1) IN
         rec \in Journal!Record /\ rec.kind = "stage" /\ rec.stage = s /\ rec.state = state
<1>1. state \in Journal!Active \cup Journal!Success \cup {"failed", "cancelled"}
  BY DEF Outcomes, Journal!Active, Journal!Success
<1>2. 1 \in 1..1
  OBVIOUS
<1> QED BY <1>1, <1>2 DEF Journal!Record, Journal!StageRecord

LEMMA StageStartStep ==
  ASSUME SchedulerAssumption, IInv, alive, UNCHANGED <<options, alive>>, NEW s \in Stages, StageStart(s)
  PROVE  IInv'
<1> DEFINE rec == Journal!StageRecord(s, "running", 1)
<1>1. work[s] = "starting" /\ UNCHANGED <<outcome, mainVars, cancelled>>
  BY DEF StageStart
<1>2. rec \in Journal!Record /\ rec.kind = "stage" /\ rec.stage = s /\ rec.state = "running"
  BY StageRecordFact
<1>3. StandsRight(s) /\ plan' = plan /\ batch' = batch /\ completed' = completed /\ outcome' = outcome /\ alive' = alive
  BY <1>1 DEF IInv, StageInv, options, mainVars
<1>4. life \in Journal!Lifecycle /\ Journal!JournalInv
  BY JournalTypes DEF IInv
<1>5. "running" \in Journal!Active /\ work[s] # "done"
  BY <1>1 DEF Journal!Active
<1>6. CASE Appends(rec) /\ work' = [work EXCEPT ![s] = "running"] /\ UNCHANGED result
  <2>1. Appended(rec, TRUE)
    BY <1>2, <1>3, <1>4, <1>6, AppendStep
  <2>2. Journal!JournalInv' /\ life' = Journal!Advance(life, rec) /\ file' = Append(file, rec)
    BY <2>1 DEF Appended
  <2>3. /\ life'.initialized = life.initialized /\ life'.terminal = life.terminal
        /\ life'.stages[s].state = "running" /\ \A k \in Stages : k # s => life'.stages[k] = life.stages[k]
    BY <1>4, <2>2, AdvanceStage
  <2> HIDE DEF rec
  <2>4. work'[s] = "running" /\ (\A k \in Stages : k # s => work'[k] = work[k]) /\ work' = [k \in Stages |-> work'[k]]
    BY <1>6, WorkTypes
  <2>5. result' = result /\ outcome[s] \in Outcomes \cup {""} /\ result[s] \in {"", "ok", "error"}
        /\ outcome = [k \in Stages |-> outcome[k]] /\ result = [k \in Stages |-> result[k]]
    BY <1>6, WorkTypes
  <2>6. EndsRecorded'
    <3>1. \A k \in Stages : work[k] = "done" => work'[k] = "done" /\ outcome'[k] = outcome[k]
      BY <1>3, <1>5, <2>4
    <3> QED BY <1>2, <1>5, <2>2, <3>1, EndsKept
  <2>7. StandsRight(s)'
    BY <1>1, <1>3, <2>3, <2>4, <2>5 DEF StandsRight
  <2> QED BY <1>1, <1>3, <2>2, <2>3, <2>4, <2>5, <2>6, <2>7, GoroutineMoves
<1>7. CASE AppendFails(rec) /\ Leave(s) /\ result' = [result EXCEPT ![s] = "error"]
  <2>1. Appended(rec, FALSE)
    BY <1>2, <1>3, <1>4, <1>7, AppendStep
  <2>2. Journal!JournalInv' /\ life' = life /\ (file' = file \/ file' = Append(file, rec))
    BY <2>1 DEF Appended
  <2> HIDE DEF rec
  <2>4. work'[s] = "done" /\ (\A k \in Stages : k # s => work'[k] = work[k]) /\ work' = [k \in Stages |-> work'[k]]
    BY <1>7, WorkTypes DEF Leave
  <2>5. result'[s] = "error" /\ (\A k \in Stages : k # s => result'[k] = result[k]) /\ result' = [k \in Stages |-> result'[k]]
        /\ outcome[s] \in Outcomes \cup {""} /\ outcome = [k \in Stages |-> outcome[k]]
    BY <1>7, WorkTypes
  <2>6. EndsRecorded'
    <3>1. \A k \in Stages : work[k] = "done" => work'[k] = "done" /\ outcome'[k] = outcome[k]
      BY <1>3, <1>5, <2>4
    <3> QED BY <1>2, <1>5, <2>2, <3>1, EndsKept
  <2>7. StandsRight(s)'
    BY <1>1, <1>3, <2>2, <2>4, <2>5 DEF StandsRight
  <2> QED BY <1>1, <1>3, <2>2, <2>4, <2>5, <2>6, <2>7, GoroutineMoves
<1> QED BY <1>6, <1>7 DEF StageStart, rec

LEMMA StageExecuteStep ==
  ASSUME SchedulerAssumption, IInv, alive, UNCHANGED <<options, alive>>, NEW s \in Stages, StageExecute(s)
  PROVE  IInv'
<1>1. /\ work[s] = "running" /\ work' = [work EXCEPT ![s] = "stopping"]
      /\ UNCHANGED <<result, mainVars, journalVars, cancelled>>
  BY DEF StageExecute
<1>2. PICK o \in Outcomes : outcome' = [outcome EXCEPT ![s] = o]
  BY DEF StageExecute
<1>3. /\ plan' = plan /\ batch' = batch /\ completed' = completed /\ result' = result
      /\ file' = file /\ life' = life /\ torn' = torn /\ failed' = failed /\ closed' = closed /\ alive' = alive
  BY <1>1 DEF options, mainVars, journalVars
<1>4. Journal!JournalInv'
  BY <1>3, JournalRests, JournalTypes DEF IInv
<1>5. work'[s] = "stopping" /\ (\A k \in Stages : k # s => work'[k] = work[k]) /\ work' = [k \in Stages |-> work'[k]]
  BY <1>1, WorkTypes
<1>6. outcome'[s] = o /\ (\A k \in Stages : k # s => outcome'[k] = outcome[k]) /\ outcome' = [k \in Stages |-> outcome'[k]]
  BY <1>2, WorkTypes
<1>7. result[s] \in {"", "ok", "error"} /\ result = [k \in Stages |-> result[k]]
  BY WorkTypes
<1>8. EndsRecorded'
  <2>1. \A k \in Stages : work[k] = "done" => work'[k] = "done" /\ outcome'[k] = outcome[k]
    BY <1>1, <1>5, <1>6
  <2>2. Journal!StageRecord(s, "running", 1) \in Journal!Record /\ Journal!StageRecord(s, "running", 1).state = "running"
    BY StageRecordFact
  <2>3. "running" \in Journal!Active
    BY DEF Journal!Active
  <2> QED BY <1>3, <2>1, <2>2, <2>3, EndsKept
<1>9. StandsRight(s)'
  <2>1. StandsRight(s)
    BY DEF IInv, StageInv
  <2> QED BY <1>1, <1>3, <1>5, <1>6, <2>1 DEF StandsRight, Outcomes
<1> QED BY <1>1, <1>3, <1>4, <1>5, <1>6, <1>7, <1>8, <1>9, GoroutineMoves

LEMMA StageStopStep ==
  ASSUME SchedulerAssumption, IInv, alive, UNCHANGED <<options, alive>>, NEW s \in Stages, StageStop(s)
  PROVE  IInv'
<1> DEFINE rec == Journal!StageRecord(s, outcome[s], 1)
<1>1. work[s] = "stopping" /\ Leave(s) /\ UNCHANGED <<outcome, mainVars, cancelled>>
  BY DEF StageStop
<1>2. PICK persisted \in BOOLEAN : /\ IF persisted THEN Appends(rec) ELSE AppendFails(rec)
                                   /\ result' = [result EXCEPT ![s] = Reported(s, persisted)]
  BY DEF StageStop
<1>3. StandsRight(s) /\ plan' = plan /\ batch' = batch /\ completed' = completed /\ outcome' = outcome /\ alive' = alive
  BY <1>1 DEF IInv, StageInv, options, mainVars
<1>4. outcome[s] \in Outcomes
  BY <1>1, <1>3 DEF StandsRight
<1>5. rec \in Journal!Record /\ rec.kind = "stage" /\ rec.stage = s /\ rec.state = outcome[s]
  BY <1>4, StageRecordFact
<1>6. life \in Journal!Lifecycle /\ Journal!JournalInv
  BY JournalTypes DEF IInv
<1>7. Appended(rec, persisted)
  BY <1>2, <1>3, <1>5, <1>6, AppendStep
<1>8. Journal!JournalInv' /\ (file' = file \/ file' = Append(file, rec))
  BY <1>7 DEF Appended
<1>9. /\ life'.initialized = life.initialized /\ life'.terminal = life.terminal
      /\ persisted => life'.stages[s].state = outcome[s]
      /\ \A k \in Stages : k # s => life'.stages[k] = life.stages[k]
  <2>1. CASE persisted
    BY <1>6, <1>7, <2>1, AdvanceStage DEF Appended
  <2>2. CASE ~persisted
    BY <1>7, <2>2 DEF Appended
  <2> QED BY <2>1, <2>2
<1>10. work'[s] = "done" /\ (\A k \in Stages : k # s => work'[k] = work[k]) /\ work' = [k \in Stages |-> work'[k]]
  BY <1>1, WorkTypes DEF Leave
<1>11. /\ result'[s] \in {"ok", "error"}
       /\ result'[s] = "ok" => persisted /\ outcome[s] \in Journal!Success
       /\ \A k \in Stages : k # s => result'[k] = result[k]
       /\ result' = [k \in Stages |-> result'[k]]
  BY <1>2, WorkTypes DEF Reported
<1>12. outcome = [k \in Stages |-> outcome[k]]
  BY WorkTypes
<1> HIDE DEF rec
<1>13. EndsRecorded'
  <2>1. \A k \in Stages : work[k] = "done" => work'[k] = "done" /\ outcome'[k] = outcome[k]
    BY <1>1, <1>3, <1>10
  <2>2. work'[rec.stage] = "done" /\ rec.state = outcome'[rec.stage]
    BY <1>3, <1>5, <1>10
  <2> QED BY <1>5, <1>8, <2>1, <2>2, EndsKept
<1>14. StandsRight(s)'
  BY <1>1, <1>3, <1>9, <1>10, <1>11 DEF StandsRight, Journal!Success
<1> QED BY <1>1, <1>3, <1>4, <1>8, <1>9, <1>10, <1>11, <1>12, <1>13, <1>14, GoroutineMoves

\* The main goroutine moves and leaves the batch and the stages as they are.
LEMMA MainMoves ==
  ASSUME SchedulerAssumption, IInv, UNCHANGED <<options, stageVars, batch, completed>>,
         phase' \in {"new", "next", "admitting", "batch", "ending", "returned", "closing", "finished"},
         pending' \subseteq Stages, verdict' \in {"ok", "error"}, cancelled' \in BOOLEAN,
         Journal!JournalInv', life'.stages = life.stages, EndsRecorded', MainInv'
  PROVE  IInv'
<1>1. /\ plan' = plan /\ budget' = budget /\ defer' = defer /\ batch' = batch /\ completed' = completed
      /\ work' = work /\ outcome' = outcome /\ result' = result
  BY DEF options, stageVars
<1>2. TypeOK'
  <2>1. Journal!JournalTypeOK'
    BY DEF Journal!JournalInv
  <2>2. Outcomes' = Outcomes
    BY DEF Outcomes
  <2> QED BY <1>1, <2>1, <2>2 DEF IInv, TypeOK
<1>3. StageInv'
  <2>1. ASSUME NEW k \in Stages PROVE StandsRight(k)'
    <3>1. StandsRight(k)
      BY DEF IInv, StageInv
    <3> QED BY <1>1, <3>1 DEF StandsRight, Outcomes, Journal!Success
  <2> QED BY <2>1 DEF StageInv
<1>4. BatchInv'
  BY <1>1 DEF IInv, BatchInv
<1> QED BY <1>2, <1>3, <1>4 DEF IInv

\* A record of the run, persisted or not.
LEMMA RunRecordStep ==
  ASSUME SchedulerAssumption, IInv, alive, UNCHANGED <<options, alive, stageVars>>,
         NEW state \in {"running"} \cup Journal!Terminal, NEW persisted \in BOOLEAN,
         LET rec == Journal!RunRecord(state) IN IF persisted THEN Appends(rec) ELSE AppendFails(rec)
  PROVE  /\ Journal!JournalInv' /\ life'.stages = life.stages /\ EndsRecorded'
         /\ ~persisted => life' = life
         /\ persisted => /\ life'.initialized /\ life'.terminal = life.initialized
                         /\ file'[Len(file')] = Journal!RunRecord(state)
<1> DEFINE rec == Journal!RunRecord(state)
<1>1. rec \in Journal!Record /\ rec.kind = "run"
  <2>1. rec \in Journal!Record
    BY DEF Journal!Record
  <2>2. rec.kind = "run"
    BY DEF Journal!RunRecord
  <2> QED BY <2>1, <2>2
<1>2. plan' = plan /\ alive' = alive /\ work' = work /\ outcome' = outcome
  BY DEF options, stageVars
<1>3. Journal!JournalInv /\ life \in Journal!Lifecycle /\ file \in Seq(Journal!Record) /\ Len(file) \in Nat
  BY JournalTypes DEF IInv
<1>4. Appended(rec, persisted)
  BY <1>1, <1>2, <1>3, AppendStep
<1> HIDE DEF rec
<1>5. EndsRecorded'
  <2>1. file' = file \/ file' = Append(file, rec)
    BY <1>4 DEF Appended
  <2> QED BY <1>1, <1>2, <2>1, EndsKept
<1>6. CASE persisted
  <2>1. life' = Journal!Advance(life, rec) /\ file' = Append(file, rec) /\ Journal!JournalInv'
    BY <1>4, <1>6 DEF Appended
  <2>2. life'.stages = life.stages /\ life'.initialized /\ life'.terminal = life.initialized
    BY <1>3, <2>1, AdvanceRun DEF rec
  <2>3. file'[Len(file')] = rec
    BY <1>1, <1>3, <2>1
  <2> QED BY <1>5, <1>6, <2>1, <2>2, <2>3 DEF rec
<1>7. CASE ~persisted
  <2>1. life' = life /\ Journal!JournalInv'
    BY <1>4, <1>7 DEF Appended
  <2> QED BY <1>5, <1>7, <2>1
<1> QED BY <1>6, <1>7

\* Nothing is written.
LEMMA JournalQuiet ==
  ASSUME SchedulerAssumption, IInv, UNCHANGED <<options, alive, journalVars, work, outcome>>
  PROVE  Journal!JournalInv' /\ life' = life /\ file' = file /\ EndsRecorded'
<1>1. /\ plan' = plan /\ file' = file /\ torn' = torn /\ life' = life /\ failed' = failed /\ closed' = closed
      /\ alive' = alive /\ work' = work /\ outcome' = outcome
  BY DEF options, journalVars
<1>2. Journal!JournalInv'
  BY <1>1, JournalRests, JournalTypes DEF IInv
<1>3. EndsRecorded'
  BY <1>1 DEF IInv, EndsRecorded, Journal!Active
<1> QED BY <1>1, <1>2, <1>3

LEMMA StartStep ==
  ASSUME SchedulerAssumption, IInv, alive, UNCHANGED <<options, alive>>, Start
  PROVE  IInv'
<1>1. phase = "new" /\ UNCHANGED <<pending, batch, completed, stageVars, cancelled>>
  BY DEF Start
<1>2. /\ plan' = plan /\ work' = work /\ batch' = batch /\ completed' = completed /\ pending' = pending
      /\ cancelled' = cancelled /\ defer' = defer
  BY <1>1 DEF options, stageVars
<1>3. /\ batch = {} /\ life = Journal!Genesis /\ verdict \in {"ok", "error"} /\ cancelled \in BOOLEAN /\ pending \subseteq Stages
      /\ \A s \in Stages : work[s] # "none" => s \in completed \cup batch
  BY <1>1 DEF IInv, TypeOK, MainInv, Executing
<1>4. "running" \in {"running"} \cup Journal!Terminal
  OBVIOUS
<1>5. CASE /\ ~Journal!HasCycle(plan) /\ Appends(Journal!RunRecord("running"))
           /\ phase' = "next" /\ UNCHANGED verdict
  <2>1. /\ Journal!JournalInv' /\ life'.stages = life.stages /\ EndsRecorded'
        /\ life'.initialized /\ life'.terminal = life.initialized
    BY <1>1, <1>4, <1>5, RunRecordStep
  <2>2. ~life'.terminal
    BY <1>3, <2>1 DEF Journal!Genesis
  <2>3. ~Journal!HasCycle(plan)'
    BY <1>2, <1>5
  <2>4. MainInv'
    BY <1>2, <1>3, <1>5, <2>1, <2>2, <2>3 DEF MainInv, Executing
  <2> QED BY <1>1, <1>2, <1>3, <1>5, <2>1, <2>4, MainMoves
<1>6. CASE /\ phase' = "returned" /\ verdict' = "error"
           /\ AppendFails(Journal!RunRecord("running")) \/ UNCHANGED journalVars
  <2>1. Journal!JournalInv' /\ life'.stages = life.stages /\ EndsRecorded'
    <3>1. CASE AppendFails(Journal!RunRecord("running"))
      BY <1>1, <1>4, <3>1, RunRecordStep
    <3>2. CASE UNCHANGED journalVars
      BY <1>1, <3>2, JournalQuiet DEF stageVars
    <3> QED BY <1>6, <3>1, <3>2
  <2>2. MainInv'
    BY <1>2, <1>3, <1>6 DEF MainInv, Executing
  <2> QED BY <1>1, <1>2, <1>3, <1>6, <2>1, <2>2, MainMoves
<1> QED BY <1>5, <1>6 DEF Start

LEMMA NextReadyStep ==
  ASSUME SchedulerAssumption, IInv, alive, UNCHANGED <<options, alive>>, NextReady
  PROVE  IInv'
<1>1. phase = "next" /\ UNCHANGED <<batch, completed, stageVars, journalVars, cancelled>>
  BY DEF NextReady
<1>2. /\ plan' = plan /\ work' = work /\ batch' = batch /\ completed' = completed /\ cancelled' = cancelled /\ defer' = defer
  BY <1>1 DEF options, stageVars
<1>3. /\ batch = {} /\ verdict \in {"ok", "error"} /\ cancelled \in BOOLEAN /\ pending \subseteq Stages
      /\ life.initialized /\ ~life.terminal /\ ~Journal!HasCycle(plan)
      /\ \A s \in Stages : work[s] # "none" => s \in completed \cup batch
  BY <1>1 DEF IInv, TypeOK, MainInv, Executing
<1>4. Journal!JournalInv' /\ life' = life /\ EndsRecorded'
  BY <1>1, JournalQuiet DEF stageVars
<1>5. ~Journal!HasCycle(plan)'
  BY <1>2, <1>3
<1>6. Ready \subseteq Stages /\ \A s \in Ready : work[s] = "none" /\ plan[s] \subseteq completed
  BY <1>3 DEF Ready
<1>7. CASE phase' = "ending" /\ pending' \subseteq Stages /\ verdict' \in {"ok", "error"} /\ (verdict' = "ok" => completed = Stages)
  <2>1. MainInv'
    BY <1>2, <1>3, <1>4, <1>5, <1>7 DEF MainInv, Executing
  <2> QED BY <1>1, <1>2, <1>3, <1>4, <1>7, <2>1, MainMoves
<1>8. CASE phase' = "admitting" /\ pending' = Ready /\ verdict' = verdict
  <2>1. MainInv'
    BY <1>2, <1>3, <1>4, <1>5, <1>6, <1>8 DEF MainInv, Executing
  <2> QED BY <1>1, <1>2, <1>3, <1>4, <1>6, <1>8, <2>1, MainMoves
<1> QED BY <1>3, <1>6, <1>7, <1>8 DEF NextReady, End

LEMMA AdmitStep ==
  ASSUME SchedulerAssumption, IInv, alive, UNCHANGED <<options, alive>>, Admit
  PROVE  IInv'
<1>1. phase = "admitting" /\ UNCHANGED <<completed, outcome, result, journalVars, cancelled>>
  BY DEF Admit
<1>2. /\ plan' = plan /\ completed' = completed /\ cancelled' = cancelled /\ defer' = defer /\ budget' = budget
      /\ outcome' = outcome /\ result' = result /\ life' = life /\ file' = file
  BY <1>1 DEF options, journalVars
<1>3. /\ batch = {} /\ verdict \in {"ok", "error"} /\ cancelled \in BOOLEAN /\ pending \subseteq Stages
      /\ life.initialized /\ ~life.terminal /\ ~Journal!HasCycle(plan)
      /\ \A s \in Stages : work[s] # "none" => s \in completed \cup batch
      /\ \A s \in pending : work[s] = "none" /\ plan[s] \subseteq completed
      /\ budget \in Budgets /\ completed \subseteq Stages
  BY <1>1 DEF IInv, TypeOK, MainInv, Executing
<1>4. ~Journal!HasCycle(plan)'
  BY <1>2, <1>3
<1>5. CASE /\ UNCHANGED <<pending, batch, work>>
           /\ \/ phase' = "next" /\ verdict' = verdict
              \/ phase' = "ending" /\ verdict' = "error"
  <2>1. work' = work /\ batch' = batch /\ pending' = pending
    BY <1>5
  <2>2. Journal!JournalInv' /\ EndsRecorded'
    BY <1>1, <1>2, <2>1, JournalQuiet
  <2>3. MainInv'
    BY <1>2, <1>3, <1>4, <1>5, <2>1 DEF MainInv, Executing
  <2> QED BY <1>1, <1>2, <1>3, <1>5, <2>1, <2>2, <2>3, MainMoves DEF stageVars
<1>6. CASE /\ batch' = Admitted /\ pending' = pending \ Admitted
           /\ work' = [s \in Stages |-> IF s \in Admitted THEN "starting" ELSE work[s]]
           /\ phase' = "batch" /\ verdict' = verdict
  <2>1. /\ Admitted \subseteq pending /\ Cardinality(Admitted) <= Workers
        /\ \A d \in Dims : budget[d] > 0 => Reserved(Admitted, d) <= budget[d]
    BY <1>3, AdmittedFits DEF SchedulerAssumption
  <2> DEFINE B == Admitted
  <2>2. /\ B \subseteq pending /\ batch' = B /\ pending' = pending \ B
        /\ \A s \in Stages : work'[s] = IF s \in B THEN "starting" ELSE work[s]
    BY <1>6, <2>1
  <2>3. work' \in [Stages -> {"none", "starting", "running", "stopping", "done"}]
    BY <1>6, WorkTypes
  <2>4. Journal!JournalInv'
    <3>1. file' = file /\ torn' = torn /\ life' = life /\ failed' = failed /\ closed' = closed /\ alive' = alive
      BY <1>1 DEF journalVars
    <3> QED BY <1>2, <3>1, JournalRests, JournalTypes DEF IInv
  <2> HIDE DEF B
  <2>5. TypeOK'
    <3>1. Journal!JournalTypeOK'
      BY <2>4 DEF Journal!JournalInv
    <3>2. Outcomes' = Outcomes /\ batch' \subseteq Stages /\ pending' \subseteq Stages
      BY <1>3, <2>2 DEF Outcomes
    <3> QED BY <1>2, <1>3, <1>6, <2>3, <3>1, <3>2 DEF IInv, TypeOK
  <2>6. StageInv'
    <3>1. ASSUME NEW s \in Stages PROVE StandsRight(s)'
      <4>1. StandsRight(s)
        BY DEF IInv, StageInv
      <4>2. CASE s \in B
        <5>1. work[s] = "none" /\ plan[s] \subseteq completed /\ work'[s] = "starting"
          BY <1>3, <2>2, <4>2
        <5> QED BY <1>2, <2>2, <4>1, <4>2, <5>1 DEF StandsRight
      <4>3. CASE s \notin B
        <5>1. work'[s] = work[s] /\ s \notin batch'
          BY <2>2, <4>3
        <5> QED BY <1>2, <1>3, <4>1, <5>1 DEF StandsRight, Outcomes, Journal!Success
      <4> QED BY <4>2, <4>3
    <3> QED BY <3>1 DEF StageInv
  <2>7. MainInv'
    <3>1. \A s \in Stages : work'[s] # "none" => s \in completed' \cup batch'
      BY <1>2, <1>3, <2>2
    <3>2. \A s \in pending' : work'[s] = "none" /\ plan'[s] \subseteq completed'
      BY <1>2, <1>3, <2>2
    <3> QED BY <1>2, <1>3, <1>4, <1>6, <3>1, <3>2 DEF MainInv, Executing
  <2>8. EndsRecorded'
    <3>1. ASSUME NEW s \in Stages, work[s] = "done" PROVE work'[s] = "done"
      BY <1>3, <2>2, <3>1
    <3>2. Journal!RunRecord("running") \in Journal!Record
      BY DEF Journal!Record
    <3>3. Journal!RunRecord("running").kind = "run"
      BY DEF Journal!RunRecord
    <3> QED BY <1>2, <3>1, <3>2, <3>3, EndsKept
  <2>9. BatchInv'
    <3>1. Cardinality(B) <= Workers /\ \A d \in Dims : budget[d] > 0 => Reserved(B, d) <= budget[d]
      BY <2>1 DEF B
    <3> QED BY <1>2, <2>2, <3>1 DEF BatchInv
  <2> QED BY <2>4, <2>5, <2>6, <2>7, <2>8, <2>9 DEF IInv
<1>7. End(TRUE) => phase' = "ending" /\ verdict' = "error"
  BY DEF End
<1>8. \/ phase' = "next" /\ UNCHANGED <<pending, batch, work, verdict>>
      \/ End(TRUE) /\ UNCHANGED <<pending, batch, work>>
      \/ /\ batch' = Admitted /\ pending' = pending \ Admitted
         /\ work' = [s \in Stages |-> IF s \in Admitted THEN "starting" ELSE work[s]]
         /\ phase' = "batch" /\ UNCHANGED verdict
  BY Zenon DEF Admit
<1>9. CASE phase' = "next" /\ UNCHANGED <<pending, batch, work, verdict>>
  <2>1. UNCHANGED <<pending, batch, work>> /\ verdict' = verdict
    BY <1>9
  <2> QED BY <1>5, <1>9, <2>1, Zenon
<1>10. CASE End(TRUE) /\ UNCHANGED <<pending, batch, work>>
  BY <1>5, <1>7, <1>10
<1> QED BY <1>6, <1>8, <1>9, <1>10, Zenon

LEMMA CollectStep ==
  ASSUME SchedulerAssumption, IInv, alive, UNCHANGED <<options, alive>>, Collect
  PROVE  IInv'
<1> DEFINE ok == {s \in batch : result[s] = "ok"}
<1>1. /\ phase = "batch" /\ \A s \in batch : work[s] = "done"
      /\ completed' = completed \cup ok /\ batch' = {}
      /\ UNCHANGED <<pending, stageVars, journalVars, cancelled>>
      /\ IF BatchErrors # {} THEN End(TRUE) ELSE phase' = "admitting" /\ UNCHANGED verdict
  BY DEF Collect
<1>2. /\ plan' = plan /\ cancelled' = cancelled /\ defer' = defer /\ budget' = budget /\ pending' = pending
      /\ work' = work /\ outcome' = outcome /\ result' = result /\ life' = life /\ file' = file
  BY <1>1 DEF options, journalVars, stageVars
<1>3. /\ batch \subseteq Stages /\ verdict \in {"ok", "error"} /\ cancelled \in BOOLEAN /\ pending \subseteq Stages
      /\ life.initialized /\ ~life.terminal /\ ~Journal!HasCycle(plan)
      /\ \A s \in Stages : work[s] # "none" => s \in completed \cup batch
      /\ \A s \in pending : work[s] = "none" /\ plan[s] \subseteq completed
      /\ budget \in Budgets /\ completed \subseteq Stages
  BY <1>1 DEF IInv, TypeOK, MainInv, Executing
<1>4. ~Journal!HasCycle(plan)'
  BY <1>2, <1>3
<1>5. Journal!JournalInv' /\ EndsRecorded'
  BY <1>1, <1>2, JournalQuiet
<1>6. /\ phase' \in {"ending", "admitting"} /\ verdict' \in {"ok", "error"}
      /\ phase' = "ending" => verdict' = "error"
      /\ phase' = "admitting" => \A s \in batch : result[s] # "error"
  BY <1>1, <1>3 DEF End, BatchErrors
<1> HIDE DEF ok
<1>7. completed \subseteq completed' /\ completed' \subseteq Stages /\ \A s \in completed' : s \in completed \/ result[s] = "ok"
  BY <1>1, <1>3 DEF ok
<1>8. TypeOK'
  <2>1. Journal!JournalTypeOK'
    BY <1>5 DEF Journal!JournalInv
  <2>2. Outcomes' = Outcomes
    BY DEF Outcomes
  <2> QED BY <1>1, <1>2, <1>3, <1>6, <1>7, <2>1, <2>2 DEF IInv, TypeOK
<1>9. StageInv'
  <2>1. ASSUME NEW s \in Stages PROVE StandsRight(s)'
    <3>1. StandsRight(s)
      BY DEF IInv, StageInv
    <3>2. work[s] \in {"none", "done"}
      <4>1. work[s] \in {"none", "starting", "running", "stopping", "done"}
        BY WorkTypes
      <4> QED BY <1>1, <3>1, <4>1 DEF StandsRight
    <3> QED BY <1>1, <1>2, <1>7, <3>1, <3>2 DEF StandsRight, Outcomes, Journal!Success
  <2> QED BY <2>1 DEF StageInv
<1>10. MainInv'
  <2>1. ASSUME phase' = "admitting", NEW s \in Stages, work[s] # "none" PROVE s \in completed'
    <3>1. CASE s \in completed
      BY <1>7, <3>1
    <3>2. CASE s \in batch
      <4>1. StandsRight(s) /\ result[s] \in {"", "ok", "error"}
        BY WorkTypes DEF IInv, StageInv
      <4>2. result[s] = "ok"
        BY <1>1, <1>6, <2>1, <3>2, <4>1 DEF StandsRight
      <4> QED BY <1>1, <3>2, <4>2 DEF ok
    <3> QED BY <1>3, <2>1, <3>1, <3>2
  <2>2. \A s \in pending' : work'[s] = "none" /\ plan'[s] \subseteq completed'
    BY <1>2, <1>3, <1>7
  <2> QED BY <1>1, <1>2, <1>3, <1>4, <1>6, <2>1, <2>2 DEF MainInv, Executing
<1>11. BatchInv'
  <2>1. Cardinality({}) = 0 /\ Workers \in Nat /\ budget \in [Dims -> Nat]
    BY <1>3, FS_EmptySet DEF SchedulerAssumption, ResourceAssumption
  <2>2. \A d \in Dims : Reserved({}, d) = 0
    BY ReservedFact DEF IsSum, Sums, SchedulerAssumption
  <2> QED BY <1>1, <1>2, <2>1, <2>2 DEF BatchInv
<1> QED BY <1>5, <1>8, <1>9, <1>10, <1>11 DEF IInv

LEMMA FinishStep ==
  ASSUME SchedulerAssumption, IInv, alive, UNCHANGED <<options, alive>>, Finish
  PROVE  IInv'
<1> DEFINE state == RunState(verdict = "error")
<1>1. phase = "ending" /\ phase' = "returned" /\ UNCHANGED <<pending, batch, completed, stageVars, cancelled>>
  BY DEF Finish
<1>2. /\ plan' = plan /\ work' = work /\ batch' = batch /\ completed' = completed /\ pending' = pending
      /\ cancelled' = cancelled /\ defer' = defer
  BY <1>1 DEF options, stageVars
<1>3. /\ batch = {} /\ verdict \in {"ok", "error"} /\ cancelled \in BOOLEAN /\ pending \subseteq Stages
      /\ verdict = "ok" => completed = Stages
  BY <1>1 DEF IInv, TypeOK, MainInv, Executing
<1>4. state \in {"running"} \cup Journal!Terminal /\ (verdict = "ok" => state = "succeeded")
  BY <1>3 DEF RunState, Journal!Terminal
<1>5. CASE defer /\ UNCHANGED <<verdict, journalVars>>
  <2>1. Journal!JournalInv' /\ life' = life /\ EndsRecorded'
    BY <1>1, <1>5, JournalQuiet DEF stageVars
  <2>2. MainInv'
    BY <1>1, <1>2, <1>3, <1>5 DEF MainInv, Executing
  <2> QED BY <1>1, <1>2, <1>3, <1>5, <2>1, <2>2, MainMoves
<1>6. CASE ~defer
  <2>1. PICK persisted \in BOOLEAN :
          /\ LET rec == Journal!RunRecord(state) IN IF persisted THEN Appends(rec) ELSE AppendFails(rec)
          /\ verdict' = JoinedError(persisted)
    BY <1>6, Zenon DEF Finish
  <2> HIDE DEF state
  <2>2. /\ Journal!JournalInv' /\ life'.stages = life.stages /\ EndsRecorded'
        /\ persisted => file'[Len(file')] = Journal!RunRecord(state)
    BY <1>1, <1>4, <2>1, RunRecordStep
  <2>3. verdict' \in {"ok", "error"} /\ (verdict' = "ok" => persisted /\ verdict = "ok")
    BY <1>3, <2>1 DEF JoinedError
  <2>4. verdict' = "ok" => file'[Len(file')] = Journal!RunRecord("succeeded")
    BY <1>4, <2>2, <2>3
  <2>5. Journal!RunRecord("succeeded")' = Journal!RunRecord("succeeded")
    OBVIOUS
  <2>6. MainInv'
    BY <1>1, <1>2, <1>3, <2>3, <2>4, <2>5 DEF MainInv, Executing
  <2> QED BY <1>1, <1>2, <1>3, <2>2, <2>3, <2>6, MainMoves
<1> QED BY <1>5, <1>6, Zenon DEF Finish

LEMMA FinalizeStep ==
  ASSUME SchedulerAssumption, IInv, alive, UNCHANGED <<options, alive>>, Finalize
  PROVE  IInv'
<1>1. phase = "returned" /\ phase' = "closing" /\ UNCHANGED <<pending, batch, completed, stageVars, cancelled>>
  BY DEF Finalize
<1>2. /\ plan' = plan /\ work' = work /\ batch' = batch /\ completed' = completed /\ pending' = pending
      /\ cancelled' = cancelled /\ defer' = defer
  BY <1>1 DEF options, stageVars
<1>3. /\ batch = {} /\ verdict \in {"ok", "error"} /\ cancelled \in BOOLEAN /\ pending \subseteq Stages
      /\ verdict = "ok" => completed = Stages
  BY <1>1 DEF IInv, TypeOK, MainInv, Executing
<1>4. PICK error \in {verdict = "error", TRUE}, state \in {"failed", "cancelled", "succeeded"}, persisted \in BOOLEAN :
         /\ state \in IF error THEN {"failed", "cancelled"} ELSE {"succeeded"}
         /\ LET rec == Journal!RunRecord(state) IN IF persisted THEN Appends(rec) ELSE AppendFails(rec)
         /\ verdict' = IF persisted /\ ~error THEN "ok" ELSE "error"
  <2>1. PICK error \in {verdict = "error", TRUE} : \E state \in IF error THEN {"failed", "cancelled"} ELSE {"succeeded"} :
           \/ Appends(Journal!RunRecord(state)) /\ verdict' = IF error THEN "error" ELSE "ok"
           \/ AppendFails(Journal!RunRecord(state)) /\ verdict' = "error"
    BY Zenon DEF Finalize
  <2>2. PICK state \in IF error THEN {"failed", "cancelled"} ELSE {"succeeded"} :
           \/ Appends(Journal!RunRecord(state)) /\ verdict' = IF error THEN "error" ELSE "ok"
           \/ AppendFails(Journal!RunRecord(state)) /\ verdict' = "error"
    BY <2>1
  <2>3. CASE Appends(Journal!RunRecord(state)) /\ verdict' = IF error THEN "error" ELSE "ok"
    <3>1. verdict' = IF TRUE /\ ~error THEN "ok" ELSE "error"
      BY <2>3
    <3> QED BY <2>3, <3>1
  <2>4. CASE AppendFails(Journal!RunRecord(state)) /\ verdict' = "error"
    <3>1. verdict' = IF FALSE /\ ~error THEN "ok" ELSE "error"
      BY <2>4
    <3> QED BY <2>4, <3>1
  <2> QED BY <2>2, <2>3, <2>4
<1>5. state \in {"running"} \cup Journal!Terminal /\ (~error => state = "succeeded")
  BY <1>4 DEF Journal!Terminal
<1>6. verdict' \in {"ok", "error"} /\ (verdict' = "ok" => persisted /\ ~error)
  BY <1>4
<1>7. ~error => verdict = "ok"
  BY <1>3
<1>8. /\ Journal!JournalInv' /\ life'.stages = life.stages /\ EndsRecorded'
      /\ persisted => file'[Len(file')] = Journal!RunRecord(state)
  BY <1>1, <1>4, <1>5, RunRecordStep
<1>9. verdict' = "ok" => file'[Len(file')] = Journal!RunRecord("succeeded") /\ completed' = Stages
  BY <1>2, <1>3, <1>5, <1>6, <1>7, <1>8
<1>10. MainInv'
  BY <1>1, <1>2, <1>3, <1>9 DEF MainInv, Executing
<1> QED BY <1>1, <1>2, <1>3, <1>6, <1>8, <1>10, MainMoves

LEMMA CloseFinalStep ==
  ASSUME SchedulerAssumption, IInv, alive, UNCHANGED <<options, alive>>, CloseFinal
  PROVE  IInv'
<1>1. /\ phase = "closing" /\ phase' = "finished" /\ closed' = TRUE
      /\ UNCHANGED <<file, torn, life, failed, pending, batch, completed, stageVars, cancelled>>
      /\ verdict' = verdict \/ verdict' = "error"
  BY DEF CloseFinal
<1>2. /\ plan' = plan /\ work' = work /\ batch' = batch /\ completed' = completed /\ pending' = pending
      /\ cancelled' = cancelled /\ defer' = defer /\ file' = file /\ life' = life /\ outcome' = outcome
  BY <1>1 DEF options, stageVars
<1>3. /\ batch = {} /\ verdict \in {"ok", "error"} /\ cancelled \in BOOLEAN /\ pending \subseteq Stages
      /\ verdict = "ok" => completed = Stages /\ file[Len(file)] = Journal!RunRecord("succeeded")
  BY <1>1 DEF IInv, TypeOK, MainInv, Executing
<1>4. Journal!JournalInv'
  BY <1>1, <1>2, JournalRests DEF IInv
<1>5. EndsRecorded'
  BY <1>2 DEF IInv, EndsRecorded, Journal!Active
<1>6. MainInv'
  BY <1>1, <1>2, <1>3 DEF MainInv, Executing
<1> QED BY <1>1, <1>2, <1>3, <1>4, <1>5, <1>6, MainMoves

\* MainInv reads neither the context nor the end of the file's last line.
LEMMA MainRests ==
  ASSUME IInv, UNCHANGED <<options, phase, pending, batch, completed, verdict, work, file, life>>
  PROVE  MainInv'
<1>1. /\ plan' = plan /\ defer' = defer /\ phase' = phase /\ pending' = pending /\ batch' = batch
      /\ completed' = completed /\ verdict' = verdict /\ work' = work /\ file' = file /\ life' = life
  BY DEF options
<1>2. MainInv
  BY DEF IInv
<1>3. Journal!Genesis' = Journal!Genesis
  BY DEF Journal!Genesis
<1> QED BY <1>1, <1>2, <1>3 DEF MainInv, Executing

LEMMA CancelStep ==
  ASSUME SchedulerAssumption, IInv, alive, UNCHANGED <<options, alive>>, Cancel
  PROVE  IInv'
<1>1. cancelled' = TRUE /\ UNCHANGED <<journalVars, mainVars, stageVars>>
  BY DEF Cancel
<1>2. /\ phase' = phase /\ pending' = pending /\ batch' = batch /\ completed' = completed /\ verdict' = verdict
      /\ work' = work /\ outcome' = outcome /\ file' = file /\ life' = life
  BY <1>1 DEF mainVars, stageVars, journalVars
<1>3. Journal!JournalInv' /\ EndsRecorded'
  BY <1>1, <1>2, JournalQuiet
<1>4. MainInv'
  BY <1>2, MainRests
<1> QED BY <1>1, <1>2, <1>3, <1>4, MainMoves DEF IInv, TypeOK

LEMMA CrashStep ==
  ASSUME SchedulerAssumption, IInv, Crash
  PROVE  IInv'
<1>1. Journal!JournalCrash /\ UNCHANGED <<budget, defer, mainVars, stageVars, cancelled>>
  BY DEF Crash
<1>2. plan' = plan /\ file' = file /\ life' = life
  BY <1>1 DEF Journal!JournalCrash
<1>3. /\ phase' = phase /\ pending' = pending /\ batch' = batch /\ completed' = completed /\ verdict' = verdict
      /\ work' = work /\ outcome' = outcome
  BY <1>1 DEF mainVars, stageVars
<1>4. Journal!JournalInv'
  <2>1. Theory!JournalAssumption /\ Theory!JournalInv /\ Theory!JournalCrash
    BY <1>1, TheoryAssumption, SameInvariant, SameSteps DEF IInv
  <2>2. Theory!JournalInv'
    BY <2>1, Theory!WriterInv
  <2> QED BY <2>2, SameInvariantNext
<1>5. EndsRecorded'
  BY <1>2, <1>3 DEF IInv, EndsRecorded, Journal!Active
<1>6. UNCHANGED options
  BY <1>1, <1>2 DEF options
<1>7. MainInv'
  BY <1>2, <1>3, <1>6, MainRests
<1> QED BY <1>1, <1>2, <1>3, <1>4, <1>5, <1>6, <1>7, MainMoves DEF IInv, TypeOK

-----------------------------------------------------------------------------
(***************************************************************************)
(* The inductive invariant.                                                *)
(***************************************************************************)
LEMMA EmptyReserves ==
  ASSUME OrderAssumption, ResourceAssumption, NEW d \in Dims
  PROVE  Reserved({}, d) = 0
<1>1. PICK g : /\ IsSum(g, Stages, [k \in Stages |-> Cost[k][d]])
               /\ \A S \in SUBSET Stages : Reserved(S, d) = g[S]
  BY ReservedFact
<1>2. g[{}] = 0
  BY <1>1 DEF IsSum, Sums
<1> QED BY <1>1, <1>2

LEMMA InitInv ==
  ASSUME SchedulerAssumption, Init
  PROVE  IInv
<1>1. /\ plan \in [Stages -> SUBSET Stages] /\ budget \in Budgets /\ defer \in BOOLEAN
      /\ file = << >> /\ torn = FALSE /\ life = Journal!Genesis
      /\ failed = FALSE /\ closed = FALSE /\ alive = TRUE
      /\ phase = "new" /\ pending = {} /\ batch = {} /\ completed = {}
      /\ work = [s \in Stages |-> "none"] /\ outcome = [s \in Stages |-> ""] /\ result = [s \in Stages |-> ""]
      /\ cancelled = FALSE /\ verdict = "ok"
  BY DEF Init
<1>2. Journal!JournalInv
  <2>1. Theory!JournalAssumption /\ life = Theory!Genesis
    BY <1>1, TheoryAssumption, SameRecord
  <2>2. Theory!Counted(life)
    BY <2>1, Theory!GenesisCounted
  <2>3. file = << >> /\ file \in Seq(Theory!Record) /\ Len(file) = 0
    <3>1. file = << >>
      BY <1>1
    <3> QED BY <3>1
  <2>4. Theory!Replay[0] = Theory!Genesis
    BY <2>3, Theory!ReplayFact DEF Theory!Replays
  <2>5. Theory!JournalTypeOK
    BY <1>1, <2>2, <2>3 DEF Theory!JournalTypeOK, Theory!Counted
  <2>6. ~Theory!Genesis.terminal
    BY DEF Theory!Genesis
  <2>7. Theory!Replayable
    <3>1. ~torn
      BY <1>1
    <3> QED BY <2>3, <3>1 DEF Theory!Replayable
  <2>8. Theory!JournalInv
    BY <1>1, <2>1, <2>3, <2>4, <2>5, <2>6, <2>7 DEF Theory!JournalInv, Theory!ReplayFaithful
  <2> QED BY <2>8, SameInvariant
<1>3. TypeOK
  BY <1>1, <1>2 DEF TypeOK, Journal!JournalInv
<1>4. StageInv
  <2>1. ASSUME NEW s \in Stages PROVE StandsRight(s)
    <3>1. /\ work[s] = "none" /\ outcome[s] = "" /\ result[s] = ""
          /\ Journal!Genesis.stages[s].state = ""
      BY <1>1 DEF Journal!Genesis
    <3> QED BY <1>1, <3>1 DEF StandsRight
  <2> QED BY <2>1 DEF StageInv
<1>5. MainInv
  BY <1>1 DEF MainInv, Executing
<1>6. BatchInv
  <2>1. Cardinality({}) = 0 /\ Workers \in Nat
    BY FS_EmptySet DEF SchedulerAssumption, ResourceAssumption
  <2>2. ASSUME NEW d \in Dims, budget[d] > 0 PROVE Reserved({}, d) <= budget[d]
    <3>1. Reserved({}, d) = 0 /\ budget[d] \in Nat
      BY <1>1, EmptyReserves DEF SchedulerAssumption, ResourceAssumption
    <3> QED BY <3>1
  <2>3. batch = {}
    BY <1>1
  <2>4. Cardinality(batch) <= Workers
    BY <2>1, <2>3
  <2> QED BY <2>2, <2>3, <2>4 DEF BatchInv
<1>7. EndsRecorded
  <2>1. DOMAIN file = {}
    <3>1. file = << >>
      BY <1>1
    <3> QED BY <3>1
  <2> QED BY <2>1 DEF EndsRecorded
<1> QED BY <1>2, <1>3, <1>4, <1>5, <1>6, <1>7 DEF IInv

LEMMA NextInv ==
  ASSUME SchedulerAssumption, IInv, [Next]_vars
  PROVE  IInv'
<1>1. CASE alive /\ Step /\ UNCHANGED <<options, alive>>
  <2>1. CASE Main
    <3>1. alive /\ UNCHANGED <<options, alive>>
      BY <1>1
    <3>2. Start \/ NextReady \/ Admit \/ Collect \/ Finish \/ Finalize \/ CloseFinal
      BY <2>1 DEF Main
    <3> QED BY <3>1, <3>2, StartStep, NextReadyStep, AdmitStep, CollectStep, FinishStep, FinalizeStep, CloseFinalStep
  <2>2. ASSUME NEW s \in Stages, Goroutine(s) PROVE IInv'
    BY <1>1, <2>2, StageStartStep, StageExecuteStep, StageStopStep DEF Goroutine
  <2>3. CASE Cancel
    BY <1>1, <2>3, CancelStep
  <2> QED BY <1>1, <2>1, <2>2, <2>3 DEF Step
<1>2. CASE Crash
  BY <1>2, CrashStep
<1>3. CASE UNCHANGED vars
  <2>1. UNCHANGED options /\ UNCHANGED journalVars /\ alive' = alive /\ UNCHANGED mainVars
        /\ UNCHANGED stageVars /\ cancelled' = cancelled
    BY <1>3 DEF vars
  <2>2. /\ phase' = phase /\ pending' = pending /\ batch' = batch /\ completed' = completed /\ verdict' = verdict
        /\ work' = work /\ outcome' = outcome
    BY <2>1 DEF mainVars, stageVars
  <2>3. Journal!JournalInv' /\ life' = life /\ file' = file /\ EndsRecorded'
    BY <2>1, <2>2, JournalQuiet
  <2>4. MainInv'
    BY <2>1, <2>2, <2>3, MainRests
  <2> QED BY <2>1, <2>2, <2>3, <2>4, MainMoves DEF IInv, TypeOK
<1> QED BY <1>1, <1>2, <1>3 DEF Next

\* The goroutines, the main one, the batch and the journal agree at every
\* moment, after every crash, for every plan, budget and number of workers.
THEOREM Invariance ==
  ASSUME SchedulerAssumption
  PROVE  Spec => []IInv
<1>1. Init => IInv
  BY InitInv
<1>2. IInv /\ [Next]_vars => IInv'
  BY NextInv
<1> QED BY <1>1, <1>2, PTL DEF Spec

-----------------------------------------------------------------------------
(***************************************************************************)
(* What the invariant says of batches.                                     *)
(***************************************************************************)
LEMMA RunningInBatch ==
  ASSUME IInv
  PROVE  Running \subseteq batch
<1>1. ASSUME NEW s \in Running PROVE s \in batch
  <2>1. StandsRight(s)
    BY DEF IInv, StageInv, Running
  <2> QED BY <2>1 DEF StandsRight, Running
<1> QED BY <1>1

\* Less is reserved by fewer stages.
LEMMA ReservedMono ==
  ASSUME OrderAssumption, ResourceAssumption, NEW d \in Dims, NEW S \in SUBSET Stages, NEW R \in SUBSET S
  PROVE  Reserved(R, d) \in Nat /\ Reserved(S, d) \in Nat /\ Reserved(R, d) <= Reserved(S, d)
<1> DEFINE w == [k \in Stages |-> Cost[k][d]]
<1>1. w \in [Stages -> Nat]
  BY DEF ResourceAssumption
<1>2. PICK g : IsSum(g, Stages, w) /\ \A T \in SUBSET Stages : Reserved(T, d) = g[T]
  BY ReservedFact
<1> HIDE DEF w
<1>3. g[R] <= g[S]
  BY <1>1, <1>2, StagesFinite, SumMono
<1>4. g[R] \in Nat /\ g[S] \in Nat
  BY <1>2 DEF IsSum
<1> QED BY <1>2, <1>3, <1>4

LEMMA BudgetKept ==
  ASSUME SchedulerAssumption, IInv
  PROVE  WithinBudget
<1>1. Running \subseteq batch /\ batch \subseteq Stages /\ budget \in Budgets
  BY RunningInBatch DEF IInv, TypeOK
<1>2. OrderAssumption /\ ResourceAssumption /\ Workers \in Nat
  BY DEF SchedulerAssumption, ResourceAssumption
<1>3. IsFiniteSet(batch)
  BY <1>1, <1>2, StagesFinite, FS_Subset
<1>4. Cardinality(Running) \in Nat /\ Cardinality(batch) \in Nat /\ Cardinality(Running) <= Cardinality(batch)
  BY <1>1, <1>3, FS_Subset, FS_CardinalityType
<1>5. Cardinality(batch) <= Workers /\ \A d \in Dims : budget[d] > 0 => Reserved(batch, d) <= budget[d]
  BY DEF IInv, BatchInv
<1>6. ASSUME NEW d \in Dims, budget[d] > 0 PROVE Reserved(Running, d) <= budget[d]
  <2>1. Reserved(Running, d) \in Nat /\ Reserved(batch, d) \in Nat /\ Reserved(Running, d) <= Reserved(batch, d)
    BY <1>1, <1>2, ReservedMono
  <2>2. budget[d] \in Nat
    BY <1>1 DEF SchedulerAssumption, ResourceAssumption
  <2> QED BY <1>5, <1>6, <2>1, <2>2
<1>7. Cardinality(Running) <= Workers
  BY <1>2, <1>4, <1>5
<1> QED BY <1>6, <1>7 DEF WithinBudget

\* What is completed was reported done, and with which outcome.
LEMMA CompletedFact ==
  ASSUME IInv, NEW s \in completed
  PROVE  /\ work[s] = "done" /\ life.stages[s].state = outcome[s] /\ outcome[s] \in Journal!Success
<1>1. s \in Stages
  BY DEF IInv, TypeOK
<1>2. StandsRight(s)
  BY <1>1 DEF IInv, StageInv
<1>3. result[s] = "ok" /\ life.stages[s].state = outcome[s] /\ outcome[s] \in Journal!Success
  BY <1>2, Zenon DEF StandsRight
<1>4. work[s] \in {"none", "starting", "running", "stopping", "done"}
  BY <1>1 DEF IInv, TypeOK
<1>5. work[s] = "done"
  BY <1>2, <1>3, <1>4 DEF StandsRight
<1> QED BY <1>3, <1>5

LEMMA InputsKept ==
  ASSUME SchedulerAssumption, IInv
  PROVE  InputsComplete
<1>1. ASSUME NEW s \in Running, NEW d \in plan[s]
      PROVE  d \in completed /\ work[d] = "done" /\ outcome[d] \in Journal!Success
  <2>1. s \in Stages /\ work[s] # "none"
    BY DEF Running
  <2>2. StandsRight(s)
    BY <2>1 DEF IInv, StageInv
  <2>3. d \in completed
    BY <2>1, <2>2 DEF StandsRight
  <2> QED BY <2>3, CompletedFact
<1> QED BY <1>1 DEF InputsComplete

LEMMA NotStuck ==
  ASSUME SchedulerAssumption, IInv
  PROVE  NeverStuck
<1>1. /\ plan \in [Stages -> SUBSET Stages] /\ completed \subseteq Stages /\ pending \subseteq Stages
      /\ budget \in Budgets
  <2>1. plan \in [Stages -> SUBSET Stages]
    BY JournalTypes DEF IInv
  <2> QED BY <2>1 DEF IInv, TypeOK
<1>2. ASSUME phase = "next", completed # Stages PROVE Ready # {}
  <2>1. ~Journal!HasCycle(plan)
    BY <1>2 DEF IInv, MainInv, Executing
  <2> QED BY <1>1, <1>2, <2>1, SomeReady DEF SchedulerAssumption
<1>3. ASSUME phase = "admitting", pending # {}, \A s \in pending : ~Exceeds(s) PROVE Admitted # {}
  BY <1>1, <1>3, AdmittedSome DEF SchedulerAssumption
<1> QED BY <1>2, <1>3 DEF NeverStuck

\* For every plan, budget and number of workers: what runs together fits, runs
\* on published results only, and an acyclic plan never leaves Execute with
\* stages to run and none that it can.
THEOREM Batches ==
  ASSUME SchedulerAssumption
  PROVE  Spec => []BatchesSound
<1>1. IInv => BatchesSound
  BY BudgetKept, InputsKept, NotStuck DEF BatchesSound
<1> QED BY <1>1, Invariance, PTL

-----------------------------------------------------------------------------
(***************************************************************************)
(* What the invariant says of the journal and the returned error.          *)
(***************************************************************************)
LEMMA StagesAccepted ==
  ASSUME SchedulerAssumption, IInv, NEW s \in Stages, NEW state,
         (work[s] = "starting" /\ state = "running") \/ (work[s] = "stopping" /\ state = outcome[s])
  PROVE  Journal!Acceptable(life, plan, Journal!StageRecord(s, state, 1))
<1> DEFINE rec == Journal!StageRecord(s, state, 1)
           p == life.stages[s]
<1>1. StandsRight(s)
  BY DEF IInv, StageInv
<1>2. s \in batch /\ work[s] # "none"
  BY <1>1, Zenon DEF StandsRight
<1>3. life.initialized /\ ~life.terminal
  BY <1>2 DEF IInv, MainInv, Executing
<1>4. rec.kind = "stage" /\ rec.stage = s /\ rec.state = state /\ rec.attempt = 1
  BY DEF Journal!StageRecord
<1>5. p.attempt = IF p.state = "" THEN 0 ELSE 1
  BY JournalTypes DEF IInv
<1> HIDE DEF rec
<1>6. Journal!AcceptableStage(life, plan, rec)
  <2>1. CASE work[s] = "starting" /\ state = "running"
    <3>1. p.state = ""
      BY <1>1, <2>1, Zenon DEF StandsRight
    <3>2. Journal!DependenciesMet(life, plan, s)
      <4>1. \A d \in plan[s] : d \in completed
        BY <1>1, <1>2 DEF StandsRight
      <4>2. \A d \in plan[s] : life.stages[d].state \in Journal!Success
        BY <4>1, CompletedFact
      <4> QED BY <4>2 DEF Journal!DependenciesMet
    <3>3. 1 = Journal!ExpectedAttempt(p)
      <4>1. p.attempt + 1 = 1
        <5>1. p.attempt = 0
          BY <1>5, <3>1, Zenon
        <5> HIDE DEF p
        <5> QED BY <5>1
      <4>2. p.state \notin Journal!Active
        BY <3>1 DEF Journal!Active
      <4> QED BY <4>1, <4>2, Zenon DEF Journal!ExpectedAttempt
    <3> QED BY <1>4, <2>1, <3>1, <3>2, <3>3 DEF Journal!AcceptableStage, Journal!Success, Journal!Active
  <2>2. CASE work[s] = "stopping" /\ state = outcome[s]
    <3>1. p.state = "running" /\ outcome[s] \in Outcomes
      BY <1>1, <2>2, Zenon DEF StandsRight
    <3>2. 1 = Journal!ExpectedAttempt(p)
      <4>1. p.attempt = 1 /\ p.state \in Journal!Active
        BY <1>5, <3>1 DEF Journal!Active
      <4> QED BY <4>1, Zenon DEF Journal!ExpectedAttempt
    <3>3. state \notin Journal!Active
      BY <2>2, <3>1 DEF Outcomes, Journal!Active
    <3>4. state \notin {"planned", "queued", "running"}
      BY <3>3 DEF Journal!Active
    <3> QED BY <1>4, <3>1, <3>2, <3>3, <3>4 DEF Journal!AcceptableStage, Journal!Success
  <2> QED BY <2>1, <2>2
<1>7. rec # Journal!RunRecord("running") /\ rec.kind # "run"
  BY <1>4 DEF Journal!RunRecord
<1> QED BY <1>3, <1>6, <1>7, Zenon DEF Journal!Acceptable, rec

LEMMA RunAccepted ==
  ASSUME SchedulerAssumption, IInv, phase = "ending"
  PROVE  Journal!Acceptable(life, plan, Journal!RunRecord(RunState(verdict = "error")))
<1> DEFINE state == RunState(verdict = "error")
           rec == Journal!RunRecord(state)
<1>1. life.initialized /\ ~life.terminal /\ (verdict = "ok" => completed = Stages)
  BY DEF IInv, MainInv, Executing
<1>2. verdict \in {"ok", "error"}
  BY DEF IInv, TypeOK
<1>3. state \in Journal!Terminal /\ (state = "succeeded" => completed = Stages)
  BY <1>1, <1>2 DEF RunState, Journal!Terminal
<1>4. completed = Stages => Journal!AllComplete(life)
  BY CompletedFact DEF Journal!AllComplete
<1>5. rec.kind = "run" /\ rec.state = state
  BY DEF Journal!RunRecord
<1> HIDE DEF rec, state
<1>6. Journal!Acceptable(life, plan, rec)
  BY <1>1, <1>3, <1>4, <1>5, Zenon DEF Journal!Acceptable
<1> QED BY <1>6 DEF rec, state

LEMMA IndexFact ==
  /\ \A N \in Nat : N \in 0..N /\ (N > 0 => N - 1 \in 0..N)
  /\ \A N \in Nat : \A n \in 0..N : \A m \in 1..n : m \in 1..N
  /\ \A S : \A f \in Seq(S) : DOMAIN f = 1..Len(f) /\ Len(f) \in Nat
OBVIOUS

\* The file holds the last state of every stage that the writer has recorded.
LEMMA StateRecorded ==
  ASSUME SchedulerAssumption, IInv, NEW s \in Stages, life.stages[s].state # ""
  PROVE  \E n \in DOMAIN file : file[n].stage = s /\ file[n].state = life.stages[s].state
<1>1. Theory!JournalAssumption /\ Theory!JournalInv
  BY TheoryAssumption, SameInvariant DEF IInv
<1>2. Theory!Accepted(Theory!Replay, file, Len(file), plan)
  BY <1>1, Theory!FileAccepted
<1>3. Len(file) \in Nat /\ file \in Seq(Theory!Record)
  BY <1>1, Theory!TypeFacts DEF Theory!JournalInv
<1>4. PICK n \in 0..Len(file) : life = Theory!Replay[n]
  <2>1. life = Theory!Replay[Len(file)] \/ (Len(file) > 0 /\ life = Theory!Replay[Len(file) - 1])
    BY <1>1 DEF Theory!JournalInv, Theory!ReplayFaithful
  <2>2. Len(file) \in 0..Len(file) /\ (Len(file) > 0 => Len(file) - 1 \in 0..Len(file))
    <3>1. Len(file) \in Nat
      BY <1>3
    <3> QED BY <3>1, IndexFact
  <2> QED BY <2>1, <2>2, Zenon
<1>5. Theory!LastRecord(Theory!Replay, file, n, s)
  BY <1>1, <1>2, Theory!LastRecordFact
<1>6. PICK m \in 1..n : file[m].stage = s /\ life.stages[s].state = file[m].state
  BY <1>4, <1>5, Zenon DEF Theory!LastRecord
<1>7. m \in DOMAIN file
  <2>1. DOMAIN file = 1..Len(file) /\ Len(file) \in Nat
    <3>1. file \in Seq(Theory!Record)
      BY <1>3
    <3> QED BY <3>1, IndexFact
  <2>2. m \in 1..Len(file)
    BY <2>1, IndexFact
  <2> QED BY <2>1, <2>2, Zenon
<1> QED BY <1>6, <1>7

LEMMA SuccessProven ==
  ASSUME SchedulerAssumption, IInv
  PROVE  SuccessIsProven
<1> SUFFICES ASSUME phase \in {"returned", "finished"}, verdict = "ok"
             PROVE  /\ completed = Stages
                    /\ \A s \in Stages : \E n \in DOMAIN file :
                         file[n].stage = s /\ file[n].state = outcome[s] /\ outcome[s] \in Journal!Success
                    /\ (defer /\ phase = "returned") \/ file[Len(file)] = Journal!RunRecord("succeeded")
  BY Zenon DEF SuccessIsProven
<1>1. /\ completed = Stages
      /\ (defer /\ phase = "returned") \/ file[Len(file)] = Journal!RunRecord("succeeded")
  BY DEF IInv, MainInv
<1>2. ASSUME NEW s \in Stages
      PROVE  \E n \in DOMAIN file :
               file[n].stage = s /\ file[n].state = outcome[s] /\ outcome[s] \in Journal!Success
  <2>1. life.stages[s].state = outcome[s] /\ outcome[s] \in Journal!Success
    BY <1>1, CompletedFact
  <2>2. life.stages[s].state # ""
    BY <2>1 DEF Journal!Success
  <2>3. \E n \in DOMAIN file : file[n].stage = s /\ file[n].state = life.stages[s].state
    BY <2>2, StateRecorded
  <2> QED BY <2>1, <2>3
<1> QED BY <1>1, <1>2

\* For every plan and every interleaving: no append is refused for its content,
\* success is believed only with the evidence in the file, and the file tells no
\* completion that did not happen.
THEOREM Outcome ==
  ASSUME SchedulerAssumption
  PROVE  Spec => []OutcomeProven
<1>1. ASSUME IInv PROVE OutcomeProven
  <2>1. RecordsAcceptable
    <3>1. ASSUME NEW s \in Stages, work[s] = "starting"
          PROVE  Journal!Acceptable(life, plan, Journal!StageRecord(s, "running", 1))
      BY <1>1, <3>1, StagesAccepted
    <3>2. ASSUME NEW s \in Stages, work[s] = "stopping"
          PROVE  Journal!Acceptable(life, plan, Journal!StageRecord(s, outcome[s], 1))
      BY <1>1, <3>2, StagesAccepted
    <3> QED BY <1>1, <3>1, <3>2, RunAccepted, Zenon DEF RecordsAcceptable
  <2>2. SuccessIsProven
    BY <1>1, SuccessProven
  <2>3. JournalTruthful
    <3>1. Journal!Replayable
      BY <1>1 DEF IInv, Journal!JournalInv, Journal!ReplayFaithful
    <3> QED BY <1>1, <3>1 DEF IInv, EndsRecorded, JournalTruthful
  <2> QED BY <2>1, <2>2, <2>3 DEF OutcomeProven
<1>2. IInv => OutcomeProven
  BY <1>1
<1> QED BY <1>2, Invariance, PTL

-----------------------------------------------------------------------------
\* While the main goroutine may still admit a batch, nothing has failed.
LEMMA NothingFailed ==
  ASSUME IInv, phase = "admitting", NEW k \in Stages
  PROVE  result[k] # "error"
<1>1. batch = {} /\ (work[k] # "none" => k \in completed \cup batch)
  BY DEF IInv, MainInv, Executing
<1>2. StandsRight(k)
  BY DEF IInv, StageInv
<1> QED BY <1>1, <1>2 DEF StandsRight

\* Only Admit lets a stage start.
LEMMA OnlyAdmitStarts ==
  ASSUME [Next]_vars, IInv, NEW s \in Stages, work[s] = "none", work'[s] # "none"
  PROVE  phase = "admitting"
<1>1. work' # work
  OBVIOUS
<1>2. alive /\ Step
  BY <1>1 DEF Next, vars, stageVars, Crash
<1>3. ASSUME NEW k \in Stages, Goroutine(k) PROVE FALSE
  <2>1. work[k] # "none"
    BY <1>3 DEF Goroutine, StageStart, StageExecute, StageStop
  <2>2. \/ work' = [work EXCEPT ![k] = "running"]
        \/ work' = [work EXCEPT ![k] = "stopping"]
        \/ work' = [work EXCEPT ![k] = "done"]
    BY <1>3, Zenon DEF Goroutine, StageStart, StageExecute, StageStop, Leave
  <2>3. work'[s] = work[s]
    BY <2>1, <2>2, WorkTypes
  <2> QED BY <2>3
<1>4. Admit
  BY <1>1, <1>2, <1>3 DEF Step, Main, Cancel, Start, NextReady, Collect, Finish, Finalize, CloseFinal, stageVars
<1> QED BY <1>4 DEF Admit

\* Once a stage has failed, or its record could not be written, no stage outside
\* the running batch starts.
THEOREM Stops ==
  ASSUME SchedulerAssumption
  PROVE  Spec => StopsAfterFailure
<1> DEFINE A == \A s \in Stages : work[s] = "none" /\ work'[s] # "none" =>
                  \A k \in Stages : result[k] # "error"
<1>1. IInv /\ [Next]_vars => [A]_vars
  BY OnlyAdmitStarts, NothingFailed
<1> QED BY <1>1, Invariance, PTL DEF Spec, StopsAfterFailure
=============================================================================
