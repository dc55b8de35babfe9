-------------------------- MODULE RunJournalProofs --------------------------
(***************************************************************************)
(* What a reader can conclude from a run journal, for any plan, length and *)
(* failure of the writing.  The replay is a recursive function of the file *)
(* and a reader's conclusions are facts about every prefix, so they are    *)
(* proved by induction on the length.  The library states induction for    *)
(* operators; here it is stated for sets (NatSetInduction), which the      *)
(* provers can instantiate.                                                *)
(***************************************************************************)
EXTENDS RunJournal, TLAPS, SequenceTheorems, WellFoundedInduction

JournalAssumption == NoneAssumption /\ BoundAssumption

(***************************************************************************)
(* Induction.                                                              *)
(***************************************************************************)

\* A set that contains 0 and every successor of its elements contains Nat: the
\* least number it lacked would have a predecessor in it.
LEMMA NatSetInduction ==
  ASSUME NEW T, 0 \in T, \A n \in Nat : n \in T => n + 1 \in T
  PROVE  Nat \subseteq T
<1> DEFINE R == {p \in Nat \X Nat : p[1] < p[2]}
           U == Nat \ T
<1>1. IsWellFoundedOn(R, Nat)
  <2>1. R = OpToRel(<, Nat)
    BY DEF OpToRel
  <2> QED BY <2>1, NatLessThanWellFounded
<1>2. SUFFICES ASSUME U # {} PROVE FALSE
  OBVIOUS
<1>3. PICK x \in U : \A y \in U : ~(<<y, x>> \in R)
  <2>1. U \subseteq Nat
    OBVIOUS
  <2> HIDE DEF U, R
  <2> QED BY <1>1, <1>2, <2>1, WFMin
<1>4. x \in Nat /\ x # 0 /\ x - 1 \in Nat /\ x - 1 < x
  OBVIOUS
<1>5. x - 1 \in T
  BY <1>3, <1>4
<1>6. (x - 1) + 1 = x
  BY <1>4
<1> QED BY <1>4, <1>5, <1>6

\* The same up to a bound.
LEMMA UpToInduction ==
  ASSUME NEW N \in Nat, NEW T, 0 \in T, \A n \in 0..N-1 : n \in T => n + 1 \in T
  PROVE  0..N \subseteq T
<1> DEFINE U == {n \in Nat : n <= N => n \in T}
<1>1. 0 \in U
  OBVIOUS
<1>2. ASSUME NEW n \in Nat, n \in U PROVE n + 1 \in U
  BY <1>2
<1>3. Nat \subseteq U
  <2> HIDE DEF U
  <2> QED BY <1>1, <1>2, NatSetInduction
<1> QED BY <1>3

(***************************************************************************)
(* The replay of a file.                                                   *)
(***************************************************************************)

\* f replays the first N records of F.
Replays(f, F, N) ==
  /\ DOMAIN f = 0..N /\ f[0] = Genesis
  /\ \A n \in 1..N : f[n] = Advance(f[n - 1], F[n])

\* Every file has a replay, and one only.
LEMMA ReplayExists ==
  ASSUME NEW N \in Nat, NEW F
  PROVE  \E f : Replays(f, F, N)
<1> DEFINE T == {n \in Nat : \E f : Replays(f, F, n)}
<1>1. 0 \in T
  <2>1. Replays([n \in 0..0 |-> Genesis], F, 0)
    BY DEF Replays
  <2> QED BY <2>1
<1>2. ASSUME NEW n \in Nat, n \in T PROVE n + 1 \in T
  <2>1. PICK f : Replays(f, F, n)
    BY <1>2
  <2> DEFINE g == [m \in 0..n+1 |-> IF m <= n THEN f[m] ELSE Advance(f[n], F[n + 1])]
  <2>2. g[0] = Genesis
    BY <2>1 DEF Replays
  <2>3. ASSUME NEW m \in 1..n+1 PROVE g[m] = Advance(g[m - 1], F[m])
    <3>1. CASE m <= n
      BY <2>1, <3>1 DEF Replays
    <3>2. CASE m = n + 1
      BY <3>2
    <3> QED BY <3>1, <3>2
  <2>4. Replays(g, F, n + 1)
    BY <2>2, <2>3 DEF Replays
  <2> QED BY <2>4
<1>3. Nat \subseteq T
  <2> HIDE DEF T
  <2> QED BY <1>1, <1>2, NatSetInduction
<1> QED BY <1>3

LEMMA ReplayUnique ==
  ASSUME NEW N \in Nat, NEW M \in 0..N, NEW F, NEW G, NEW f, NEW g, Replays(f, F, M), Replays(g, G, N),
         \A n \in 1..M : F[n] = G[n]
  PROVE  \A n \in 0..M : f[n] = g[n]
<1> DEFINE T == {n \in 0..M : f[n] = g[n]}
<1>1. 0 \in T
  BY DEF Replays
<1>2. ASSUME NEW n \in 0..M-1, n \in T PROVE n + 1 \in T
  <2>1. n + 1 \in 1..M /\ n + 1 \in 1..N /\ (n + 1) - 1 = n
    OBVIOUS
  <2>2. f[n + 1] = Advance(f[n], F[n + 1])
    BY <2>1 DEF Replays
  <2>3. g[n + 1] = Advance(g[n], G[n + 1])
    BY <2>1 DEF Replays
  <2> QED BY <1>2, <2>1, <2>2, <2>3
<1>3. 0..M \subseteq T
  <2> HIDE DEF T
  <2> QED BY <1>1, <1>2, UpToInduction
<1> QED BY <1>3

\* What ReadFileJournal computes is the replay of its file.
LEMMA ReplayFact ==
  ASSUME lines \in Seq(Record)
  PROVE  Replays(Replay, lines, Len(lines))
<1> DEFINE N == Len(lines)
           Step(f) == [n \in 0..N |-> IF n = 0 THEN Genesis ELSE Advance(f[n - 1], lines[n])]
<1>1. N \in Nat
  OBVIOUS
<1>2. PICK f : Replays(f, lines, N)
  BY <1>1, ReplayExists
<1>3. f = Step(f)
  <2>1. \A n \in 0..N : f[n] = Step(f)[n]
    BY <1>1, <1>2 DEF Replays
  <2>2. DOMAIN f = 0..N
    BY <1>2 DEF Replays
  <2>3. f = [n \in 0..N |-> f[n]]
    BY <2>2
  <2> QED BY <2>1, <2>3
<1>4. Replay = CHOOSE g : g = Step(g)
  BY DEF Replay
<1>5. Replay = Step(Replay)
  BY <1>3, <1>4
<1> QED
  BY <1>1, <1>5 DEF Replays

(***************************************************************************)
(* The invariant of the writer and its reader.                             *)
(***************************************************************************)
Counted(l) ==
  /\ l \in Lifecycle
  /\ \A s \in StageIds : l.stages[s].attempt = 0 <=> l.stages[s].state = ""

\* A record keeps a lifecycle a lifecycle, whether or not it is acceptable.
LEMMA AdvanceCounted ==
  ASSUME JournalAssumption, NEW l, Counted(l), NEW rec \in Record
  PROVE  Counted(Advance(l, rec))
<1>1. CASE rec.kind = "run"
  BY <1>1 DEF Counted, Advance, Lifecycle
<1>2. CASE rec.kind = "stage"
  <2>1. /\ rec.stage \in StageIds /\ rec.attempt \in 1..MaxAttempts
        /\ rec.state \in Active \cup Success \cup {"failed", "cancelled"}
    BY <1>2 DEF Record, RunRecord, StageRecord
  <2>a. MaxAttempts \in Nat
    BY DEF JournalAssumption, BoundAssumption
  <2>b. rec.state # ""
    BY <2>1 DEF Active, Success
  <2>2. rec.attempt \in 0..MaxAttempts /\ rec.attempt # 0 /\ rec.state # ""
    <3>1. \A n \in 1..MaxAttempts : n \in 0..MaxAttempts /\ n # 0
      BY <2>a
    <3> QED BY <2>1, <2>b, <3>1
  <2>3. Advance(l, rec) = [l EXCEPT !.stages = [l.stages EXCEPT ![rec.stage] = [state |-> rec.state, attempt |-> rec.attempt]]]
    BY <1>2 DEF Advance, Counted, Lifecycle
  <2> DEFINE st == [l.stages EXCEPT ![rec.stage] = [state |-> rec.state, attempt |-> rec.attempt]]
  <2>4. st \in [StageIds -> [state : Active \cup Success \cup {"", "failed", "cancelled"}, attempt : 0..MaxAttempts]]
    BY <2>1, <2>2 DEF Counted, Lifecycle
  <2>5. \A s \in StageIds : st[s].attempt = 0 <=> st[s].state = ""
    BY <2>1, <2>2 DEF Counted, Lifecycle
  <2>6. Advance(l, rec).stages = st /\ Advance(l, rec) \in Lifecycle
    <3>1. l \in Lifecycle
      BY DEF Counted
    <3>2. Advance(l, rec) = [l EXCEPT !.stages = st]
      BY <2>3
    <3> HIDE DEF st
    <3> QED BY <3>1, <3>2, <2>4 DEF Lifecycle
  <2> HIDE DEF st
  <2> QED BY <2>5, <2>6 DEF Counted
<1> QED BY <1>1, <1>2 DEF Record, RunRecord, StageRecord

\* A record of the run says nothing of a stage.
LEMMA AdvanceRun ==
  ASSUME NEW l \in Lifecycle, NEW rec, rec.kind = "run"
  PROVE  /\ Advance(l, rec).stages = l.stages
         /\ Advance(l, rec).initialized
         /\ Advance(l, rec).terminal = l.initialized
BY DEF Advance, Lifecycle

LEMMA GenesisCounted ==
  ASSUME JournalAssumption
  PROVE  Counted(Genesis)
<1>1. 0 \in 0..MaxAttempts
  BY DEF JournalAssumption, BoundAssumption
<1> QED BY <1>1 DEF Counted, Genesis, Lifecycle

LEMMA ReplayCounted ==
  ASSUME JournalAssumption, NEW N \in Nat, NEW F, \A n \in 1..N : F[n] \in Record,
         NEW f, Replays(f, F, N)
  PROVE  \A n \in 0..N : Counted(f[n])
<1> DEFINE T == {n \in 0..N : Counted(f[n])}
<1>1. 0 \in T
  BY GenesisCounted DEF Replays
<1>2. ASSUME NEW n \in 0..N-1, n \in T PROVE n + 1 \in T
  <2>1. n + 1 \in 1..N /\ (n + 1) - 1 = n
    OBVIOUS
  <2>2. f[n + 1] = Advance(f[n], F[n + 1])
    BY <2>1 DEF Replays
  <2>3. Counted(f[n + 1])
    BY <1>2, <2>1, <2>2, AdvanceCounted
  <2> QED BY <2>1, <2>3
<1>3. 0..N \subseteq T
  <2> HIDE DEF T
  <2> QED BY <1>1, <1>2, UpToInduction
<1> QED BY <1>3

\* A longer file is replayed like the shorter one, and then its last record.
LEMMA ReplayAppend ==
  ASSUME NEW F \in Seq(Record), NEW rec \in Record, NEW f, NEW g,
         Replays(f, F, Len(F)), Replays(g, Append(F, rec), Len(Append(F, rec)))
  PROVE  /\ Len(Append(F, rec)) = Len(F) + 1
         /\ \A n \in 0..Len(F) : g[n] = f[n]
         /\ g[Len(F) + 1] = Advance(f[Len(F)], rec)
<1> DEFINE N == Len(F)
           G == Append(F, rec)
<1>1. N \in Nat /\ Len(G) = N + 1 /\ G[N + 1] = rec /\ \A n \in 1..N : G[n] = F[n]
  OBVIOUS
<1>2. \A n \in 0..N : f[n] = g[n]
  <2>1. N + 1 \in Nat /\ N \in 0..N+1 /\ Replays(f, F, N) /\ Replays(g, G, N + 1) /\ \A n \in 1..N : F[n] = G[n]
    BY <1>1
  <2> HIDE DEF N, G
  <2> QED BY <2>1, ReplayUnique
<1>3. g[N + 1] = Advance(g[(N + 1) - 1], G[N + 1])
  <2>1. N + 1 \in 1..N+1 /\ Replays(g, G, N + 1)
    BY <1>1
  <2> HIDE DEF N, G
  <2> QED BY <2>1 DEF Replays
<1>4. (N + 1) - 1 = N /\ N \in 0..N
  BY <1>1
<1> QED BY <1>1, <1>2, <1>3, <1>4

(***************************************************************************)
(* The steps of the writer.                                                *)
(***************************************************************************)
\* One Append, whatever comes of it, by a process that lives.
WriterStep ==
  /\ producing /\ producing' = producing /\ dependencies' = dependencies
  /\ \/ \E rec \in Record : Persist(rec) \/ Break(rec)
     \/ Refuse

\* The file is as Append leaves it, and the replay of the longer file.
Extended(rec) ==
  /\ lines' = Append(lines, rec) /\ Len(lines') = Len(lines) + 1
  /\ \A n \in 0..Len(lines) : Replay'[n] = Replay[n]
  /\ Replay'[Len(lines) + 1] = Advance(Replay[Len(lines)], rec)

LEMMA ReplayNext == (lines \in Seq(Record) => Replays(Replay, lines, Len(lines)))'
<1>1. lines \in Seq(Record) => Replays(Replay, lines, Len(lines))
  BY ReplayFact
<1> QED BY <1>1, PTL

LEMMA ExtendedFact ==
  ASSUME lines \in Seq(Record), NEW rec \in Record, lines' = Append(lines, rec)
  PROVE  Extended(rec)
<1>1. Replays(Replay, lines, Len(lines))
  BY ReplayFact
<1>2. lines' \in Seq(Record)
  OBVIOUS
<1>3. (lines \in Seq(Record) => Replays(Replay, lines, Len(lines)))'
  BY ReplayNext
<1> QED BY <1>1, <1>2, <1>3, ReplayAppend DEF Extended

\* The file, its replay and the writer's memory keep their types.
LEMMA TypeFacts ==
  ASSUME JournalTypeOK
  PROVE  lines \in Seq(Record) /\ Len(lines) \in Nat /\ Counted(lifecycle)
<1>1. lines \in Seq(Record)
  BY DEF JournalTypeOK
<1>2. Counted(lifecycle)
  BY Zenon DEF JournalTypeOK, Counted
<1> QED BY <1>1, <1>2

\* While nothing has failed the writer's memory is the replay of its file, and
\* an acceptable record finds the run not ended.
LEMMA WriterKnows ==
  ASSUME JournalInv, producing, Writable
  PROVE  /\ lifecycle = Replay[Len(lines)] /\ ~partial
         /\ \A rec : Acceptable(lifecycle, dependencies, rec) => ~Replay[Len(lines)].terminal
<1>1. lifecycle = Replay[Len(lines)] /\ ~partial
  BY DEF JournalInv, JournalTypeOK, Writable, ReplayFaithful
<1>2. ASSUME NEW rec, Acceptable(lifecycle, dependencies, rec) PROVE ~lifecycle.terminal
  BY <1>2 DEF JournalInv, Acceptable
<1> QED BY <1>1, <1>2

LEMMA ExtendedReplayable ==
  ASSUME JournalInv, producing, Writable, NEW rec \in Record, Acceptable(lifecycle, dependencies, rec),
         lines' = Append(lines, rec), dependencies' = dependencies, partial' = partial
  PROVE  Replayable'
<1>1. Extended(rec) /\ Len(lines) \in Nat
  BY ExtendedFact, TypeFacts DEF JournalInv
<1>2. lifecycle = Replay[Len(lines)] /\ ~partial
  BY WriterKnows
<1>3. ~partial'
  BY <1>2
<1>4. ASSUME NEW n \in 1..Len(lines)' PROVE Acceptable(Replay[n - 1]', dependencies', lines[n]')
  <2>1. CASE n \in 1..Len(lines)
    <3>1. lines'[n] = lines[n]
      BY <2>1, TypeFacts DEF JournalInv
    <3>2. Replay'[n - 1] = Replay[n - 1]
      BY <1>1, <2>1 DEF Extended
    <3>3. Acceptable(Replay[n - 1], dependencies, lines[n])
      BY <2>1 DEF JournalInv, ReplayFaithful, Replayable
    <3> QED BY <3>1, <3>2, <3>3
  <2>2. CASE n = Len(lines) + 1
    <3>1. lines'[n] = rec
      BY <2>2, TypeFacts DEF JournalInv
    <3>2. Replay'[n - 1] = Replay[Len(lines)]
      BY <1>1, <2>2 DEF Extended
    <3> QED BY <1>2, <3>1, <3>2
  <2> QED BY <1>1, <2>1, <2>2 DEF Extended
<1> QED BY <1>3, <1>4 DEF Replayable

LEMMA PersistStep ==
  ASSUME JournalAssumption, JournalInv, producing, producing' = producing, dependencies' = dependencies, NEW rec \in Record, Persist(rec)
  PROVE  JournalInv'
<1>1. Writable /\ Acceptable(lifecycle, dependencies, rec) /\ lines' = Append(lines, rec) /\ lifecycle' = Advance(lifecycle, rec)
  BY DEF Persist
<1>2. partial' = partial /\ poisoned' = poisoned /\ sealed' = sealed
  BY DEF Persist
<1>3. Extended(rec) /\ Len(lines) \in Nat
  BY <1>1, ExtendedFact, TypeFacts DEF JournalInv
<1>4. JournalTypeOK'
  <2>1. Counted(lifecycle')
    BY <1>1, AdvanceCounted, TypeFacts DEF JournalInv
  <2>2. lines' \in Seq(Record)
    BY <1>1, TypeFacts DEF JournalInv
  <2> QED BY <1>2, <2>1, <2>2 DEF JournalInv, JournalTypeOK, Counted
<1>5. Replayable'
  BY <1>1, <1>2, ExtendedReplayable
<1>6. lifecycle' = Replay'[Len(lines')]
  BY <1>1, <1>3, WriterKnows DEF Extended
<1>7. lifecycle'.terminal => lifecycle'.initialized
  <2>1. lifecycle \in Lifecycle
    BY TypeFacts DEF JournalInv, Counted
  <2>2. CASE rec.kind = "run"
    BY <1>1, <2>1, <2>2 DEF Advance, Lifecycle
  <2>3. CASE rec.kind # "run"
    <3>1. lifecycle'.terminal = lifecycle.terminal /\ lifecycle'.initialized = lifecycle.initialized
      BY <1>1, <2>1, <2>3 DEF Advance, Lifecycle
    <3> QED BY <3>1 DEF JournalInv
  <2> QED BY <2>2, <2>3
<1>8. ~partial'
  BY <1>1, <1>2, WriterKnows
<1> QED BY <1>4, <1>5, <1>6, <1>7, <1>8 DEF JournalInv, ReplayFaithful

LEMMA BreakStep ==
  ASSUME JournalAssumption, JournalInv, producing, producing' = producing, dependencies' = dependencies, NEW rec \in Record, Break(rec)
  PROVE  JournalInv'
<1>1. Writable /\ poisoned' = TRUE /\ lifecycle' = lifecycle /\ sealed' = sealed
  BY DEF Break
<1>2. CASE lines' = lines
  <2>1. partial' = partial \/ (partial' = TRUE /\ Acceptable(lifecycle, dependencies, rec))
    <3>1. CASE Acceptable(lifecycle, dependencies, rec) /\ lines' = Append(lines, rec) /\ partial' = partial
      BY <3>1
    <3> QED BY <3>1 DEF Break
  <2>2. Replay' = Replay
    BY <1>2 DEF Replay
  <2>3. JournalTypeOK'
    BY <1>1, <1>2, <2>1 DEF JournalInv, JournalTypeOK
  <2>4. Replayable'
    <3>1. \A n \in 1..Len(lines) : Acceptable(Replay[n - 1], dependencies, lines[n])
      BY DEF JournalInv, ReplayFaithful, Replayable
    <3>2. partial' => ~Replay[Len(lines)].terminal
      BY <1>1, <2>1, WriterKnows
    <3> QED BY <1>2, <2>2, <3>1, <3>2 DEF Replayable
  <2>5. lifecycle' = Replay'[Len(lines')]
    BY <1>1, <1>2, <2>2, WriterKnows
  <2> QED BY <1>1, <2>3, <2>4, <2>5 DEF JournalInv, ReplayFaithful
<1>3. CASE Acceptable(lifecycle, dependencies, rec) /\ lines' = Append(lines, rec) /\ partial' = partial
  <2>1. Extended(rec) /\ Len(lines) \in Nat
    BY <1>3, ExtendedFact, TypeFacts DEF JournalInv
  <2>2. lines' \in Seq(Record)
    BY <1>3, TypeFacts DEF JournalInv
  <2>3. JournalTypeOK'
    BY <1>1, <1>3, <2>2 DEF JournalInv, JournalTypeOK
  <2>4. Replayable'
    BY <1>1, <1>3, ExtendedReplayable
  <2>5. lifecycle' = Replay'[Len(lines') - 1] /\ Len(lines') > 0
    <3>1. Len(lines') - 1 = Len(lines) /\ Len(lines') > 0
      BY <2>1 DEF Extended
    <3>2. Replay'[Len(lines)] = Replay[Len(lines)]
      BY <2>1 DEF Extended
    <3> QED BY <1>1, <3>1, <3>2, WriterKnows
  <2> QED BY <1>1, <2>3, <2>4, <2>5 DEF JournalInv, ReplayFaithful
<1> QED BY <1>2, <1>3 DEF Break

\* IInv is about the file, the incomplete line and the writer's memory.
LEMMA QuietStep ==
  ASSUME JournalInv, UNCHANGED <<dependencies, lines, partial, lifecycle, poisoned>>, sealed' \in BOOLEAN, producing' \in BOOLEAN,
         producing' => producing
  PROVE  JournalInv'
<1>1. Replay' = Replay
  BY DEF Replay
<1>2. Replayable'
  <2>1. \A n \in 1..Len(lines) : Acceptable(Replay[n - 1], dependencies, lines[n])
    BY DEF JournalInv, ReplayFaithful, Replayable
  <2>2. partial => ~Replay[Len(lines)].terminal
    BY DEF JournalInv, ReplayFaithful, Replayable
  <2> QED BY <1>1, <2>1, <2>2 DEF Replayable
<1>3. JournalTypeOK'
  BY DEF JournalInv, JournalTypeOK
<1> QED BY <1>1, <1>2, <1>3 DEF JournalInv, ReplayFaithful

LEMMA CrashStep ==
  ASSUME JournalInv, JournalCrash
  PROVE  JournalInv'
<1>1. producing /\ producing' = FALSE /\ UNCHANGED <<dependencies, lines, lifecycle, poisoned, sealed>>
  BY DEF JournalCrash
<1>2. CASE partial' = partial
  BY <1>1, <1>2, QuietStep DEF JournalInv, JournalTypeOK
<1>3. CASE Writable /\ ~lifecycle.terminal /\ partial' = TRUE
  <2>1. Replay' = Replay
    BY <1>1 DEF Replay
  <2>2. lifecycle = Replay[Len(lines)]
    BY <1>1, <1>3, WriterKnows
  <2>3. \A n \in 1..Len(lines) : Acceptable(Replay[n - 1], dependencies, lines[n])
    BY DEF JournalInv, ReplayFaithful, Replayable
  <2>4. Replayable'
    BY <1>1, <1>3, <2>1, <2>2, <2>3 DEF Replayable
  <2>5. JournalTypeOK'
    BY <1>1, <1>3 DEF JournalInv, JournalTypeOK
  <2> QED BY <1>1, <2>1, <2>2, <2>4, <2>5 DEF JournalInv, ReplayFaithful
<1> QED BY <1>2, <1>3 DEF JournalCrash

\* Appending, refusing, failing and dying keep the invariant, also in the
\* executor's hands.
LEMMA WriterInv ==
  ASSUME JournalAssumption, JournalInv, WriterStep \/ JournalCrash
  PROVE  JournalInv'
<1>1. CASE JournalCrash
  BY <1>1, CrashStep
<1>2. CASE WriterStep
  <2>1. CASE Refuse
    BY <1>2, <2>1, QuietStep DEF WriterStep, Refuse, writerVars, JournalInv, JournalTypeOK
  <2>2. CASE \E rec \in Record : Persist(rec) \/ Break(rec)
    BY <1>2, <2>2, PersistStep, BreakStep DEF WriterStep
  <2> QED BY <1>2, <2>1, <2>2 DEF WriterStep
<1> QED BY <1>1, <1>2

LEMMA InitInv ==
  ASSUME JournalAssumption, JournalInit
  PROVE  JournalInv
<1>1. lines = << >> /\ lines \in Seq(Record) /\ Len(lines) = 0
  BY DEF JournalInit
<1>2. Replay[0] = Genesis
  BY <1>1, ReplayFact DEF Replays
<1>3. Counted(lifecycle)
  BY GenesisCounted DEF JournalInit
<1>4. ~lifecycle.terminal
  BY DEF JournalInit, Genesis
<1>5. JournalTypeOK
  BY <1>1, <1>3 DEF JournalInit, JournalTypeOK, Counted
<1>6. ~partial /\ lifecycle = Genesis
  BY DEF JournalInit
<1>7. Replayable
  BY <1>1, <1>6 DEF Replayable
<1> QED BY <1>1, <1>2, <1>4, <1>5, <1>6, <1>7 DEF JournalInv, ReplayFaithful

LEMMA NextInv ==
  ASSUME JournalAssumption, JournalInv, [JournalNext]_runVars
  PROVE  JournalInv'
<1>1. CASE AppendRecord
  BY <1>1, WriterInv DEF AppendRecord, WriterStep
<1>2. CASE CloseJournal
  BY <1>2, QuietStep DEF CloseJournal, JournalInv, JournalTypeOK
<1>3. CASE JournalCrash
  BY <1>3, CrashStep
<1>4. CASE UNCHANGED runVars
  BY <1>4, QuietStep DEF runVars, writerVars, JournalInv, JournalTypeOK
<1> QED BY <1>1, <1>2, <1>3, <1>4 DEF JournalNext

\* Whatever prefix a failed write or a dead process leaves, the reader accepts
\* it and sees what the writer had in memory, save for one unacknowledged
\* record.
THEOREM Invariance ==
  ASSUME JournalAssumption
  PROVE  JournalSpec => []JournalInv
<1>1. JournalInit => JournalInv
  BY InitInv
<1>2. JournalInv /\ [JournalNext]_runVars => JournalInv'
  BY NextInv
<1> QED BY <1>1, <1>2, PTL DEF JournalSpec

(***************************************************************************)
(* What the records of an accepted file say of each other.                 *)
(***************************************************************************)
\* f replays F, each record being acceptable where it stands.
Accepted(f, F, N, deps) ==
  /\ N \in Nat /\ Replays(f, F, N)
  /\ \A n \in 1..N : F[n] \in Record /\ Acceptable(f[n - 1], deps, F[n])

LEMMA FileAccepted ==
  ASSUME JournalInv
  PROVE  Accepted(Replay, lines, Len(lines), dependencies)
<1>1. lines \in Seq(Record) /\ Len(lines) \in Nat
  BY TypeFacts DEF JournalInv
<1>2. \A n \in 1..Len(lines) : lines[n] \in Record
  BY <1>1
<1>3. \A n \in 1..Len(lines) : Acceptable(Replay[n - 1], dependencies, lines[n])
  BY DEF JournalInv, ReplayFaithful, Replayable
<1> QED BY <1>1, <1>2, <1>3, ReplayFact DEF Accepted

\* What record n + 1 means for stage s: nothing, or the stage's next state,
\* which the lifecycle must have allowed.
StepOf(f, F, deps, n, s) ==
  /\ F[n + 1].stage # s => f[n + 1].stages[s] = f[n].stages[s]
  /\ F[n + 1].stage = s =>
       /\ F[n + 1].kind = "stage"
       /\ f[n + 1].stages[s].state = F[n + 1].state /\ f[n + 1].stages[s].attempt = F[n + 1].attempt
       /\ f[n].stages[s].state \notin Success
       /\ F[n + 1].attempt = ExpectedAttempt(f[n].stages[s])
       /\ F[n + 1].state = "running" => DependenciesMet(f[n], deps, s)

LEMMA RecordStep ==
  ASSUME JournalAssumption, NEW N, NEW f, NEW F, NEW deps, Accepted(f, F, N, deps),
         NEW n \in 0..N-1, NEW s \in StageIds
  PROVE  Counted(f[n]) /\ StepOf(f, F, deps, n, s)
<1> DEFINE rec == F[n + 1]
           l == f[n]
           next == f[n + 1]
<1>1. n + 1 \in 1..N /\ n \in 0..N /\ n + 1 \in 0..N /\ (n + 1) - 1 = n
  BY DEF Accepted
<1>2. rec \in Record /\ Acceptable(l, deps, rec) /\ next = Advance(l, rec)
  BY <1>1 DEF Accepted, Replays
<1>3. Counted(l) /\ l \in Lifecycle
  <2>1. Counted(f[n])
    BY <1>1, ReplayCounted DEF Accepted
  <2> QED BY <2>1 DEF Counted
<1> HIDE DEF rec, l, next
<1>4. l.stages \in [StageIds -> [state : Active \cup Success \cup {"", "failed", "cancelled"}, attempt : 0..MaxAttempts]]
  BY <1>3 DEF Lifecycle
<1>5. \/ rec.kind = "run" /\ rec.stage = NoStage
      \/ rec.kind = "stage" /\ rec.stage \in StageIds
  BY <1>2 DEF Record, RunRecord, StageRecord
<1>6. NoStage # s
  BY DEF JournalAssumption, NoneAssumption
<1>7. CASE rec.kind = "run"
  <2>1. next.stages = l.stages
    BY <1>2, <1>3, <1>7, AdvanceRun
  <2>2. rec.stage # s
    BY <1>5, <1>6, <1>7
  <2> QED BY <1>3, <2>1, <2>2 DEF rec, l, next, StepOf
<1>8. CASE rec.kind = "stage"
  <2>1. rec.stage \in StageIds
    BY <1>5, <1>8
  <2>2. next.stages = [l.stages EXCEPT ![rec.stage] = [state |-> rec.state, attempt |-> rec.attempt]]
    BY <1>2, <1>3, <1>8 DEF Advance, Lifecycle
  <2>3. next.stages[s] = IF rec.stage = s THEN [state |-> rec.state, attempt |-> rec.attempt] ELSE l.stages[s]
    BY <1>4, <2>2
  <2>4. AcceptableStage(l, deps, rec)
    <3>1. rec # RunRecord("running") /\ rec.kind # "run"
      BY <1>8 DEF RunRecord
    <3> QED BY <1>2, <3>1, Zenon DEF Acceptable
  <2>5. /\ l.stages[rec.stage].state \notin Success
        /\ rec.attempt = ExpectedAttempt(l.stages[rec.stage])
        /\ rec.state = "running" => DependenciesMet(l, deps, rec.stage)
    BY <2>4 DEF AcceptableStage
  <2>6. CASE rec.stage = s
    <3>1. next.stages[s].state = rec.state /\ next.stages[s].attempt = rec.attempt
      BY <2>3, <2>6
    <3> QED BY <1>3, <1>8, <2>5, <2>6, <3>1 DEF rec, l, next, StepOf
  <2>7. CASE rec.stage # s
    <3>1. next.stages[s] = l.stages[s]
      BY <2>3, <2>7
    <3> QED BY <1>3, <2>7, <3>1 DEF rec, l, next, StepOf
  <2> QED BY <2>6, <2>7
<1> QED BY <1>5, <1>7, <1>8

\* The lifecycle holds, of each stage, its last record.
LastRecord(f, F, n, s) ==
  \/ f[n].stages[s].state = "" /\ \A k \in 1..n : F[k].stage # s
  \/ \E m \in 1..n : /\ F[m].stage = s
                     /\ f[n].stages[s].state = F[m].state /\ f[n].stages[s].attempt = F[m].attempt
                     /\ \A k \in m+1..n : F[k].stage # s

LEMMA LastRecordFact ==
  ASSUME JournalAssumption, NEW N, NEW f, NEW F, NEW deps, Accepted(f, F, N, deps), NEW s \in StageIds
  PROVE  \A n \in 0..N : LastRecord(f, F, n, s)
<1> DEFINE T == {n \in 0..N : LastRecord(f, F, n, s)}
<1>0. N \in Nat /\ f[0] = Genesis
  BY DEF Accepted, Replays
<1>1. 0 \in T
  <2>1. f[0].stages[s].state = ""
    <3>1. Genesis.stages[s].state = ""
      BY DEF Genesis
    <3> QED BY <1>0, <3>1, Zenon
  <2>2. \A k \in 1..0 : F[k].stage # s
    OBVIOUS
  <2>3. LastRecord(f, F, 0, s)
    BY <2>1, <2>2, Zenon DEF LastRecord
  <2> QED BY <1>0, <2>3
<1>2. ASSUME NEW n \in 0..N-1, n \in T PROVE n + 1 \in T
  <2>0. n + 1 \in 0..N /\ n \in Nat
    BY <1>0
  <2>1. StepOf(f, F, deps, n, s) /\ LastRecord(f, F, n, s)
    BY <1>2, RecordStep
  <2>2. SUFFICES LastRecord(f, F, n + 1, s)
    BY <2>0
  <2> HIDE DEF T
  <2>3. CASE F[n + 1].stage # s
    <3>1. f[n + 1].stages[s] = f[n].stages[s]
      BY <2>1, <2>3, Zenon DEF StepOf
    <3>2. CASE f[n].stages[s].state = "" /\ \A k \in 1..n : F[k].stage # s
      <4>1. \A k \in 1..n+1 : k \in 1..n \/ k = n + 1
        BY <2>0
      <4>2. \A k \in 1..n+1 : F[k].stage # s
        BY <2>3, <3>2, <4>1, Zenon
      <4> QED BY <3>1, <3>2, <4>2, Zenon DEF LastRecord
    <3>3. ASSUME NEW m \in 1..n, F[m].stage = s,
                 f[n].stages[s].state = F[m].state, f[n].stages[s].attempt = F[m].attempt,
                 \A k \in m+1..n : F[k].stage # s
          PROVE  LastRecord(f, F, n + 1, s)
      <4>1. m \in 1..n+1 /\ \A k \in m+1..n+1 : k \in m+1..n \/ k = n + 1
        BY <2>0
      <4>2. \A k \in m+1..n+1 : F[k].stage # s
        BY <2>3, <3>3, <4>1, Zenon
      <4> QED BY <3>1, <3>3, <4>1, <4>2, Zenon DEF LastRecord
    <3> QED BY <2>1, <3>2, <3>3, Zenon DEF LastRecord
  <2>4. CASE F[n + 1].stage = s
    <3>1. f[n + 1].stages[s].state = F[n + 1].state /\ f[n + 1].stages[s].attempt = F[n + 1].attempt
      BY <2>1, <2>4, Zenon DEF StepOf
    <3>2. n + 1 \in 1..n+1 /\ \A k \in (n + 1)+1..n+1 : F[k].stage # s
      BY <2>0
    <3> QED BY <2>4, <3>1, <3>2, Zenon DEF LastRecord
  <2> QED BY <2>3, <2>4
<1>3. 0..N \subseteq T
  <2> HIDE DEF T
  <2> QED BY <1>0, <1>1, <1>2, UpToInduction
<1> QED BY <1>3

\* A stage that the lifecycle holds as completed has a record that says so.
LEMMA CompletionRecorded ==
  ASSUME JournalAssumption, NEW N, NEW f, NEW F, NEW deps, Accepted(f, F, N, deps), NEW s \in StageIds,
         NEW n \in 0..N, f[n].stages[s].state \in Success
  PROVE  \E m \in 1..n : F[m].stage = s /\ F[m].state \in Success
<1>1. LastRecord(f, F, n, s)
  BY LastRecordFact
<1>2. f[n].stages[s].state # ""
  BY DEF Success
<1> QED BY <1>1, <1>2, Zenon DEF LastRecord

\* A completed stage stays completed: no later record is about it.
LEMMA CompletionIsFinal ==
  ASSUME JournalAssumption, NEW N, NEW f, NEW F, NEW deps, Accepted(f, F, N, deps), NEW s \in StageIds,
         NEW m \in 1..N, F[m].stage = s, F[m].state \in Success
  PROVE  \A n \in m+1..N : F[n].stage # s
<1> DEFINE Done(n) == f[n].stages[s].state \in Success
           T == {n \in 0..N : n >= m => Done(n)}
<1>0. N \in Nat /\ m \in Nat /\ m >= 1
  BY DEF Accepted
<1>1. 0 \in T
  BY <1>0
<1>2. ASSUME NEW n \in 0..N-1 PROVE Done(n) => F[n + 1].stage # s /\ Done(n + 1)
  <2>1. StepOf(f, F, deps, n, s)
    BY RecordStep
  <2> QED BY <2>1, Zenon DEF StepOf
<1>3. ASSUME NEW n \in 0..N-1, n + 1 = m PROVE Done(n + 1)
  <2>1. StepOf(f, F, deps, n, s)
    BY RecordStep
  <2> QED BY <1>3, <2>1, Zenon DEF StepOf
<1> HIDE DEF Done
<1>4. ASSUME NEW n \in 0..N-1, n \in T PROVE n + 1 \in T
  BY <1>0, <1>2, <1>3, <1>4
<1>5. 0..N \subseteq T
  <2> HIDE DEF T
  <2> QED BY <1>0, <1>1, <1>4, UpToInduction
<1>6. ASSUME NEW n \in m+1..N PROVE F[n].stage # s
  <2>1. n - 1 \in 0..N-1 /\ n - 1 \in 0..N /\ (n - 1) + 1 = n /\ n - 1 >= m
    BY <1>0
  <2>2. Done(n - 1)
    BY <1>5, <2>1
  <2> QED BY <1>2, <2>1, <2>2
<1> QED BY <1>6

LEMMA RunningDependencies ==
  ASSUME JournalAssumption, NEW N, NEW f, NEW F, NEW deps, Accepted(f, F, N, deps),
         deps \in [StageIds -> SUBSET StageIds],
         NEW n \in 1..N, F[n].kind = "stage", F[n].state = "running"
  PROVE  /\ \A d \in deps[F[n].stage] : \E m \in 1..n : F[m].stage = d /\ F[m].state \in Success
         /\ \A m \in 1..n : F[m].stage = F[n].stage => F[m].state \notin Success
<1>1. N \in Nat /\ F[n] \in Record
  BY DEF Accepted
<1>2. F[n].stage \in StageIds
  BY <1>1 DEF Record, RunRecord, StageRecord
<1> DEFINE s == F[n].stage
           k == n - 1
<1>3. k \in 0..N-1 /\ k \in 0..N /\ k + 1 = n
  BY <1>1
<1> HIDE DEF k
<1>4. StepOf(f, F, deps, k, s)
  BY <1>2, <1>3, RecordStep
<1>5. DependenciesMet(f[k], deps, s)
  BY <1>3, <1>4, Zenon DEF StepOf
<1>6. ASSUME NEW d \in deps[s] PROVE \E m \in 1..n : F[m].stage = d /\ F[m].state \in Success
  <2>1. f[k].stages[d].state \in Success
    BY <1>5 DEF DependenciesMet
  <2>2. d \in StageIds
    BY <1>2
  <2>3. PICK m \in 1..k : F[m].stage = d /\ F[m].state \in Success
    BY <1>3, <2>1, <2>2, CompletionRecorded
  <2>4. m \in 1..n
    BY <1>1, <1>3
  <2> QED BY <2>3, <2>4, Zenon
<1>7. ASSUME NEW m \in 1..n, F[m].stage = s, F[m].state \in Success PROVE FALSE
  <2>1. m # n
    BY <1>7 DEF Success
  <2>2. m \in 1..N /\ n \in m+1..N
    BY <1>1, <2>1
  <2>3. F[n].stage # s
    BY <1>2, <1>7, <2>2, CompletionIsFinal
  <2> QED BY <2>3
<1> QED BY <1>6, <1>7

LEMMA SuccessRecords ==
  ASSUME JournalAssumption, NEW N, NEW f, NEW F, NEW deps, Accepted(f, F, N, deps),
         NEW n \in 1..N, F[n] = RunRecord("succeeded"), NEW s \in StageIds
  PROVE  \E m \in 1..n : F[m].stage = s /\ F[m].state \in Success
<1> DEFINE k == n - 1
<1>1. N \in Nat /\ k \in 0..N /\ k \in 0..n
  BY DEF Accepted
<1>2. Acceptable(f[k], deps, F[n])
  BY DEF Accepted
<1> HIDE DEF k
<1>3. F[n].kind = "run" /\ F[n].state = "succeeded" /\ F[n] # RunRecord("running")
  BY DEF RunRecord
<1>4. AllComplete(f[k])
  BY <1>2, <1>3, Zenon DEF Acceptable
<1>5. PICK m \in 1..k : F[m].stage = s /\ F[m].state \in Success
  BY <1>1, <1>4, CompletionRecorded DEF AllComplete
<1>6. m \in 1..n
  BY <1>1
<1> QED BY <1>5, <1>6, Zenon

\* Attempt a of stage s, among the first n records, follows the failure of
\* attempt a - 1.
Follows(F, n, s, a) ==
  \E m \in 1..n : /\ F[m].stage = s /\ F[m].attempt = a - 1 /\ F[m].state \in {"failed", "cancelled"}
                  /\ \A k \in m+1..n : F[k].stage = s => F[k].attempt = a

LEMMA AttemptsFollow ==
  ASSUME JournalAssumption, NEW N, NEW f, NEW F, NEW deps, Accepted(f, F, N, deps), NEW s \in StageIds
  PROVE  \A n \in 0..N : f[n].stages[s].attempt > 1 => Follows(F, n, s, f[n].stages[s].attempt)
<1> DEFINE P(n) == f[n].stages[s].attempt > 1 => Follows(F, n, s, f[n].stages[s].attempt)
           T == {n \in 0..N : P(n)}
<1>0. N \in Nat /\ f[0] = Genesis
  BY DEF Accepted, Replays
<1>1. 0 \in T
  <2>1. Genesis.stages[s].attempt = 0
    BY DEF Genesis
  <2>2. f[0].stages[s].attempt = 0
    BY <1>0, <2>1, Zenon
  <2> QED BY <1>0, <2>2
<1>2. ASSUME NEW n \in 0..N-1, P(n) PROVE P(n + 1)
  <2>0. n + 1 \in 1..n+1 /\ n \in Nat /\ n \in 0..N
    BY <1>0
  <2>1. StepOf(f, F, deps, n, s) /\ Counted(f[n]) /\ LastRecord(f, F, n, s)
    BY <2>0, RecordStep, LastRecordFact
  <2> DEFINE a == f[n].stages[s].attempt
             b == f[n + 1].stages[s].attempt
  <2>2. a \in Nat /\ (a = 0 <=> f[n].stages[s].state = "")
        /\ f[n].stages[s].state \in Active \cup Success \cup {"", "failed", "cancelled"}
    <3>1. f[n].stages[s] \in [state : Active \cup Success \cup {"", "failed", "cancelled"}, attempt : 0..MaxAttempts]
      BY <2>1 DEF Counted, Lifecycle
    <3>2. a \in 0..MaxAttempts
      BY <3>1
    <3>3. MaxAttempts \in Nat
      BY DEF JournalAssumption, BoundAssumption
    <3>4. a \in Nat
      BY <3>2, <3>3
    <3>5. a = 0 <=> f[n].stages[s].state = ""
      BY <2>1 DEF Counted
    <3> QED BY <3>1, <3>4, <3>5
  <2>3. SUFFICES ASSUME b > 1 PROVE Follows(F, n + 1, s, b)
    OBVIOUS
  <2>4. ASSUME b = a, F[n + 1].stage = s => F[n + 1].attempt = a
        PROVE  Follows(F, n + 1, s, b)
    <3>1. Follows(F, n, s, a)
      BY <1>2, <2>3, <2>4
    <3>2. PICK m \in 1..n : /\ F[m].stage = s /\ F[m].attempt = a - 1 /\ F[m].state \in {"failed", "cancelled"}
                            /\ \A k \in m+1..n : F[k].stage = s => F[k].attempt = a
      BY <3>1 DEF Follows
    <3>3. m \in 1..n+1 /\ \A k \in m+1..n+1 : k \in m+1..n \/ k = n + 1
      BY <2>0
    <3>4. \A k \in m+1..n+1 : F[k].stage = s => F[k].attempt = a
      BY <2>4, <3>2, <3>3, Zenon
    <3> HIDE DEF a, b
    <3> QED BY <2>4, <3>2, <3>3, <3>4, Zenon DEF Follows
  <2>5. CASE F[n + 1].stage # s
    <3>1. f[n + 1].stages[s] = f[n].stages[s]
      BY <2>1, <2>5, Zenon DEF StepOf
    <3>2. b = a
      BY <3>1, Zenon
    <3> HIDE DEF a, b
    <3> QED BY <2>4, <2>5, <3>2, Zenon
  <2>6. CASE F[n + 1].stage = s
    <3>1. b = F[n + 1].attempt /\ f[n].stages[s].state \notin Success /\ b = ExpectedAttempt(f[n].stages[s])
      BY <2>1, <2>6, Zenon DEF StepOf
    <3>2. CASE f[n].stages[s].state \in Active
      <4>1. b = a
        BY <3>1, <3>2 DEF ExpectedAttempt
      <4> HIDE DEF a, b
      <4> QED BY <2>4, <3>1, <4>1, Zenon
    <3>3. CASE f[n].stages[s].state \notin Active
      <4>1. b = a + 1
        BY <3>1, <3>3 DEF ExpectedAttempt
      <4>2. a # 0 /\ b - 1 = a
        <5>1. a \in Nat /\ b > 1
          BY <2>2, <2>3
        <5> HIDE DEF a, b
        <5> QED BY <4>1, <5>1
      <4>3. f[n].stages[s].state \in {"failed", "cancelled"} /\ f[n].stages[s].state # ""
        BY <2>2, <3>1, <3>3, <4>2
      <4>4. PICK m \in 1..n : /\ F[m].stage = s
                              /\ f[n].stages[s].state = F[m].state /\ a = F[m].attempt
                              /\ \A k \in m+1..n : F[k].stage # s
        BY <2>1, <4>3, Zenon DEF LastRecord
      <4>5. m \in 1..n+1 /\ \A k \in m+1..n+1 : k \in m+1..n \/ k = n + 1
        BY <2>0
      <4>6. \A k \in m+1..n+1 : F[k].stage = s => F[k].attempt = b
        BY <3>1, <4>4, <4>5, Zenon
      <4>7. F[m].attempt = b - 1 /\ F[m].state \in {"failed", "cancelled"}
        BY <4>2, <4>3, <4>4, Zenon
      <4> HIDE DEF a, b
      <4> QED BY <4>4, <4>5, <4>6, <4>7, Zenon DEF Follows
    <3> QED BY <3>2, <3>3
  <2> QED BY <2>5, <2>6
<1> HIDE DEF P
<1>3. \A n \in 0..N-1 : n \in T => n + 1 \in T
  BY <1>0, <1>2
<1>4. 0..N \subseteq T
  <2> HIDE DEF T
  <2> QED BY <1>0, <1>1, <1>3, UpToInduction
<1> QED BY <1>4 DEF P

LEMMA AttemptNumbered ==
  ASSUME JournalAssumption, NEW N, NEW f, NEW F, NEW deps, Accepted(f, F, N, deps),
         NEW n \in 1..N, F[n].attempt > 1
  PROVE  Follows(F, n, F[n].stage, F[n].attempt)
<1>1. N \in Nat /\ F[n] \in Record
  BY DEF Accepted
<1>2. F[n].kind # "run"
  <2>1. CASE F[n].kind = "run"
    <3>1. F[n].attempt = 0
      BY <1>1, <2>1 DEF Record, RunRecord, StageRecord
    <3> QED BY <3>1
  <2> QED BY <2>1
<1>3. F[n].stage \in StageIds
  BY <1>1, <1>2 DEF Record, RunRecord, StageRecord
<1> DEFINE s == F[n].stage
           k == n - 1
<1>4. k \in 0..N-1 /\ k + 1 = n /\ n \in 0..N
  BY <1>1
<1> HIDE DEF k
<1>5. StepOf(f, F, deps, k, s)
  BY <1>3, <1>4, RecordStep
<1>6. f[n].stages[s].attempt = F[n].attempt
  BY <1>4, <1>5, Zenon DEF StepOf
<1>7. f[n].stages[s].attempt > 1 => Follows(F, n, s, f[n].stages[s].attempt)
  BY <1>3, <1>4, AttemptsFollow
<1> QED BY <1>6, <1>7

\* From its first record on a run is initialised, so that a later record of the
\* run ends it.
LEMMA RunRecordEnds ==
  ASSUME JournalAssumption, NEW N, NEW f, NEW F, NEW deps, Accepted(f, F, N, deps),
         NEW n \in 2..N, F[n].kind = "run"
  PROVE  f[n].terminal
<1> DEFINE T == {m \in 0..N : m > 0 => f[m].initialized}
<1>0. N \in Nat
  BY DEF Accepted
<1>1. 0 \in T
  BY <1>0
<1>2. ASSUME NEW m \in 0..N-1, m \in T PROVE m + 1 \in T
  <2>1. m \in 0..N /\ m + 1 \in 1..N /\ m + 1 \in 0..N /\ (m + 1) - 1 = m
    BY <1>0
  <2>2. f[m + 1] = Advance(f[m], F[m + 1]) /\ Acceptable(f[m], deps, F[m + 1]) /\ F[m + 1] \in Record
    BY <2>1 DEF Accepted, Replays
  <2>3. Counted(f[m])
    BY <2>1, ReplayCounted DEF Accepted
  <2>4. f[m] \in Lifecycle
    BY <2>3 DEF Counted
  <2>5. CASE F[m + 1].kind = "run"
    <3>1. f[m + 1].initialized
      BY <2>2, <2>4, <2>5, AdvanceRun
    <3> QED BY <2>1, <3>1
  <2>6. CASE F[m + 1].kind # "run"
    <3>1. F[m + 1] # RunRecord("running")
      BY <2>6 DEF RunRecord
    <3>2. f[m].initialized
      BY <2>2, <3>1, Zenon DEF Acceptable
    <3>3. f[m + 1].initialized = f[m].initialized
      BY <2>2, <2>4, <2>6 DEF Advance, Lifecycle
    <3> QED BY <2>1, <3>2, <3>3
  <2> QED BY <2>5, <2>6
<1>3. 0..N \subseteq T
  <2> HIDE DEF T
  <2> QED BY <1>0, <1>1, <1>2, UpToInduction
<1> DEFINE k == n - 1
<1>4. k \in 0..N /\ k > 0 /\ n \in 1..N
  BY <1>0
<1>5. f[n] = Advance(f[k], F[n])
  BY <1>4 DEF Accepted, Replays
<1> HIDE DEF k
<1>6. f[k].initialized
  BY <1>3, <1>4
<1>7. Counted(f[k])
  BY <1>4, ReplayCounted DEF Accepted
<1>8. f[k] \in Lifecycle
  BY <1>7 DEF Counted
<1> QED BY <1>5, <1>6, <1>8, AdvanceRun

(***************************************************************************)
(* Theorems about the journal file.                                        *)
(***************************************************************************)

\* In the file a stage runs only after its dependencies have completed, and a
\* completed stage never runs again.
THEOREM DependenciesFirst ==
  ASSUME JournalAssumption
  PROVE  JournalSpec => []RunsAfterDependencies
<1>1. JournalInv => RunsAfterDependencies
  <2> SUFFICES ASSUME JournalInv, NEW n \in 1..Len(lines), lines[n].kind = "stage", lines[n].state = "running"
               PROVE  /\ \A d \in dependencies[lines[n].stage] : \E m \in 1..n : lines[m].stage = d /\ lines[m].state \in Success
                      /\ \A m \in 1..n : lines[m].stage = lines[n].stage => lines[m].state \notin Success
    BY Zenon DEF RunsAfterDependencies
  <2>1. dependencies \in [StageIds -> SUBSET StageIds] /\ Accepted(Replay, lines, Len(lines), dependencies)
    BY FileAccepted, Zenon DEF JournalInv, JournalTypeOK
  <2> QED BY <2>1, RunningDependencies
<1> QED BY <1>1, Invariance, PTL

\* A run that the file ends in success has completed every stage.
THEOREM SuccessComplete ==
  ASSUME JournalAssumption
  PROVE  JournalSpec => []SuccessIsComplete
<1>1. JournalInv => SuccessIsComplete
  <2> SUFFICES ASSUME JournalInv, NEW n \in 2..Len(lines), lines[n] = RunRecord("succeeded"), NEW s \in StageIds
               PROVE  \E m \in 1..n : lines[m].stage = s /\ lines[m].state \in Success
    BY Zenon DEF SuccessIsComplete
  <2>1. n \in 1..Len(lines) /\ Accepted(Replay, lines, Len(lines), dependencies)
    BY FileAccepted, TypeFacts DEF JournalInv
  <2> QED BY <2>1, SuccessRecords
<1> QED BY <1>1, Invariance, PTL

\* The attempts of a stage are numbered without gaps: every retry follows a
\* failed or cancelled attempt.
THEOREM RetriesFollow ==
  ASSUME JournalAssumption
  PROVE  JournalSpec => []RetriesNumbered
<1>1. JournalInv => RetriesNumbered
  <2> SUFFICES ASSUME JournalInv, NEW n \in 1..Len(lines), lines[n].attempt > 1
               PROVE  Follows(lines, n, lines[n].stage, lines[n].attempt)
    BY Zenon DEF RetriesNumbered, Follows
  <2>1. Accepted(Replay, lines, Len(lines), dependencies)
    BY FileAccepted
  <2> QED BY <2>1, AttemptNumbered
<1> QED BY <1>1, Invariance, PTL

\* Nothing follows an incomplete line or the record that ends the run, and
\* nothing that was written is taken back.
THEOREM FileIsFinal ==
  ASSUME JournalAssumption
  PROVE  JournalSpec => TailIsFinal
<1> DEFINE A == /\ partial => lines' = lines /\ partial' = partial
                /\ Len(lines') >= Len(lines) /\ SubSeq(lines', 1, Len(lines)) = lines
                /\ lines' # lines /\ Len(lines) > 1 => ~(lines[Len(lines)].kind = "run")
<1>1. ASSUME JournalInv, [JournalNext]_runVars PROVE A
  <2>1. lines \in Seq(Record) /\ Len(lines) \in Nat /\ partial \in BOOLEAN
    BY <1>1, TypeFacts DEF JournalInv, JournalTypeOK
  <2>2. CASE lines' = lines /\ (partial' = partial \/ partial' = TRUE)
    <3>1. partial => partial' = partial
      BY <2>1, <2>2, Zenon
    <3>2. SubSeq(lines, 1, Len(lines)) = lines
      BY <2>1
    <3> QED BY <2>1, <2>2, <3>1, <3>2
  <2>3. ASSUME NEW rec \in Record, producing, Writable, Acceptable(lifecycle, dependencies, rec),
               lines' = Append(lines, rec), partial' = partial
        PROVE  A
    <3>1. ~partial /\ ~Replay[Len(lines)].terminal
      BY <1>1, <2>3, WriterKnows
    <3>2. Len(lines') >= Len(lines) /\ SubSeq(lines', 1, Len(lines)) = lines
      BY <2>1, <2>3
    <3>3. ASSUME Len(lines) > 1, lines[Len(lines)].kind = "run" PROVE FALSE
      <4>1. Len(lines) \in 2..Len(lines)
        BY <2>1, <3>3
      <4>2. Accepted(Replay, lines, Len(lines), dependencies)
        BY <1>1, FileAccepted
      <4>3. Replay[Len(lines)].terminal
        BY <3>3, <4>1, <4>2, RunRecordEnds
      <4> QED BY <3>1, <4>3
    <3> QED BY <3>1, <3>2, <3>3
  <2>4. CASE AppendRecord
    <3>1. PICK rec \in Record : producing /\ (Persist(rec) \/ Break(rec))
      BY <2>4 DEF AppendRecord
    <3>2. CASE Persist(rec)
      BY <2>3, <3>1, <3>2 DEF Persist
    <3>3. CASE Break(rec)
      BY <2>2, <2>3, <3>1, <3>3 DEF Break
    <3> QED BY <3>1, <3>2, <3>3
  <2>5. CASE CloseJournal \/ JournalCrash \/ UNCHANGED runVars
    BY <2>2, <2>5 DEF CloseJournal, JournalCrash, runVars, writerVars
  <2> QED BY <1>1, <2>4, <2>5 DEF JournalNext
<1>2. JournalInv /\ [JournalNext]_runVars => [A]_runVars
  BY <1>1
<1> QED BY <1>2, Invariance, PTL DEF JournalSpec, TailIsFinal

(***************************************************************************)
(* Whatever was appended and however the writing ended, the file replays   *)
(* to what the writer knew, runs stages after their dependencies and once, *)
(* numbers their retries and claims success for nothing incomplete.        *)
(***************************************************************************)
THEOREM Soundness ==
  ASSUME JournalAssumption
  PROVE  JournalSpec => []JournalSound
BY Invariance, DependenciesFirst, SuccessComplete, RetriesFollow, PTL DEF JournalSound
=============================================================================
